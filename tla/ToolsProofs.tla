---------------------------- MODULE ToolsProofs ----------------------------
(***************************************************************************)
(* Proofs about the relocation tools, for all sizes of the device, all     *)
(* files, all placements and all limits.                                   *)
(***************************************************************************)
EXTENDS Tools, WellFoundedInduction, TLAPS

-----------------------------------------------------------------------------
(* Smallest elements, and the positions of the files. *)

(* A set of natural numbers that is not empty has a smallest element. *)
LEMMA Smallest ==
    ASSUME NEW T, T \subseteq Nat, T # {}
    PROVE  \E x \in T : \A y \in T : x <= y
<1> DEFINE R == {ss \in Nat \X Nat : ss[1] < ss[2]}
<1>1. IsWellFoundedOn(R, Nat)
  BY NatLessThanWellFounded DEF OpToRel
<1>2. \A x, y \in Nat : y < x => <<y, x>> \in R
  OBVIOUS
<1> HIDE DEF R
<1>3. \E x \in T : \A y \in T : <<y, x>> \notin R
  BY <1>1, WFMin
<1>4. PICK x \in T : \A y \in T : <<y, x>> \notin R
  BY <1>3
<1>5. \A y \in T : ~(y < x)
  BY <1>2, <1>4
<1> QED BY <1>5

Numbers == 1 .. Len(Sizes) + 1

(* The sums of sizes up to a file exist. *)
IsSums(g, n) ==
    /\ g \in [1 .. n -> Nat \ {0}] /\ g[1] = 1
    /\ \A f \in 2 .. n : g[f] = g[f - 1] + Sizes[f - 1]

LEMMA SumsExist == \A n \in Numbers : \E g : IsSums(g, n)
<1> DEFINE T == {n \in Numbers : ~\E g : IsSums(g, n)}
<1>1. SUFFICES ASSUME T # {} PROVE FALSE
  OBVIOUS
<1>2. Len(Sizes) \in Nat /\ \A i \in 1 .. Len(Sizes) : Sizes[i] \in Nat \ {0}
  BY BaseAssumption
<1>3. PICK x \in T : \A y \in T : x <= y
  <2>1. T \subseteq Nat
    BY <1>2 DEF Numbers
  <2> HIDE DEF T
  <2> QED BY <1>1, <2>1, Smallest
<1>4. x \in Numbers /\ x \in Nat \ {0} /\ ~\E g : IsSums(g, x)
  BY <1>2 DEF Numbers
<1>5. CASE x = 1
  <2>1. IsSums([i \in 1 .. 1 |-> 1], 1)
    BY DEF IsSums
  <2> QED BY <1>4, <1>5, <2>1
<1>6. CASE x # 1
  <2>1. x - 1 \in Numbers /\ x - 1 \notin T
    BY <1>2, <1>3, <1>4, <1>6 DEF Numbers
  <2>2. PICK g : IsSums(g, x - 1)
    BY <2>1
  <2> DEFINE h == [i \in 1 .. x |-> IF i < x THEN g[i] ELSE g[x - 1] + Sizes[x - 1]]
  <2>3. x - 1 \in 1 .. Len(Sizes) /\ Sizes[x - 1] \in Nat \ {0}
    BY <1>2, <1>4, <1>6 DEF Numbers
  <2>4. h \in [1 .. x -> Nat \ {0}]
    BY <1>4, <1>6, <2>2, <2>3 DEF IsSums
  <2>5. h[1] = 1 /\ \A f \in 2 .. x : h[f] = h[f - 1] + Sizes[f - 1]
    BY <1>4, <1>6, <2>2, <2>3 DEF IsSums
  <2>6. IsSums(h, x)
    BY <2>4, <2>5 DEF IsSums
  <2> QED BY <1>4, <2>6
<1> QED BY <1>5, <1>6

(* What First is: a file begins where the one before it ends. *)
LEMMA FirstIs ==
    /\ First \in [Numbers -> Nat \ {0}] /\ First[1] = 1
    /\ \A f \in 1 .. Len(Sizes) : First[f + 1] = First[f] + Sizes[f]
<1> DEFINE Body(g) == [f \in Numbers |-> IF f = 1 THEN 1 ELSE g[f - 1] + Sizes[f - 1]]
<1>1. Len(Sizes) \in Nat /\ \A i \in 1 .. Len(Sizes) : Sizes[i] \in Nat \ {0}
  BY BaseAssumption
<1>2. PICK g : IsSums(g, Len(Sizes) + 1)
  BY <1>1, SumsExist DEF Numbers
<1>3. g = Body(g)
  BY <1>1, <1>2 DEF IsSums, Numbers
<1>4. First = Body(First)
  BY <1>3 DEF First, Numbers
<1>5. First[1] = 1 /\ \A f \in Numbers : f # 1 => First[f] = First[f - 1] + Sizes[f - 1]
  BY <1>1, <1>4 DEF Numbers
<1>6. \A f \in Numbers : First[f] \in Nat \ {0}
  <2> DEFINE T == {f \in Numbers : First[f] \notin Nat \ {0}}
  <2>1. SUFFICES ASSUME T # {} PROVE FALSE
    OBVIOUS
  <2>2. T \subseteq Nat
    BY <1>1 DEF Numbers
  <2>3. PICK x \in T : \A y \in T : x <= y
    <3> HIDE DEF T
    <3> QED BY <2>1, <2>2, Smallest
  <2>4. x # 1
    BY <1>5
  <2>5. x - 1 \in Numbers /\ x - 1 \notin T /\ Sizes[x - 1] \in Nat \ {0}
    BY <1>1, <2>3, <2>4 DEF Numbers
  <2> QED BY <1>5, <2>4, <2>5
<1>7. \A f \in 1 .. Len(Sizes) : f + 1 \in Numbers /\ f + 1 # 1 /\ (f + 1) - 1 = f
  BY <1>1 DEF Numbers
<1> QED BY <1>4, <1>5, <1>6, <1>7

LEMMA FirstRises ==
    \A f, g \in Numbers : f < g => First[f] < First[g]
<1>1. Len(Sizes) \in Nat /\ \A i \in 1 .. Len(Sizes) : Sizes[i] \in Nat \ {0}
  BY BaseAssumption
<1>2. SUFFICES ASSUME NEW f \in Numbers PROVE \A g \in Numbers : f < g => First[f] < First[g]
  OBVIOUS
<1> DEFINE T == {g \in Numbers : f < g /\ ~(First[f] < First[g])}
<1>3. SUFFICES ASSUME T # {} PROVE FALSE
  OBVIOUS
<1>4. T \subseteq Nat
  BY <1>1 DEF Numbers
<1>5. PICK x \in T : \A y \in T : x <= y
  <2> HIDE DEF T
  <2> QED BY <1>3, <1>4, Smallest
<1>6. /\ x - 1 \in 1 .. Len(Sizes) /\ x - 1 \in Numbers /\ x - 1 \notin T /\ (x - 1) + 1 = x
      /\ f \in Nat /\ x \in Nat
  BY <1>1, <1>5 DEF Numbers
<1>7. First[x] = First[x - 1] + Sizes[x - 1] /\ Sizes[x - 1] \in Nat \ {0}
  BY <1>1, <1>6, FirstIs
<1>8. First[f] \in Nat /\ First[x] \in Nat /\ First[x - 1] \in Nat
  BY <1>6, FirstIs
<1>9. f = x - 1 \/ First[f] < First[x - 1]
  BY <1>5, <1>6
<1> QED BY <1>5, <1>7, <1>8, <1>9

(* The positions are those of the files, and each has one file. *)
LEMMA Positions ==
    /\ Total \in Nat
    /\ \A f \in 1 .. Len(Sizes) : First[f] .. First[f + 1] - 1 \subseteq Sel
    /\ \A f, g \in 1 .. Len(Sizes) :
          (First[f] .. First[f + 1] - 1) \cap (First[g] .. First[g + 1] - 1) # {} => f = g
<1>1. Len(Sizes) \in Nat /\ \A f \in 1 .. Len(Sizes) : f \in Numbers /\ f + 1 \in Numbers
  BY BaseAssumption DEF Numbers
<1>2. Len(Sizes) + 1 \in Numbers
  BY <1>1 DEF Numbers
<1>3. Total \in Nat
  BY <1>2, FirstIs DEF Total
<1>4. ASSUME NEW f \in 1 .. Len(Sizes) PROVE First[f] .. First[f + 1] - 1 \subseteq Sel
  <2>1. First[f] \in Nat \ {0} /\ First[f + 1] \in Nat /\ First[Len(Sizes) + 1] \in Nat
    BY <1>1, <1>2, FirstIs
  <2>2. f + 1 = Len(Sizes) + 1 \/ f + 1 < Len(Sizes) + 1
    BY <1>1
  <2>3. First[f + 1] = First[Len(Sizes) + 1] \/ First[f + 1] < First[Len(Sizes) + 1]
    BY <1>1, <1>2, <2>2, FirstRises
  <2> QED BY <2>1, <2>3 DEF Sel, Total
<1>5. ASSUME NEW f \in 1 .. Len(Sizes), NEW g \in 1 .. Len(Sizes), f < g
      PROVE  (First[f] .. First[f + 1] - 1) \cap (First[g] .. First[g + 1] - 1) = {}
  <2>1. First[f + 1] \in Nat /\ First[g] \in Nat
    BY <1>1, FirstIs
  <2>2. f + 1 = g \/ f + 1 < g
    BY <1>1, <1>5
  <2>3. First[f + 1] = First[g] \/ First[f + 1] < First[g]
    BY <1>1, <2>2, FirstRises
  <2> QED BY <2>1, <2>3
<1>6. \A f, g \in 1 .. Len(Sizes) : f = g \/ f < g \/ g < f
  BY <1>1
<1> QED BY <1>3, <1>4, <1>5, <1>6

-----------------------------------------------------------------------------
(* The choice cache. *)

(* What the search returns lies in the cache and is the first such run     *)
(* behind the offset; without one it returns -1.                           *)
LEMMA FindAvail ==
    ASSUME NEW cc, NEW offset \in Nat, NEW n \in Nat
    PROVE  LET k == choice_find_avail(cc, offset, n)
           IN  \/ /\ k \in offset .. NBlk - n + 1 /\ k .. k + n - 1 \subseteq cc
               \/ /\ k = -1
                  /\ \A j \in offset .. NBlk - n + 1 : ~(j .. j + n - 1 \subseteq cc)
<1> DEFINE fits == {j \in offset .. NBlk - n + 1 : j .. j + n - 1 \subseteq cc}
<1>1. CASE fits = {}
  BY <1>1 DEF choice_find_avail
<1>2. CASE fits # {}
  <2>1. fits \subseteq Nat
    BY BaseAssumption
  <2>2. \E k \in fits : \A x \in fits : k <= x
    <3> HIDE DEF fits
    <3> QED BY <1>2, <2>1, Smallest
  <2>3. (CHOOSE k \in fits : \A x \in fits : k <= x) \in fits
    <3> HIDE DEF fits
    <3> QED BY <2>2
  <2>4. choice_find_avail(cc, offset, n) \in fits
    BY <1>2, <2>3 DEF choice_find_avail
  <2> QED BY <2>4
<1> QED BY <1>1, <1>2

(* What every tool keeps: files placed apart, and choices that are free. *)
Sound ==
    /\ place \in [Sel -> Blk] /\ ccache \subseteq Free /\ NoOverlap
    /\ cur \in Nat \ {0}

(* A step moves the block at hand to a choice, or reloads or keeps the     *)
(* cache.                                                                  *)
Shifts(k) == cur \in Sel /\ k \in ccache /\ Relocate(k)
Stays == UNCHANGED place /\ ccache' \in {ccache, Free}
Onward == cur' \in Nat \ {0}

LEMMA MoveKeeps ==
    ASSUME Sound, Onward, NEW k, Shifts(k)
    PROVE  Sound' /\ Map!Move(cur, k) /\ k \in Blk /\ place[cur] \in Blk
<1>1. place \in [Sel -> Blk] /\ cur \in Sel /\ k \in Blk \ Used(place)
  BY DEF Sound, Shifts, Free
<1>2. place' = [place EXCEPT ![cur] = k] /\ ccache' = ccache \ {k}
  BY DEF Shifts, Relocate
<1>3. place' \in [Sel -> Blk] /\ place'[cur] = k /\ \A s \in Sel : s # cur => place'[s] = place[s]
  BY <1>1, <1>2
<1>4. \A s, t \in Sel : s # t => place[s] # place[t]
  BY DEF Sound, NoOverlap
<1>5. \A s \in Sel : place[s] # k /\ place[s] \notin Others
  BY <1>1 DEF Used, Sound, NoOverlap
<1>6. k \notin Others
  BY <1>1 DEF Used
<1>7. Used(place') = (Used(place) \ {place[cur]}) \union {k}
  BY <1>1, <1>3, <1>4, <1>5, <1>6 DEF Used
<1>8. NoOverlap'
  BY <1>1, <1>3, <1>4, <1>5, <1>6 DEF NoOverlap
<1>9. (ccache \subseteq Free)'
  BY <1>1, <1>2, <1>7 DEF Sound, Free
<1>10. Map!Move(cur, k)
  BY <1>1, <1>2, <1>7 DEF Map!Move
<1> QED BY <1>1, <1>3, <1>8, <1>9, <1>10 DEF Sound, Onward

LEMMA StayKeeps ==
    ASSUME Sound, Onward, Stays
    PROVE  Sound' /\ UNCHANGED Map!mapVars
BY DEF Sound, Onward, Stays, Free, NoOverlap, Used, Map!mapVars

(* Such a step moves at most the block at hand. *)
LEMMA MovesOne ==
    ASSUME Sound, NEW k, Shifts(k)
    PROVE  Moved = {cur} /\ place'[cur] = k /\ place' # place
<1>1. place \in [Sel -> Blk] /\ cur \in Sel /\ place' = [place EXCEPT ![cur] = k]
  BY DEF Sound, Shifts, Relocate
<1>2. k # place[cur]
  BY <1>1 DEF Sound, Shifts, Free, Used
<1> QED BY <1>1, <1>2 DEF Moved

LEMMA MovesNone == ASSUME Stays PROVE Moved = {}
BY DEF Stays, Moved

LEMMA AtHand == ASSUME cur \in Nat \ {0}, ~Done PROVE cur \in Sel /\ cur + 1 \in Nat \ {0}
BY Positions DEF Done, Sel

-----------------------------------------------------------------------------
(* smush *)

LEMMA SmushSame ==
    /\ Smush!Done = Done /\ Smush!choice_alloc = Free
    /\ \A k : Smush!Relocate(k) <=> Relocate(k)
    /\ \A cc, off, n : Smush!choice_find_avail(cc, off, n) = choice_find_avail(cc, off, n)
    /\ Smush!choice_min = 1 /\ Smush!choice_max = NBlk
    /\ Smush!NextPos <=> cur' = cur + 1
    /\ Smush!BaseInit <=> BaseInit
<1>1. Smush!First = First
  BY DEF Smush!First, First
<1>2. Smush!Total = Total
  BY <1>1 DEF Smush!Total, Total
<1> QED BY <1>2 DEF Smush!Done, Done, Smush!choice_alloc, Smush!Free, Free, Smush!Used, Used,
      Smush!Blk, Blk, Smush!Sel, Sel, Smush!Relocate, Relocate, Smush!choice_find_avail,
      choice_find_avail, Smush!choice_min, Smush!choice_max, Smush!NextPos, Smush!BaseInit, BaseInit,
      choice_alloc

LEMMA SmushStepIs ==
    ASSUME Sound, ccache_cursor \in Nat, Smush!Next
    PROVE  /\ Onward /\ ccache_cursor' \in Nat
           /\ Stays \/ \E k : Shifts(k) /\ ~(k > place[cur])
<1>1. ~Done
  BY SmushSame DEF Smush!Next, Smush!NotFound, Smush!TooFar, Smush!Take, Smush!GiveUp
<1>2. cur \in Sel /\ cur + 1 \in Nat \ {0} /\ cur \in Nat \ {0}
  BY <1>1, AtHand DEF Sound
<1>3. \/ Smush!Found \in Nat /\ Smush!Found \in ccache
      \/ Smush!Found = -1
  <2>1. Smush!Found = choice_find_avail(ccache, ccache_cursor, 1)
    BY SmushSame DEF Smush!Found
  <2>2. \/ /\ Smush!Found \in ccache_cursor .. NBlk - 1 + 1
           /\ Smush!Found .. Smush!Found + 1 - 1 \subseteq ccache
        \/ Smush!Found = -1
    BY <2>1, FindAvail
  <2>3. NBlk \in Nat
    BY BaseAssumption
  <2> QED BY <2>2, <2>3
<1>4. CASE Smush!NotFound
  BY <1>2, <1>4, SmushSame DEF Smush!NotFound, Smush!basevars, Stays, Onward
<1>5. CASE Smush!TooFar
  BY <1>2, <1>5, SmushSame DEF Smush!TooFar, Stays, Onward
<1>6. CASE Smush!Take
  <2>1. Smush!Found \in Nat /\ Smush!Found \in ccache
    BY <1>3, <1>6 DEF Smush!Take
  <2>2. CASE Smush!Found > place[cur]
    BY <1>2, <1>6, <2>1, <2>2, SmushSame DEF Smush!Take, Stays, Onward
  <2>3. CASE ~(Smush!Found > place[cur])
    <3>1. Relocate(Smush!Found) /\ ccache_cursor' = Smush!Found + 1 /\ cur' = cur + 1
      BY <1>6, <2>3, SmushSame DEF Smush!Take
    <3> QED BY <1>2, <2>1, <2>3, <3>1 DEF Shifts, Onward
  <2> QED BY <2>2, <2>3
<1>7. CASE Smush!GiveUp
  BY <1>2, <1>7, SmushSame DEF Smush!GiveUp, Stays, Onward
<1> QED BY <1>4, <1>5, <1>6, <1>7 DEF Smush!Next

-----------------------------------------------------------------------------
(* thrashcopy and scatter *)

LEMMA ThrashSame ==
    /\ Thrash!Done = Done /\ Thrash!choice_alloc = Free
    /\ \A k : Thrash!Relocate(k) <=> Relocate(k)
    /\ Thrash!NextPos <=> cur' = cur + 1
    /\ Thrash!BaseInit <=> BaseInit
<1>1. Thrash!First = First
  BY DEF Thrash!First, First
<1>2. Thrash!Total = Total
  BY <1>1 DEF Thrash!Total, Total
<1> QED BY <1>2 DEF Thrash!Done, Done, Thrash!choice_alloc, Thrash!Free, Free, Thrash!Used, Used,
      Thrash!Blk, Blk, Thrash!Sel, Sel, Thrash!Relocate, Relocate, Thrash!NextPos, Thrash!BaseInit,
      BaseInit, choice_alloc

LEMMA ThrashStepIs ==
    ASSUME Sound, Thrash!Next
    PROVE  Onward /\ (Stays \/ \E k : Shifts(k) /\ ~(place[cur] >= k))
<1>1. ~Done
  BY ThrashSame DEF Thrash!Next, Thrash!NotFree, Thrash!Take, Thrash!GiveUp, Thrash!NoMoreMoves,
                    Thrash!Searching
<1>2. cur \in Sel /\ cur + 1 \in Nat \ {0} /\ cur \in Nat \ {0}
  BY <1>1, AtHand DEF Sound
<1>3. CASE Thrash!NotFree
  BY <1>2, <1>3, ThrashSame DEF Thrash!NotFree, Thrash!basevars, Stays, Onward
<1>4. CASE Thrash!Take
  <2>1. CASE place[cur] >= ccache_cursor
    BY <1>2, <1>4, <2>1, ThrashSame DEF Thrash!Take, Stays, Onward
  <2>2. CASE ~(place[cur] >= ccache_cursor)
    <3>1. Relocate(ccache_cursor) /\ ccache_cursor \in ccache /\ cur' = cur + 1
      BY <1>4, <2>2, ThrashSame DEF Thrash!Take
    <3> QED BY <1>2, <2>2, <3>1 DEF Shifts, Onward
  <2> QED BY <2>1, <2>2
<1>5. CASE Thrash!GiveUp
  BY <1>2, <1>5, ThrashSame DEF Thrash!GiveUp, Stays, Onward
<1>6. CASE Thrash!NoMoreMoves
  BY <1>2, <1>6, ThrashSame DEF Thrash!NoMoreMoves, Stays, Onward
<1> QED BY <1>3, <1>4, <1>5, <1>6 DEF Thrash!Next

LEMMA ScatterSame ==
    /\ Scatter!Done = Done /\ Scatter!choice_alloc = Free
    /\ \A k : Scatter!Relocate(k) <=> Relocate(k)
    /\ \A cc, off, n : Scatter!choice_find_avail(cc, off, n) = choice_find_avail(cc, off, n)
    /\ Scatter!choice_min = 1 /\ Scatter!choice_max = NBlk
    /\ Scatter!NextPos <=> cur' = cur + 1
    /\ Scatter!BaseInit <=> BaseInit
<1>1. Scatter!First = First
  BY DEF Scatter!First, First
<1>2. Scatter!Total = Total
  BY <1>1 DEF Scatter!Total, Total
<1> QED BY <1>2 DEF Scatter!Done, Done, Scatter!choice_alloc, Scatter!Free, Free, Scatter!Used, Used,
      Scatter!Blk, Blk, Scatter!Sel, Sel, Scatter!Relocate, Relocate, Scatter!choice_find_avail,
      choice_find_avail, Scatter!choice_min, Scatter!choice_max, Scatter!NextPos, Scatter!BaseInit,
      BaseInit, choice_alloc

LEMMA ScatterStepIs ==
    ASSUME Sound, Scatter!Next
    PROVE  Onward /\ (Stays \/ \E k : Shifts(k))
<1>1. ~Done
  BY ScatterSame DEF Scatter!Next, Scatter!Spared, Scatter!Draw, Scatter!GiveUp
<1>2. cur \in Sel /\ cur + 1 \in Nat \ {0} /\ cur \in Nat \ {0}
  BY <1>1, AtHand DEF Sound
<1>3. CASE Scatter!Spared
  BY <1>2, <1>3, ScatterSame DEF Scatter!Spared, Stays, Onward
<1>4. ASSUME NEW b \in 1 .. NBlk - 1, Scatter!Draw(b)
      PROVE  Onward /\ (Stays \/ \E k : Shifts(k))
  <2> DEFINE k == choice_find_avail(ccache, b, 1)
  <2>1. NBlk \in Nat /\ b \in Nat
    BY BaseAssumption
  <2>2. CASE k = -1
    BY <1>2, <1>4, <2>2, ScatterSame DEF Scatter!Draw, Stays, Onward
  <2>3. CASE k # -1
    <3>1. k \in b .. NBlk - 1 + 1 /\ k .. k + 1 - 1 \subseteq ccache
      BY <2>1, <2>3, FindAvail
    <3>2. k \in ccache
      BY <2>1, <3>1
    <3>3. Relocate(k) /\ cur' = cur + 1
      BY <1>4, <2>3, ScatterSame DEF Scatter!Draw
    <3> QED BY <1>2, <3>2, <3>3 DEF Shifts, Onward
  <2> QED BY <2>2, <2>3
<1>5. CASE Scatter!GiveUp
  BY <1>2, <1>5, ScatterSame DEF Scatter!GiveUp, Stays, Onward
<1> QED BY <1>3, <1>4, <1>5, ScatterSame DEF Scatter!Next

-----------------------------------------------------------------------------
(* The image relocator *)

Px(b) == b \div BlksPerPx
End   == Px(NBlk) + 1

LEMMA PxFacts ==
    /\ \A b \in Nat : Px(b) \in Nat
    /\ \A a, b \in Nat : a <= b => Px(a) <= Px(b)
    /\ End \in Nat /\ \A b \in Blk : b \in Nat /\ Px(b) \in Nat /\ Px(b) < End
<1>1. NBlk \in Nat
  BY BaseAssumption
<1>2. \A b \in Nat : Px(b) \in Nat
  BY ToolsAssumption DEF Px
<1>3. \A a, b \in Nat : a <= b => Px(a) <= Px(b)
  BY ToolsAssumption DEF Px
<1>4. \A b \in Blk : b \in Nat /\ b <= NBlk
  BY <1>1 DEF Blk
<1> QED BY <1>1, <1>2, <1>3, <1>4 DEF End

(* Where the search stands, and what is left behind it: no free block on   *)
(* the pixel to fill or on a later one.                                    *)
ImageAt == IF cur_choice = 0 THEN ccache_cursor ELSE cur_choice
ImageInv ==
    /\ img \subseteq Nat /\ (\A p \in img : p < End) /\ reloc_cursor \in img \union {End}
    /\ ccache_cursor \in Nat \ {0} /\ cur_choice \in 0 .. NBlk
    /\ cur_choice # 0 => ~Done /\ ccache_cursor <= cur_choice /\ Px(place[cur]) \notin img
    /\ \A b \in ccache : b < ImageAt => Px(b) < reloc_cursor

LEMMA ImageSame ==
    /\ Image!Done = Done /\ \A k : Image!Relocate(k) <=> Relocate(k)
    /\ Image!choice_min = 1 /\ Image!choice_max = NBlk /\ Image!NoPx = End
    /\ Image!NextPos <=> cur' = cur + 1
    /\ \A b : Image!byte_to_imgidx(b) = Px(b)
    /\ Image!BaseInit <=> BaseInit
<1>1. Image!First = First
  BY DEF Image!First, First
<1>2. Image!Total = Total
  BY <1>1 DEF Image!Total, Total
<1> QED BY <1>2 DEF Image!Done, Done, Image!Relocate, Relocate, Image!choice_min, Image!choice_max,
      Image!NoPx, End, Image!NextPos, Image!byte_to_imgidx, Px, Image!BaseInit, BaseInit,
      Image!choice_alloc, choice_alloc, Image!Free, Free, Image!Used, Used, Image!Blk, Blk, Image!Sel,
      Sel

(* The pixel to fill next lies behind the one that was filled or passed. *)
LEMMA AdvanceIs ==
    ASSUME img \subseteq Nat, NEW i \in Int
    PROVE  \/ Image!Advance(i) = End
           \/ Image!Advance(i) \in img /\ Image!Advance(i) > i
<1> DEFINE rest == {p \in img : p > i}
<1>1. CASE rest = {}
  BY <1>1, ImageSame DEF Image!Advance
<1>2. CASE rest # {}
  <2>1. rest \subseteq Nat
    OBVIOUS
  <2>2. \E p \in rest : \A q \in rest : p <= q
    <3> HIDE DEF rest
    <3> QED BY <1>2, <2>1, Smallest
  <2>3. (CHOOSE p \in rest : \A q \in rest : p <= q) \in rest
    <3> HIDE DEF rest
    <3> QED BY <2>2
  <2>4. Image!Advance(i) \in rest
    BY <1>2, <2>3 DEF Image!Advance
  <2> QED BY <2>4
<1> QED BY <1>1, <1>2

ImageMoves == \E k : Shifts(k) /\ Px(place[cur]) \notin img /\ Px(k) \in img

LEMMA ImageStepIs ==
    ASSUME Sound, ImageInv, Image!Next
    PROVE  /\ Onward /\ ImageInv' /\ img' = img
           /\ ImageMoves \/ Stays
           /\ reloc_cursor' # reloc_cursor /\ Stays => \A b \in ccache : Px(b) # reloc_cursor
<1> DEFINE Goal ==
        /\ Onward /\ ImageInv' /\ img' = img
        /\ ImageMoves \/ Stays
        /\ reloc_cursor' # reloc_cursor /\ Stays => \A b \in ccache : Px(b) # reloc_cursor
<1>1. ~Done
  BY ImageSame DEF Image!Next, Image!InPlace, Image!BeginSearch, Image!Pass, Image!Hit, Image!Overshoot,
                   Image!Searching
<1>2. cur \in Sel /\ cur + 1 \in Nat \ {0} /\ cur \in Nat \ {0}
  BY <1>1, AtHand DEF Sound
<1>3. NBlk \in Nat /\ End \in Nat /\ \A b \in ccache : b \in 1 .. NBlk /\ Px(b) \in Nat /\ Px(b) < End
  BY BaseAssumption, PxFacts DEF Sound, Free, Blk
<1>4. /\ img \subseteq Nat /\ (\A p \in img : p < End) /\ reloc_cursor \in img \union {End}
      /\ ccache_cursor \in Nat \ {0} /\ cur_choice \in 0 .. NBlk /\ reloc_cursor \in Nat
      /\ \A b \in ccache : b < ImageAt => Px(b) < reloc_cursor
  BY <1>3 DEF ImageInv
<1>5. ASSUME reloc_cursor' = Image!reloc_img_advance
      PROVE  /\ reloc_cursor' \in img \union {End} /\ reloc_cursor' \in Nat
             /\ reloc_cursor < End => reloc_cursor' > reloc_cursor
             /\ reloc_cursor <= reloc_cursor'
  BY <1>3, <1>4, <1>5, AdvanceIs, ImageSame DEF Image!reloc_img_advance
<1>6. CASE Image!InPlace
  <2>1. /\ cur_choice = 0 /\ cur' = cur + 1 /\ place' = place /\ ccache' = ccache /\ img' = img
        /\ reloc_cursor' = reloc_cursor /\ ccache_cursor' = ccache_cursor /\ cur_choice' = cur_choice
    BY <1>6, ImageSame DEF Image!InPlace
  <2>2. ImageInv'
    BY <1>4, <2>1 DEF ImageInv, ImageAt
  <2> QED BY <1>2, <2>1, <2>2 DEF Onward, Stays
<1>7. CASE Image!BeginSearch
  <2>1. /\ cur_choice = 0 /\ place' = place /\ ccache' = ccache /\ img' = img
        /\ reloc_cursor' = reloc_cursor /\ ccache_cursor' = ccache_cursor
        /\ Px(place[cur]) \notin img
        /\ \/ cur' = cur + 1 /\ cur_choice' = cur_choice
           \/ ccache_cursor <= NBlk /\ cur_choice' = ccache_cursor /\ cur' = cur
    BY <1>3, <1>4, <1>7, ImageSame DEF Image!BeginSearch
  <2>2. ImageInv'
    BY <1>1, <1>3, <1>4, <2>1 DEF ImageInv, ImageAt, Done
  <2> QED BY <1>2, <2>1, <2>2 DEF Onward, Stays
<1>8. ASSUME cur_choice # 0
      PROVE  ccache_cursor <= cur_choice /\ Px(place[cur]) \notin img /\ ImageAt = cur_choice
  BY <1>8 DEF ImageInv, ImageAt
<1>9. CASE Image!Pass
  <2>1. /\ cur_choice # 0 /\ place' = place /\ ccache' = ccache /\ img' = img
        /\ reloc_cursor' = reloc_cursor /\ ccache_cursor' = ccache_cursor
        /\ cur_choice \notin ccache \/ Px(cur_choice) < reloc_cursor
        /\ \/ cur' = cur + 1 /\ cur_choice' = 0
           \/ cur_choice # NBlk /\ cur_choice' = cur_choice + 1 /\ cur' = cur
    BY <1>9, ImageSame DEF Image!Pass, Image!Searching, Image!EndOrNext
  <2>2. \A b \in ccache : b < ImageAt' => Px(b) < reloc_cursor
    BY <1>3, <1>4, <1>8, <2>1 DEF ImageAt
  <2>3. ImageInv'
    BY <1>1, <1>3, <1>4, <1>8, <2>1, <2>2 DEF ImageInv, Done
  <2> QED BY <1>2, <2>1, <2>3 DEF Onward, Stays
<1>10. CASE Image!Hit
  <2>1. /\ cur_choice # 0 /\ cur_choice \in ccache /\ Px(cur_choice) = reloc_cursor
        /\ Relocate(cur_choice) /\ reloc_cursor' = Image!reloc_img_advance
        /\ ccache_cursor' = IF reloc_cursor' = End THEN NBlk + 1 ELSE cur_choice + 1
        /\ cur_choice' = 0 /\ cur' = cur + 1 /\ img' = img
    BY <1>10, ImageSame DEF Image!Hit, Image!Searching
  <2>2. Shifts(cur_choice) /\ reloc_cursor \in img
    BY <1>2, <1>3, <1>4, <2>1 DEF Shifts
  <2>3. ImageMoves
    BY <1>8, <2>1, <2>2 DEF ImageMoves
  <2>4. ccache' \subseteq ccache
    BY <2>1 DEF Relocate
  <2>5. \A b \in ccache : b <= cur_choice => Px(b) <= reloc_cursor
    BY <1>3, <2>1, PxFacts
  <2>6. \A b \in ccache' : b < ImageAt' => Px(b) < reloc_cursor'
    <3>1. reloc_cursor' > reloc_cursor /\ reloc_cursor' \in Nat
      BY <1>3, <1>5, <2>1
    <3> QED BY <1>3, <1>4, <2>1, <2>4, <2>5, <3>1 DEF ImageAt
  <2>7. ImageInv'
    BY <1>3, <1>4, <1>5, <2>1, <2>6 DEF ImageInv
  <2>8. ~Stays
    BY <2>2, MovesOne DEF Stays
  <2> QED BY <1>2, <2>1, <2>3, <2>7, <2>8 DEF Onward
<1>11. CASE Image!Overshoot
  <2>1. /\ cur_choice # 0 /\ cur_choice \in ccache /\ Px(cur_choice) > reloc_cursor
        /\ reloc_cursor' = Image!reloc_img_advance
        /\ IF reloc_cursor' = End
           THEN ccache_cursor' = NBlk + 1 /\ cur_choice' = 0 /\ cur' = cur + 1
           ELSE ccache_cursor' = ccache_cursor /\ cur_choice' = cur_choice /\ cur' = cur
        /\ place' = place /\ ccache' = ccache /\ img' = img
    BY <1>11, ImageSame DEF Image!Overshoot, Image!Searching
  <2>2. \A b \in ccache : b < ImageAt' => Px(b) < reloc_cursor'
    BY <1>3, <1>4, <1>5, <1>8, <2>1 DEF ImageAt
  <2>3. ImageInv'
    BY <1>1, <1>3, <1>4, <1>5, <1>8, <2>1, <2>2 DEF ImageInv, Done
  <2>4. ASSUME NEW b \in ccache PROVE Px(b) # reloc_cursor
    <3>1. CASE b < cur_choice
      BY <1>3, <1>4, <1>8, <2>1, <3>1
    <3>2. CASE ~(b < cur_choice)
      <4>1. Px(cur_choice) <= Px(b)
        BY <1>3, <1>4, <3>2, PxFacts
      <4> QED BY <1>3, <1>4, <2>1, <4>1
    <3> QED BY <3>1, <3>2
  <2> QED BY <1>2, <2>1, <2>3, <2>4 DEF Onward, Stays
<1> QED BY <1>6, <1>7, <1>9, <1>10, <1>11 DEF Image!Next

-----------------------------------------------------------------------------
(* defrag *)

InFile(f) == First[f] .. First[f + 1] - 1

LEMMA DefragSame ==
    /\ Defrag!Done = Done /\ \A k : Defrag!Relocate(k) <=> Relocate(k)
    /\ \A cc, off, n : Defrag!choice_find_avail(cc, off, n) = choice_find_avail(cc, off, n)
    /\ Defrag!choice_min = 1 /\ Defrag!choice_max = NBlk
    /\ Defrag!NextPos <=> cur' = cur + 1
    /\ Defrag!Files = 1 .. Len(Sizes) /\ \A f : Defrag!PosOf(f) = InFile(f)
    /\ Defrag!First = First
    /\ Defrag!BaseInit <=> BaseInit
<1>1. Defrag!First = First
  BY DEF Defrag!First, First
<1>2. Defrag!Total = Total
  BY <1>1 DEF Defrag!Total, Total
<1> QED BY <1>1, <1>2 DEF Defrag!Done, Done, Defrag!Relocate, Relocate, Defrag!choice_find_avail,
      choice_find_avail, Defrag!choice_min, Defrag!choice_max, Defrag!NextPos, Defrag!Files,
      Defrag!PosOf, InFile, Defrag!BaseInit, BaseInit, Defrag!choice_alloc, choice_alloc, Defrag!Free,
      Free, Defrag!Used, Used, Defrag!Blk, Blk, Defrag!Sel, Sel

(* The file at hand. *)
LEMMA FileIs ==
    ASSUME NEW f \in 1 .. Len(Sizes), cur \in InFile(f)
    PROVE  /\ Defrag!File(cur) = f /\ Defrag!sel_min = First[f] /\ Defrag!sel_count = Sizes[f]
           /\ InFile(f) \subseteq Sel /\ First[f] \in Nat \ {0} /\ Sizes[f] \in Nat \ {0}
           /\ First[f + 1] = First[f] + Sizes[f]
<1>1. \A g \in 1 .. Len(Sizes) : cur \in InFile(g) => g = f
  BY Positions DEF InFile
<1>2. Defrag!File(cur) = f
  BY <1>1, DefragSame DEF Defrag!File
<1>3. Sizes[f] \in Nat \ {0} /\ Len(Sizes) \in Nat
  BY BaseAssumption
<1>4. First[f + 1] = First[f] + Sizes[f] /\ First[f] \in Nat \ {0}
  BY <1>3, FirstIs DEF Numbers
<1>5. InFile(f) \subseteq Sel
  BY Positions DEF InFile
<1> QED BY <1>2, <1>3, <1>4, <1>5, DefragSame DEF Defrag!sel_min, Defrag!sel_count

(* The position behind a file is the first of the next, or the end. *)
LEMMA NextFile ==
    ASSUME NEW f \in 1 .. Len(Sizes)
    PROVE  /\ First[f + 1] <= Total =>
                 /\ f + 1 \in 1 .. Len(Sizes) /\ First[f + 1] \in InFile(f + 1)
           /\ First[f + 1] \in Nat \ {0}
<1>1. Len(Sizes) \in Nat /\ f + 1 \in Numbers /\ Len(Sizes) + 1 \in Numbers
  BY BaseAssumption DEF Numbers
<1>2. First[f + 1] \in Nat \ {0} /\ First[Len(Sizes) + 1] \in Nat \ {0}
  BY <1>1, FirstIs
<1>3. CASE f = Len(Sizes)
  BY <1>2, <1>3 DEF Total
<1>4. CASE f # Len(Sizes)
  <2>1. f + 1 \in 1 .. Len(Sizes)
    BY <1>1, <1>4
  <2>2. First[(f + 1) + 1] = First[f + 1] + Sizes[f + 1] /\ Sizes[f + 1] \in Nat \ {0}
    BY <2>1, FirstIs, BaseAssumption
  <2> QED BY <1>2, <2>1, <2>2 DEF InFile
<1> QED BY <1>3, <1>4

(* The run that is being filled is still offered from the block at hand    *)
(* on, and holds the blocks before it in order.                            *)
Filling(f) ==
    /\ cc_begin \in Nat
    /\ \A i \in cur - First[f] .. Sizes[f] - 1 : cc_begin + i \in ccache
    /\ \A s \in First[f] .. cur - 1 : place[s] = cc_begin + (s - First[f])

DefragInv ==
    /\ moving \in BOOLEAN /\ ccache_cursor \in Blk /\ (moving => ~Done)
    /\ ~Done => \E f \in 1 .. Len(Sizes) : cur \in InFile(f)
    /\ \A f \in 1 .. Len(Sizes) : cur \in InFile(f) =>
          (~moving => cur = First[f]) /\ (moving => Filling(f))

LEMMA RoomIs ==
    ASSUME Sound, DefragInv, NEW f \in 1 .. Len(Sizes), cur \in InFile(f)
    PROVE  /\ Defrag!SearchFrom \in Blk
           /\ Defrag!Room # -1 =>
                 Defrag!Room \in Nat /\ \A i \in 0 .. Sizes[f] - 1 : Defrag!Room + i \in ccache
           /\ Defrag!Room = -1 => \A k \in Blk : ~(k .. k + Sizes[f] - 1 \subseteq ccache)
<1>1. NBlk \in Nat \ {0} /\ ccache_cursor \in 1 .. NBlk /\ ccache_cursor \in Nat /\ ccache \subseteq 1 .. NBlk
  BY BaseAssumption DEF DefragInv, Blk, Sound, Free
<1>2. Defrag!sel_count = Sizes[f] /\ Sizes[f] \in Nat \ {0}
  BY FileIs
<1> DEFINE n == Sizes[f]
           here == choice_find_avail(ccache, ccache_cursor, n)
           front == choice_find_avail(ccache, 1, n)
<1>3. \/ here \in ccache_cursor .. NBlk - n + 1 /\ here .. here + n - 1 \subseteq ccache
      \/ here = -1
  BY <1>1, <1>2, FindAvail
<1>4. \/ front \in 1 .. NBlk - n + 1 /\ front .. front + n - 1 \subseteq ccache
      \/ front = -1 /\ \A j \in 1 .. NBlk - n + 1 : ~(j .. j + n - 1 \subseteq ccache)
  BY <1>2, FindAvail
<1>5. Defrag!SearchFrom = IF here = -1 THEN 1 ELSE ccache_cursor
  BY <1>2, DefragSame DEF Defrag!SearchFrom
<1>6. Defrag!Room = IF here = -1 THEN front ELSE here
  BY <1>2, <1>5, DefragSame DEF Defrag!Room
<1> HIDE DEF here, front
<1>7. ASSUME Defrag!Room # -1
      PROVE  Defrag!Room \in Nat /\ \A i \in 0 .. n - 1 : Defrag!Room + i \in ccache
  <2>1. Defrag!Room \in Nat /\ Defrag!Room .. Defrag!Room + n - 1 \subseteq ccache
    BY <1>1, <1>2, <1>3, <1>4, <1>6, <1>7
  <2>2. \A i \in 0 .. n - 1 : Defrag!Room + i \in Defrag!Room .. Defrag!Room + n - 1
    BY <1>2, <2>1
  <2> QED BY <2>1, <2>2
<1>8. ASSUME Defrag!Room = -1, NEW k \in Blk PROVE ~(k .. k + n - 1 \subseteq ccache)
  <2>1. front = -1
    BY <1>6, <1>8
  <2>2. CASE k <= NBlk - n + 1
    BY <1>1, <1>2, <1>4, <2>1, <2>2 DEF Blk
  <2>3. CASE ~(k <= NBlk - n + 1)
    <3>1. k + n - 1 \in k .. k + n - 1 /\ k + n - 1 \notin 1 .. NBlk
      BY <1>1, <1>2, <2>3 DEF Blk
    <3> QED BY <1>1, <3>1
  <2> QED BY <2>2, <2>3
<1>9. Defrag!SearchFrom \in Blk
  BY <1>1, <1>5 DEF Blk
<1> QED BY <1>7, <1>8, <1>9

Frag(p, f) == \E s \in InFile(f) : s + 1 \in InFile(f) /\ p[s + 1] # p[s] + 1

LEMMA FragIs ==
    ASSUME NEW f
    PROVE  (Defrag!is_fragmented(f) <=> Frag(place, f)) /\ (Defrag!is_fragmented(f)' <=> Frag(place', f))
<1>1. Defrag!PosOf(f) = InFile(f)
  BY DefragSame
<1> QED BY <1>1 DEF Defrag!is_fragmented, Frag

(* The tool turns to the file behind f. *)
LEMMA TurnsTo ==
    ASSUME NEW f \in 1 .. Len(Sizes), cur' = First[f + 1], moving' = FALSE, (ccache_cursor \in Blk)'
    PROVE  DefragInv'
<1>1. First[f + 1] \in Nat \ {0} /\ Total \in Nat
  BY NextFile, Positions
<1>2. ~Done' => f + 1 \in 1 .. Len(Sizes) /\ cur' \in InFile(f + 1)
  BY <1>1, NextFile DEF Done
<1>3. ASSUME NEW g \in 1 .. Len(Sizes), cur' \in InFile(g) PROVE cur' = First[g]
  <2>1. cur' \in Sel
    BY <1>3, Positions DEF InFile
  <2>2. ~Done'
    BY <1>1, <2>1 DEF Sel, Done
  <2>3. g = f + 1
    BY <1>2, <1>3, <2>2, Positions DEF InFile
  <2> QED BY <2>3
<1> QED BY <1>2, <1>3 DEF DefragInv

LEMMA DefragMoveIs ==
    ASSUME Sound, DefragInv, NEW f \in 1 .. Len(Sizes), cur \in InFile(f), Defrag!MoveOne
    PROVE  /\ moving /\ Defrag!Target \in ccache /\ Shifts(Defrag!Target) /\ cur' = cur + 1
           /\ DefragInv'
           /\ ~moving' => \A s \in InFile(f) : place'[s] = cc_begin + (s - First[f])
<1>1. /\ Defrag!sel_min = First[f] /\ Defrag!sel_count = Sizes[f] /\ InFile(f) \subseteq Sel
      /\ First[f] \in Nat \ {0} /\ Sizes[f] \in Nat \ {0} /\ First[f + 1] = First[f] + Sizes[f]
  BY FileIs
<1> DEFINE k == cc_begin + (cur - First[f])
           last == cur = First[f] + Sizes[f] - 1
<1>2. /\ moving /\ Relocate(k) /\ cur' = cur + 1 /\ moving' = ~last /\ Defrag!Target = k
      /\ cc_begin' = IF last THEN 0 ELSE cc_begin
      /\ ccache_cursor' = IF last THEN Defrag!Advanced(Sizes[f]) ELSE ccache_cursor
  BY <1>1, DefragSame DEF Defrag!MoveOne, Defrag!Target
<1>3. Filling(f) /\ ccache_cursor \in Blk /\ cur \in Nat \ {0} /\ cur \in Sel
  BY <1>1, <1>2 DEF DefragInv, Sound
<1>4. cur - First[f] \in 0 .. Sizes[f] - 1 /\ k \in ccache /\ k \in Nat
  <2>1. cur \in First[f] .. First[f] + Sizes[f] - 1
    BY <1>1 DEF InFile
  <2>2. cur - First[f] \in 0 .. Sizes[f] - 1 /\ cur - First[f] \in cur - First[f] .. Sizes[f] - 1
    BY <1>1, <1>3, <2>1
  <2>3. cc_begin \in Nat /\ \A i \in cur - First[f] .. Sizes[f] - 1 : cc_begin + i \in ccache
    BY <1>3 DEF Filling
  <2>4. k \in ccache
    BY <2>2, <2>3
  <2> QED BY <2>2, <2>3, <2>4
<1>5. place' = [place EXCEPT ![cur] = k] /\ ccache' = ccache \ {k} /\ place \in [Sel -> Blk]
  BY <1>2 DEF Relocate, Sound
<1>6. \A s \in First[f] .. cur : place'[s] = cc_begin + (s - First[f])
  <2>1. \A s \in First[f] .. cur - 1 : s \in Sel /\ s # cur
    BY <1>1, <1>3 DEF InFile
  <2> QED BY <1>1, <1>3, <1>5, <2>1 DEF Filling
<1>7. Shifts(k)
  BY <1>2, <1>3, <1>4 DEF Shifts
<1>8. CASE last
  <2>1. cur' = First[f + 1]
    BY <1>1, <1>2, <1>3, <1>8
  <2>2. moving' = (~last) /\ last
    BY <1>2, <1>8
  <2>3. moving' = FALSE
    <3> HIDE DEF last
    <3> QED BY <2>2, Zenon
  <2>4. cur' = First[f + 1] /\ moving' = FALSE
    BY <2>1, <2>3
  <2>5. ccache_cursor' \in Blk
    <3>1. ccache_cursor' = Defrag!Advanced(Sizes[f])
      BY <1>2, <1>8
    <3>2. Defrag!Advanced(Sizes[f]) = IF ccache_cursor + Sizes[f] > NBlk THEN 1 ELSE ccache_cursor + Sizes[f]
      BY DefragSame DEF Defrag!Advanced
    <3> QED BY <1>1, <1>3, <3>1, <3>2, BaseAssumption DEF Blk
  <2>6. (ccache_cursor \in Blk)'
    BY <2>5 DEF Blk
  <2>7. DefragInv'
    BY <2>4, <2>6, TurnsTo
  <2>8. InFile(f) = First[f] .. cur
    BY <1>1, <1>8 DEF InFile
  <2> QED BY <1>2, <1>4, <1>6, <1>7, <2>7, <2>8
<1>9. CASE ~last
  <2>1. cur' \in InFile(f)
    <3>1. cur' = cur + 1 /\ cur # First[f] + Sizes[f] - 1
      BY <1>2, <1>9
    <3> QED BY <1>1, <1>3, <3>1 DEF InFile
  <2>2. cc_begin' = cc_begin /\ ccache_cursor' = ccache_cursor
    BY <1>2, <1>9
  <2>3. moving' = (~last) /\ ~last
    BY <1>2, <1>9
  <2>4. moving' = TRUE
    <3> HIDE DEF last
    <3> QED BY <2>3, Zenon
  <2>5. cur' \in InFile(f) /\ moving' = TRUE /\ cc_begin' = cc_begin /\ ccache_cursor' = ccache_cursor
    BY <2>1, <2>2, <2>4
  <2>6. ~Done'
    BY <1>1, <2>5, Positions DEF Done, Sel
  <2>7. Filling(f)'
    <3>1. \A i \in cur' - First[f] .. Sizes[f] - 1 : cc_begin + i \in ccache'
      <4>1. \A i \in cur' - First[f] .. Sizes[f] - 1 :
              i \in cur - First[f] .. Sizes[f] - 1 /\ i # cur - First[f] /\ i \in Int
        <5>1. cur' - First[f] = (cur - First[f]) + 1 /\ cur - First[f] \in Int /\ Sizes[f] \in Int
          <6>1. cur' = cur + 1 /\ cur \in Nat
            BY <1>2, <1>3
          <6> QED BY <1>1, <6>1
        <5> QED BY <5>1
      <4>2. \A i \in Int : i # cur - First[f] => cc_begin + i # k
        <5>1. cc_begin \in Nat /\ cur - First[f] \in Int
          BY <1>1, <1>3 DEF Filling
        <5> QED BY <5>1
      <4> QED BY <1>3, <1>5, <4>1, <4>2 DEF Filling
    <3>2. \A s \in First[f] .. cur' - 1 : place'[s] = cc_begin + (s - First[f])
      BY <1>1, <1>2, <1>3, <1>6
    <3>3. cc_begin \in Nat
      BY <1>3 DEF Filling
    <3> QED BY <2>5, <3>1, <3>2, <3>3 DEF Filling
  <2>8. \A g \in 1 .. Len(Sizes) : cur' \in InFile(g) => g = f
    BY <2>5, Positions DEF InFile
  <2>9. (ccache_cursor \in Blk)'
    BY <1>3, <2>5 DEF Blk
  <2>10. DefragInv'
    BY <2>5, <2>6, <2>7, <2>8, <2>9 DEF DefragInv
  <2> QED BY <1>2, <1>4, <1>7, <2>5, <2>10
<1> QED BY <1>8, <1>9

DefragGivesUp ==
    ~moving /\ cur' > cur /\ Defrag!is_fragmented(Defrag!File(cur)) =>
        \A k \in Blk : ~(k .. k + Defrag!sel_count - 1 \subseteq ccache)

LEMMA DefragStepIs ==
    ASSUME Sound, DefragInv, Defrag!Next
    PROVE  /\ Onward /\ DefragInv' /\ (Stays \/ \E k : Shifts(k))
           /\ NeverWorse /\ DefragGivesUp
<1>1. ~Done
  BY DefragSame DEF Defrag!Next, Defrag!Start, Defrag!Skip, Defrag!MoveOne, DefragInv
<1>2. PICK f \in 1 .. Len(Sizes) : cur \in InFile(f)
  BY <1>1 DEF DefragInv
<1>3. cur \in Sel /\ cur + 1 \in Nat \ {0} /\ cur \in Nat \ {0}
  BY <1>1, AtHand DEF Sound
<1>4. /\ Defrag!File(cur) = f /\ Defrag!sel_min = First[f] /\ Defrag!sel_count = Sizes[f]
      /\ First[f] \in Nat \ {0} /\ Sizes[f] \in Nat \ {0} /\ First[f + 1] = First[f] + Sizes[f]
  BY <1>2, FileIs
<1>5. ASSUME UNCHANGED place, ~moving PROVE NeverWorse
  <2>1. \A g : Defrag!is_fragmented(g)' <=> Defrag!is_fragmented(g)
    BY <1>5, FragIs
  <2> QED BY <1>5, <2>1 DEF NeverWorse
<1>6. CASE Defrag!Start
  <2>1. /\ ~moving /\ Defrag!Room # -1 /\ moving' = TRUE /\ cc_begin' = Defrag!Room
        /\ ccache_cursor' = Defrag!SearchFrom /\ place' = place /\ ccache' = ccache /\ cur' = cur
    BY <1>6 DEF Defrag!Start, Defrag!basevars
  <2>2. cur = First[f]
    BY <1>2, <2>1 DEF DefragInv
  <2>3. Filling(f)'
    <3>1. Defrag!Room \in Nat /\ \A i \in 0 .. Sizes[f] - 1 : Defrag!Room + i \in ccache
      BY <1>2, <2>1, RoomIs
    <3>2. cur - First[f] = 0 /\ First[f] .. cur - 1 = {}
      BY <1>4, <2>2
    <3> QED BY <2>1, <3>1, <3>2 DEF Filling
  <2>4. (ccache_cursor \in Blk)'
    BY <1>2, <2>1, RoomIs DEF Blk
  <2>5. \A g \in 1 .. Len(Sizes) : cur \in InFile(g) => g = f
    BY <1>2, Positions DEF InFile
  <2>6. DefragInv'
    BY <1>1, <1>2, <2>1, <2>3, <2>4, <2>5 DEF DefragInv, Done
  <2>7. DefragGivesUp
    BY <1>3, <2>1 DEF DefragGivesUp
  <2> QED BY <1>3, <1>5, <2>1, <2>6, <2>7 DEF Onward, Stays
<1>7. CASE Defrag!Skip
  <2>1. /\ ~moving /\ cur' = First[f] + Sizes[f] /\ place' = place /\ ccache' = ccache /\ moving' = moving
        /\ Sizes[f] = 1 \/ Defrag!Room = -1 \/ ~Defrag!is_fragmented(f)
        /\ ccache_cursor' = IF Sizes[f] = 1 THEN ccache_cursor ELSE Defrag!SearchFrom
    BY <1>4, <1>7 DEF Defrag!Skip
  <2>2. moving' = FALSE
    BY <2>1 DEF DefragInv
  <2>3. ccache_cursor \in Blk /\ Defrag!SearchFrom \in Blk
    BY <1>2, RoomIs DEF DefragInv
  <2>4. (ccache_cursor \in Blk)'
    BY <2>1, <2>3 DEF Blk
  <2>5. DefragInv'
    BY <1>4, <2>1, <2>2, <2>4, TurnsTo
  <2>6. Sizes[f] = 1 => ~Defrag!is_fragmented(f)
    <3>1. ASSUME Sizes[f] = 1 PROVE ~Frag(place, f)
      BY <1>4, <3>1 DEF Frag, InFile
    <3> QED BY <3>1, FragIs
  <2>7. DefragGivesUp
    <3>1. Defrag!Room = -1 => \A k \in Blk : ~(k .. k + Sizes[f] - 1 \subseteq ccache)
      BY <1>2, RoomIs
    <3> QED BY <1>4, <2>1, <2>6, <3>1 DEF DefragGivesUp
  <2> QED BY <1>4, <1>5, <2>1, <2>5, <2>7 DEF Onward, Stays
<1>8. CASE Defrag!MoveOne
  <2>1. /\ moving /\ Shifts(Defrag!Target) /\ cur' = cur + 1 /\ DefragInv'
        /\ ~moving' => \A s \in InFile(f) : place'[s] = cc_begin + (s - First[f])
    BY <1>2, <1>8, DefragMoveIs
  <2>2. ASSUME NEW g \in 1 .. Len(Sizes), g # f, ~Defrag!is_fragmented(g)
        PROVE  ~Defrag!is_fragmented(g)'
    <3>1. \A s \in InFile(g) : s # cur /\ s \in Sel
      BY <1>2, <2>2, Positions DEF InFile
    <3>2. \A s \in InFile(g) : place'[s] = place[s]
      BY <2>1, <3>1 DEF Shifts, Relocate, Sound
    <3> QED BY <2>2, <3>2, FragIs DEF Frag
  <2>3. ASSUME ~moving' PROVE ~Defrag!is_fragmented(f)'
    <3>1. \A s \in InFile(f) : place'[s] = cc_begin + (s - First[f])
      BY <2>1, <2>3
    <3>2. cc_begin \in Nat
      BY <1>2, <2>1 DEF DefragInv, Filling
    <3>3. ASSUME NEW s \in InFile(f), s + 1 \in InFile(f) PROVE place'[s + 1] = place'[s] + 1
      <4>1. s \in Int
        BY <1>4, <3>3 DEF InFile
      <4>2. place'[s + 1] = cc_begin + ((s + 1) - First[f]) /\ place'[s] = cc_begin + (s - First[f])
        BY <3>1, <3>3
      <4>3. First[f] \in Int /\ cc_begin \in Int
        BY <1>4, <3>2
      <4> QED BY <4>1, <4>2, <4>3
    <3> QED BY <3>3, FragIs DEF Frag
  <2>4. NeverWorse
    BY <1>4, <2>1, <2>2, <2>3, DefragSame DEF NeverWorse
  <2>5. DefragGivesUp
    BY <2>1 DEF DefragGivesUp
  <2> QED BY <1>3, <2>1, <2>4, <2>5 DEF Onward
<1> QED BY <1>6, <1>7, <1>8 DEF Defrag!Next

-----------------------------------------------------------------------------
(* All tools *)

ToolInv ==
    /\ Sound
    /\ tool = "smush" => ccache_cursor \in Nat
    /\ tool = "image" => ImageInv
    /\ tool = "defrag" => DefragInv

LEMMA InitBase == ASSUME BaseInit PROVE Sound
BY DEF BaseInit, choice_alloc, Sound, NoOverlap

LEMMA InitInv == Init => ToolInv
<1> SUFFICES ASSUME Init PROVE ToolInv
  OBVIOUS
<1>1. NBlk \in Nat \ {0} /\ NBlk \in Nat
  BY BaseAssumption
<1>2. CASE tool = "smush" /\ Smush!Init
  BY <1>2, InitBase, SmushSame DEF Smush!Init, ToolInv
<1>3. CASE tool = "thrash" /\ Thrash!Init
  BY <1>3, InitBase, ThrashSame DEF Thrash!Init, ToolInv
<1>4. CASE tool = "scatter" /\ Scatter!Init
  BY <1>4, InitBase, ScatterSame DEF Scatter!Init, ToolInv
<1>5. CASE tool = "defrag" /\ Defrag!Init
  <2>1. Sound /\ cur = 1 /\ ccache_cursor \in Blk /\ moving = FALSE
    BY <1>1, <1>5, InitBase, DefragSame DEF Defrag!Init, BaseInit, Blk
  <2>2. CASE Len(Sizes) = 0
    <3>1. Done
      BY <2>1, <2>2, FirstIs DEF Done, Total
    <3>2. 1 .. Len(Sizes) = {}
      BY <2>2
    <3> QED BY <1>5, <2>1, <3>1, <3>2 DEF ToolInv, DefragInv
  <2>3. CASE Len(Sizes) # 0
    <3>1. 1 \in 1 .. Len(Sizes) /\ Sizes[1] \in Nat \ {0}
      BY <2>3, BaseAssumption
    <3>2. First[1] = 1 /\ First[1 + 1] = First[1] + Sizes[1]
      BY <3>1, FirstIs
    <3>3. 1 \in InFile(1)
      BY <3>1, <3>2 DEF InFile
    <3>4. \A f \in 1 .. Len(Sizes) : 1 \in InFile(f) => f = 1
      BY <3>1, <3>3, Positions DEF InFile
    <3> QED BY <1>5, <2>1, <3>1, <3>2, <3>3, <3>4 DEF ToolInv, DefragInv
  <2> QED BY <2>2, <2>3
<1>6. CASE tool = "image" /\ Image!Init
  <2>1. /\ Sound /\ img \in SUBSET Image!Pixels /\ reloc_cursor = Image!Advance(-1)
        /\ ccache_cursor = 1 /\ cur_choice = 0
    BY <1>6, InitBase, ImageSame DEF Image!Init
  <2>2. Image!Blk = Blk
    BY DEF Image!Blk, Blk
  <2>3. img \subseteq Nat /\ \A p \in img : p < End
    BY <2>1, <2>2, ImageSame, PxFacts DEF Image!Pixels
  <2>4. reloc_cursor \in img \union {End}
    BY <2>1, <2>3, AdvanceIs
  <2>5. \A b \in ccache : ~(b < 1)
    BY <1>1, <2>1 DEF Sound, Free, Blk
  <2> QED BY <1>1, <1>6, <2>1, <2>3, <2>4, <2>5 DEF ToolInv, ImageInv, ImageAt
<1> QED BY <1>2, <1>3, <1>4, <1>5, <1>6 DEF Init, Start

(* What every step of every tool does. *)
Promise ==
    /\ ToolInv' /\ (Map!MapNext \/ UNCHANGED Map!mapVars)
    /\ tool = "smush" => \A s \in Moved : place'[s] < place[s]
    /\ tool = "thrash" => \A s \in Moved : place'[s] > place[s]
    /\ tool = "image" => \A s \in Moved : Px(place[s]) \notin img /\ Px(place'[s]) \in img
    /\ tool = "image" /\ reloc_cursor' # reloc_cursor /\ place' = place =>
          \A b \in ccache : Px(b) # reloc_cursor
    /\ tool = "defrag" => NeverWorse /\ DefragGivesUp

LEMMA MapStep ==
    ASSUME Sound, Onward, Stays \/ \E k : Shifts(k)
    PROVE  Sound' /\ (Map!MapNext \/ UNCHANGED Map!mapVars)
<1>1. CASE Stays
  BY <1>1, StayKeeps
<1>2. ASSUME NEW k, Shifts(k) PROVE Sound' /\ Map!MapNext
  BY <1>2, MoveKeeps DEF Map!MapNext, Shifts
<1> QED BY <1>1, <1>2

LEMMA Frozen == ASSUME ToolInv, UNCHANGED vars PROVE Promise
<1>1. UNCHANGED <<place, ccache, cur, tool, ccache_cursor, moving, cc_begin, img, reloc_cursor, cur_choice>>
  BY DEF vars, basevars, defragvars, imagevars
<1>2. Sound'
  BY <1>1 DEF ToolInv, Sound, Free, Used, NoOverlap
<1>3. tool = "image" => ImageInv'
  BY <1>1 DEF ToolInv, ImageInv, ImageAt, Done
<1>4. tool = "defrag" => DefragInv'
  BY <1>1 DEF ToolInv, DefragInv, Filling, Done, Blk
<1>5. Moved = {} /\ \A f : Defrag!is_fragmented(f)' <=> Defrag!is_fragmented(f)
  BY <1>1, FragIs DEF Moved
<1>6. NeverWorse
  BY <1>1, <1>5 DEF NeverWorse
<1>7. cur \in Nat \ {0} => DefragGivesUp
  BY <1>1 DEF DefragGivesUp
<1>8. UNCHANGED Map!mapVars
  BY <1>1 DEF Map!mapVars, Used
<1> QED BY <1>1, <1>2, <1>3, <1>4, <1>5, <1>6, <1>7, <1>8 DEF Promise, ToolInv, Sound

LEMMA StepKeeps == ASSUME ToolInv, Next PROVE Promise
<1> USE DEF Promise, ToolInv
<1>1. CASE SmushStep
  <2>1. /\ tool = "smush" /\ tool' = tool /\ Onward /\ ccache_cursor' \in Nat
        /\ Stays \/ \E k : Shifts(k) /\ ~(k > place[cur])
    BY <1>1, SmushStepIs DEF SmushStep
  <2>2. Sound' /\ (Map!MapNext \/ UNCHANGED Map!mapVars)
    BY <2>1, MapStep
  <2>3. ASSUME NEW k, Shifts(k), ~(k > place[cur])
        PROVE  \A s \in Moved : place'[s] < place[s]
    <3>1. Moved = {cur} /\ place'[cur] = k /\ k \in Blk /\ place[cur] \in Blk
      BY <2>1, <2>3, MovesOne, MoveKeeps
    <3>2. place'[cur] # place[cur]
      BY <3>1 DEF Moved
    <3> QED BY <2>3, <3>1, <3>2, BaseAssumption DEF Blk
  <2>4. \A s \in Moved : place'[s] < place[s]
    BY <2>1, <2>3, MovesNone
  <2> QED BY <2>1, <2>2, <2>4
<1>2. CASE ThrashStep
  <2>1. /\ tool = "thrash" /\ tool' = tool /\ Onward
        /\ Stays \/ \E k : Shifts(k) /\ ~(place[cur] >= k)
    BY <1>2, ThrashStepIs DEF ThrashStep
  <2>2. Sound' /\ (Map!MapNext \/ UNCHANGED Map!mapVars)
    BY <2>1, MapStep
  <2>3. ASSUME NEW k, Shifts(k), ~(place[cur] >= k)
        PROVE  \A s \in Moved : place'[s] > place[s]
    <3>1. Moved = {cur} /\ place'[cur] = k /\ k \in Blk /\ place[cur] \in Blk
      BY <2>1, <2>3, MovesOne, MoveKeeps
    <3> QED BY <2>3, <3>1, BaseAssumption DEF Blk
  <2>4. \A s \in Moved : place'[s] > place[s]
    BY <2>1, <2>3, MovesNone
  <2> QED BY <2>1, <2>2, <2>4
<1>3. CASE ScatterStep
  <2>1. tool = "scatter" /\ tool' = tool /\ Onward /\ (Stays \/ \E k : Shifts(k))
    BY <1>3, ScatterStepIs DEF ScatterStep
  <2> QED BY <2>1, MapStep
<1>4. CASE DefragStep
  <2>1. /\ tool = "defrag" /\ tool' = tool /\ Onward /\ DefragInv' /\ (Stays \/ \E k : Shifts(k))
        /\ NeverWorse /\ DefragGivesUp
    BY <1>4, DefragStepIs DEF DefragStep
  <2>2. Sound' /\ (Map!MapNext \/ UNCHANGED Map!mapVars)
    BY <2>1, MapStep
  <2> QED BY <2>1, <2>2
<1>5. CASE ImageStep
  <2>1. /\ tool = "image" /\ tool' = tool /\ Onward /\ ImageInv' /\ (ImageMoves \/ Stays)
        /\ reloc_cursor' # reloc_cursor /\ Stays => \A b \in ccache : Px(b) # reloc_cursor
    BY <1>5, ImageStepIs DEF ImageStep
  <2>2. Sound' /\ (Map!MapNext \/ UNCHANGED Map!mapVars)
    BY <2>1, MapStep DEF ImageMoves
  <2>3. ASSUME NEW k, Shifts(k), Px(place[cur]) \notin img, Px(k) \in img
        PROVE  place' # place /\ \A s \in Moved : Px(place[s]) \notin img /\ Px(place'[s]) \in img
    BY <2>3, MovesOne
  <2>4. Stays => Moved = {}
    BY MovesNone
  <2> QED BY <2>1, <2>2, <2>3, <2>4 DEF ImageMoves
<1>6. CASE Finished
  <2>1. UNCHANGED vars
    BY <1>6 DEF Finished
  <2> QED BY <2>1, Frozen
<1> QED BY <1>1, <1>2, <1>3, <1>4, <1>5, <1>6 DEF Next

LEMMA ToolInvariance == Spec => []ToolInv
<1>1. ToolInv /\ [Next]_vars => ToolInv'
  BY StepKeeps, Frozen DEF Promise
<1> QED BY <1>1, InitInv, PTL DEF Spec

(* The relocation tools (tool/*.c), for every device, set of files,        *)
(* placement and limit: the choice cache never offers a block in use,      *)
(* blocks are never shared, and defrag's run stays free while it fills it  *)
(* and its cursor in bounds, which is what the code asserts.               *)
THEOREM ChoicesFree == Spec => []OffersFree
<1>1. ToolInv => OffersFree
  <2> SUFFICES ASSUME ToolInv PROVE OffersFree
    OBVIOUS
  <2>1. ccache \subseteq Free /\ NoOverlap
    BY DEF ToolInv, Sound
  <2>2. ASSUME tool = "defrag", moving PROVE Defrag!Target \in ccache
    <3>1. DefragInv /\ ~Done
      BY <2>2 DEF ToolInv, DefragInv
    <3>2. PICK f \in 1 .. Len(Sizes) : cur \in InFile(f)
      BY <3>1 DEF DefragInv
    <3>3. Filling(f)
      BY <2>2, <3>1, <3>2 DEF DefragInv
    <3>4. /\ Defrag!sel_min = First[f] /\ First[f] \in Nat \ {0} /\ Sizes[f] \in Nat \ {0}
          /\ First[f + 1] = First[f] + Sizes[f]
      BY <3>2, FileIs
    <3>5. cur - First[f] \in cur - First[f] .. Sizes[f] - 1
      BY <3>2, <3>4 DEF InFile
    <3> QED BY <3>3, <3>4, <3>5 DEF Filling, Defrag!Target
  <2>3. tool = "defrag" => ccache_cursor \in choice_min .. choice_max
    BY DEF ToolInv, DefragInv, Blk, choice_min, choice_max
  <2> QED BY <2>1, <2>2, <2>3 DEF OffersFree
<1> QED BY <1>1, ToolInvariance, PTL

(* Each tool moves blocks only where it says: smush (smushtool.c) towards  *)
(* the start, thrashcopy towards the end, the image tool from unmarked to  *)
(* marked pixels, and defrag takes no file apart and leaves what it moved  *)
(* in one piece.                                                           *)
THEOREM DirectionsKept == Spec => MovesAsTold
<1>1. ToolInv /\ [Next]_vars =>
        [/\ tool = "smush" => \A s \in Moved : place'[s] < place[s]
         /\ tool = "thrash" => \A s \in Moved : place'[s] > place[s]
         /\ tool = "image" => \A s \in Moved : /\ Image!byte_to_imgidx(place[s]) \notin img
                                               /\ Image!byte_to_imgidx(place'[s]) \in img
         /\ tool = "defrag" => NeverWorse]_vars
  <2> SUFFICES ASSUME ToolInv, Next
               PROVE  /\ tool = "smush" => \A s \in Moved : place'[s] < place[s]
                      /\ tool = "thrash" => \A s \in Moved : place'[s] > place[s]
                      /\ tool = "image" => \A s \in Moved : /\ Image!byte_to_imgidx(place[s]) \notin img
                                                            /\ Image!byte_to_imgidx(place'[s]) \in img
                      /\ tool = "defrag" => NeverWorse
    OBVIOUS
  <2> QED BY StepKeeps, ImageSame DEF Promise
<1> QED BY <1>1, ToolInvariance, PTL DEF Spec, MovesAsTold

(* The image tool (relocate.c) passes over a pixel only when the choice    *)
(* cache has no block of it; defrag (defragtool.c) leaves a file in pieces *)
(* only when no run of choices is long enough.                             *)
THEOREM NothingGivenUp == Spec => GivesUpOnlyFull
<1>1. ToolInv /\ [Next]_vars =>
        [/\ tool = "image" /\ reloc_cursor' # reloc_cursor /\ place' = place =>
               \A b \in ccache : Image!byte_to_imgidx(b) # reloc_cursor
         /\ tool = "defrag" /\ ~moving /\ cur' > cur /\ Defrag!is_fragmented(Defrag!File(cur)) =>
               \A k \in Blk : ~(k .. k + Defrag!sel_count - 1 \subseteq ccache)]_vars
  <2> SUFFICES ASSUME ToolInv, Next
               PROVE  /\ tool = "image" /\ reloc_cursor' # reloc_cursor /\ place' = place =>
                            \A b \in ccache : Image!byte_to_imgidx(b) # reloc_cursor
                      /\ tool = "defrag" => DefragGivesUp
    BY DEF DefragGivesUp
  <2> QED BY StepKeeps, ImageSame DEF Promise
<1> QED BY <1>1, ToolInvariance, PTL DEF Spec, GivesUpOnlyFull

(* Every step of every tool is a Move of BlockMap or leaves it alone: one  *)
(* position at a time, to a block nobody uses (wpkt_relocate, seen whole). *)
THEOREM ToolsMove == Spec => StepsAreMoves
<1>1. Init => Map!MapInit
  <2> SUFFICES ASSUME Init PROVE Map!MapInit
    OBVIOUS
  <2>1. BaseInit
    BY SmushSame, ThrashSame, ScatterSame, DefragSame, ImageSame
       DEF Init, Smush!Init, Thrash!Init, Scatter!Init, Defrag!Init, Image!Init
  <2>2. /\ place \in [Sel -> Blk \ Others] /\ \A s, t \in Sel : s # t => place[s] # place[t]
    BY <2>1 DEF BaseInit
  <2> QED BY <2>2 DEF Map!MapInit, Map!Referred, Used
<1>2. ToolInv /\ [Next]_vars => [Map!MapNext]_(Map!mapVars)
  <2>1. ASSUME ToolInv, Next PROVE Map!MapNext \/ UNCHANGED Map!mapVars
    BY <2>1, StepKeeps DEF Promise
  <2>2. ASSUME UNCHANGED vars PROVE UNCHANGED Map!mapVars
    BY <2>2 DEF vars, basevars, Map!mapVars, Used
  <2> QED BY <2>1, <2>2
<1> QED BY <1>1, <1>2, ToolInvariance, PTL DEF Spec, StepsAreMoves, Map!MapSpec
=============================================================================
