---------------------------- MODULE KernelProofs ----------------------------
(***************************************************************************)
(* Proofs about the kernel module for every set of threads and every size  *)
(* of the cache, the lines and the device.                                 *)
(*                                                                         *)
(* The cache has no lock.  What the proof has to follow is how old the     *)
(* bytes in a slot can be: they are what the device holds, or what a write *)
(* whose drop is still to come has replaced; and a reader that is busy     *)
(* knows both kinds of values.  A line is copied and a write stored byte   *)
(* by byte, so this is said of the bytes copied so far and replaced so     *)
(* far, and only of sound blocks: a block that was marked up to date       *)
(* without being read holds anything.                                      *)
(***************************************************************************)
EXTENDS Kernel, TLAPS

Lines == {l \in Addr : (l + 1) * LineBytes <= NBytes}
Bytes(th) == th.off .. th.off + th.n - 1

FirstLine(th) == byte_to_line(th.off)
LastLine(th)  == byte_to_line(th.off + th.n - 1)

(* The lines a busy thread still has to get; the one it fills is among     *)
(* them.  It has a byte when it has the line, or has copied the byte.      *)
Pending(th) == {th.lines[i] : i \in 1 .. Len(th.lines)}
Has(th, a) ==
    \/ byte_to_line(a) \notin Pending(th)
    \/ Missing(th) /\ byte_to_line(a) = Head(th.lines) /\ a % LineBytes \notin th.left

-----------------------------------------------------------------------------
(* The inductive invariant: shapes first. *)

Fields(th, S) == DOMAIN th = S

BusyFields == {"pc", "off", "n", "then", "lines", "all", "left", "met", "seen"}
BusyShape(th) ==
    /\ Fields(th, BusyFields)
    /\ th.pc \in {"probe", "fill", "copy", "join"} /\ th.met \in BOOLEAN
    /\ th.off \in Addr /\ th.n \in 1 .. LineBytes + 1 /\ th.off + th.n <= NBytes
    /\ th.then = "bit" => th.n = 1
    /\ DOMAIN th.seen = Bytes(th)
    /\ th.all = {FirstLine(th), LastLine(th)}
    /\ th.left \subseteq Off
    /\ th.pc = "join" => th.lines = <<>>
    /\ th.pc # "join" => \/ th.lines = <<FirstLine(th), LastLine(th)>> /\ FirstLine(th) # LastLine(th)
                         \/ th.lines = <<LastLine(th)>>

WriteShape(th) ==
    /\ th.off \in Addr /\ th.n \in Nat \ {0} /\ th.off + th.n <= NBytes /\ th.again \in BOOLEAN
    /\ DOMAIN th.old = Bytes(th)
    /\ th.pc = "store" => /\ Fields(th, {"pc", "off", "n", "left", "buf", "old", "again"})
                          /\ th.left \subseteq Bytes(th) /\ th.buf \in [Bytes(th) -> Byte]
    /\ th.pc = "drop" => Fields(th, {"pc", "off", "n", "old", "again"})

ThreadOK(th) ==
    /\ th.pc \in {"idle", "probe", "fill", "copy", "join", "rmw", "store", "drop", "dead"}
    /\ th.pc = "idle" => th = Idle
    /\ th.pc \in {"probe", "fill", "copy", "join"} => BusyShape(th)
    /\ th.pc \in {"store", "drop"} => WriteShape(th)
    /\ th.pc = "rmw" => th.off \in Addr /\ th.byte \in Byte

ThreadShape == \A t \in Threads : ThreadOK(thr[t]) /\ (t \notin crew => thr[t] = Idle)

TypeOK ==
    /\ view \in [Addr -> Byte]
    /\ DOMAIN ents = Slots
    /\ \A s \in Slots :
          /\ Fields(ents[s], {"addr", "data"})
          /\ ents[s].addr \in Lines \union {NoLine} /\ ents[s].data \in [Off -> Byte]
    /\ DOMAIN thr = Threads /\ crew \in SUBSET Threads

(* One thread at most fills a slot that is not spoilt, with the line the   *)
(* slot is said to hold, unless it was dropped meanwhile.                  *)
OneFiller(s) ==
    \A t \in Filling(s) :
        ents[s].addr \in {NoLine, Head(thr[t].lines)} /\ \A u \in Filling(s) : u = t

(* How old the bytes in a slot can be that nobody has still to copy.       *)
AgeOK(v, a) == v = view[a] \/ \E u \in Writing : a \in Bytes(thr[u]) /\ v \in thr[u].old[a]
Ages(s) ==
    ents[s].addr # NoLine =>
        \A o \in Off :
            Sound(ents[s].addr * LineBytes + o) /\ (\A t \in Filling(s) : o \notin thr[t].left)
            => AgeOK(ents[s].data[o], ents[s].addr * LineBytes + o)

SlotOK(s) == OneFiller(s) /\ Ages(s)

(* What a busy thread knows: every value of this age. *)
Informed(t) == \A a \in Bytes(thr[t]) : Sound(a) => \A v : AgeOK(v, a) => v \in thr[t].seen[a]

(* While it met no other miss, nobody else fills a slot it has used or     *)
(* fills, and the bytes it has are bytes it knows.                         *)
Holds(t, l) == l \notin Pending(thr[t]) \/ (Missing(thr[t]) /\ l = Head(thr[t].lines))
Alone(t) == \A l \in thr[t].all : Holds(t, l) => Filling(Slot(l)) \subseteq {t}
Knows(t) ==
    \A a \in Bytes(thr[t]) : Sound(a) /\ Has(thr[t], a) =>
        ents[Slot(byte_to_line(a))].data[a % LineBytes] \in thr[t].seen[a]

Reader(t) == Busy(t) => Informed(t) /\ (~thr[t].met => Alone(t) /\ Knows(t))

IoInv ==
    /\ TypeOK /\ ThreadShape
    /\ \A s \in Slots \ spoilt : SlotOK(s)
    /\ \A t \in crew : Reader(t)

(* A thread alone in the layer sees the device as it is. *)
SoloInv ==
    Solo => \A t \in crew :
        /\ thr[t].pc # "dead" => spoilt = {}
        /\ Busy(t) => ~thr[t].met /\ \A a \in Bytes(thr[t]) : thr[t].seen[a] = {view[a]}

-----------------------------------------------------------------------------
(* Lines and slots. *)

LEMMA Consts ==
    /\ LineBytes \in Nat \ {0} /\ Ents \in Nat \ {0, 1} /\ NBytes \in Nat \ {0}
    /\ Accesses \subseteq Addr \X (1 .. LineBytes + 1) /\ NBytes % LineBytes = 0
BY KernelAssumption

LEMMA LineFacts ==
    ASSUME NEW b \in Nat
    PROVE  /\ byte_to_line(b) \in Nat
           /\ b = byte_to_line(b) * LineBytes + (b % LineBytes)
           /\ b % LineBytes \in Off
BY Consts DEF byte_to_line, Off

LEMMA LineUnique ==
    ASSUME NEW q \in Nat, NEW r \in Off
    PROVE  /\ q * LineBytes + r \in Nat /\ byte_to_line(q * LineBytes + r) = q
           /\ (q * LineBytes + r) % LineBytes = r
BY Consts DEF byte_to_line, Off

LEMMA LineMonotone ==
    ASSUME NEW a \in Nat, NEW b \in Nat, a <= b
    PROVE  byte_to_line(a) <= byte_to_line(b)
BY Consts DEF byte_to_line

LEMMA SlotType == ASSUME NEW l \in Nat PROVE Slot(l) \in Slots
BY Consts DEF Slot, Slots

(* The device ends with a line, so every byte of it is in one. *)
LEMMA LineOfByte ==
    ASSUME NEW a \in Addr
    PROVE  byte_to_line(a) \in Lines /\ a \in Nat
<1> DEFINE q == byte_to_line(a)  k == NBytes \div LineBytes
<1>1. a \in Nat /\ a < NBytes
  BY Consts DEF Addr
<1>2. q \in Nat /\ q * LineBytes <= a
  <2>1. q \in Nat /\ a = q * LineBytes + (a % LineBytes) /\ a % LineBytes \in Off
    BY <1>1, LineFacts
  <2>2. q * LineBytes \in Nat /\ a % LineBytes \in Nat
    BY <2>1, Consts DEF Off
  <2> HIDE DEF q
  <2> QED BY <2>1, <2>2
<1>3. k \in Nat /\ NBytes = k * LineBytes
  BY Consts
<1> HIDE DEF q, k
<1>4. q < k
  <2> SUFFICES ASSUME q >= k PROVE FALSE
    BY <1>2, <1>3
  <2>1. q * LineBytes >= k * LineBytes
    BY <1>2, <1>3, Consts
  <2> QED BY <1>1, <1>2, <1>3, <2>1, Consts
<1>5. (q + 1) * LineBytes <= NBytes
  <2>1. q + 1 \in Nat /\ q + 1 <= k
    BY <1>2, <1>3, <1>4
  <2>2. \A i \in Nat : i <= k => i * LineBytes <= k * LineBytes
    BY <1>3, Consts
  <2> QED BY <1>3, <2>1, <2>2
<1>6. q + 1 <= (q + 1) * LineBytes
  BY <1>2, Consts
<1>7. q \in Addr
  BY <1>2, <1>5, <1>6, Consts DEF Addr
<1> QED BY <1>1, <1>5, <1>7 DEF Lines, q

LEMMA ByteOfLine ==
    ASSUME NEW l \in Lines, NEW o \in Off
    PROVE  /\ l \in Nat /\ l * LineBytes + o \in Addr
           /\ byte_to_line(l * LineBytes + o) = l /\ (l * LineBytes + o) % LineBytes = o
<1>1. l \in Nat /\ (l + 1) * LineBytes <= NBytes
  BY Consts DEF Lines, Addr
<1>2. (l + 1) * LineBytes = l * LineBytes + LineBytes /\ l * LineBytes \in Nat
  BY <1>1, Consts
<1>3. o \in 0 .. LineBytes - 1
  BY DEF Off
<1> QED BY <1>1, <1>2, <1>3, LineUnique, Consts DEF Addr

(* Neighbouring lines use different slots. *)
LEMMA NeighbourSlots == ASSUME NEW l \in Nat PROVE Slot(l) # Slot(l + 1)
<1> SUFFICES ASSUME l % Ents = (l + 1) % Ents PROVE FALSE
  BY DEF Slot
<1> DEFINE p == l \div Ents  q == (l + 1) \div Ents
<1>1. p \in Nat /\ q \in Nat /\ l % Ents \in Nat
  BY Consts
<1>2. l = p * Ents + (l % Ents) /\ l + 1 = q * Ents + ((l + 1) % Ents)
  BY Consts
<1> HIDE DEF p, q
<1>3. q * Ents = p * Ents + 1
  BY <1>1, <1>2, Consts
<1>4. CASE q <= p
  <2>1. q * Ents <= p * Ents
    BY <1>1, <1>4, Consts
  <2> QED BY <1>1, <1>3, <2>1, Consts
<1>5. CASE q >= p + 1
  <2>1. q * Ents >= (p + 1) * Ents /\ (p + 1) * Ents = p * Ents + Ents
    BY <1>1, <1>5, Consts
  <2> QED BY <1>1, <1>3, <2>1, Consts
<1> QED BY <1>1, <1>4, <1>5

(* An access of at most a line and a byte lies in one line or in two       *)
(* neighbours, which do not meet in a slot.                                *)
LEMMA AccessLines ==
    ASSUME NEW off \in Addr, NEW n \in 1 .. LineBytes + 1, off + n <= NBytes
    PROVE  LET f == byte_to_line(off)
               e == byte_to_line(off + n - 1)
           IN  /\ f \in Lines /\ e \in Lines /\ e \in {f, f + 1}
               /\ f # e => Slot(f) # Slot(e)
               /\ \A a \in off .. off + n - 1 : a \in Addr /\ byte_to_line(a) \in {f, e}
<1> DEFINE f == byte_to_line(off)  e == byte_to_line(off + n - 1)
<1>1. off \in Nat /\ n \in Nat /\ n >= 1 /\ n <= LineBytes + 1 /\ off + n - 1 \in Addr /\ off + n - 1 \in Nat
  BY Consts DEF Addr
<1>2. f \in Lines /\ e \in Lines /\ f \in Nat /\ e \in Nat
  BY <1>1, LineOfByte DEF Lines, Addr
<1>3. f <= e /\ \A a \in off .. off + n - 1 : a \in Addr /\ a \in Nat /\ f <= byte_to_line(a) /\ byte_to_line(a) <= e
  BY <1>1, LineMonotone, Consts DEF Addr
<1>4. e <= f + 1
  <2>1. off = f * LineBytes + (off % LineBytes) /\ off % LineBytes \in Off
    BY <1>1, LineFacts
  <2>2. off + n - 1 <= (f + 1) * LineBytes + (LineBytes - 1)
    BY <1>1, <1>2, <2>1, Consts DEF Off
  <2>3. LineBytes - 1 \in Off /\ f + 1 \in Nat
    BY <1>2, Consts DEF Off
  <2>4. (f + 1) * LineBytes + (LineBytes - 1) \in Nat
        /\ byte_to_line((f + 1) * LineBytes + (LineBytes - 1)) = f + 1
    BY <2>3, LineUnique
  <2> QED BY <1>1, <2>2, <2>4, LineMonotone
<1>5. \A a \in off .. off + n - 1 : byte_to_line(a) \in Nat
  BY <1>3, LineFacts
<1>6. e \in {f, f + 1} /\ \A a \in off .. off + n - 1 : byte_to_line(a) \in {f, e}
  BY <1>2, <1>3, <1>4, <1>5
<1> QED BY <1>2, <1>3, <1>6, NeighbourSlots

-----------------------------------------------------------------------------
(* Threads. *)

LEMMA BusyLines ==
    ASSUME NEW th, BusyShape(th)
    PROVE  /\ FirstLine(th) \in Lines /\ LastLine(th) \in Lines
           /\ \A a \in Bytes(th) : a \in Addr /\ a \in Nat /\ byte_to_line(a) \in th.all
           /\ \A k, l \in th.all : k \in Lines /\ k \in Nat /\ Slot(k) \in Slots
                                /\ (k # l => Slot(k) # Slot(l))
           /\ Pending(th) \subseteq th.all
           /\ th.pc = "join" => Pending(th) = {}
           /\ th.pc # "join" => Head(th.lines) \in Pending(th)
<1> DEFINE f == byte_to_line(th.off)  e == byte_to_line(th.off + th.n - 1)
<1>1. th.off \in Addr /\ th.n \in 1 .. LineBytes + 1 /\ th.off + th.n <= NBytes /\ th.all = {f, e}
  BY DEF BusyShape, FirstLine, LastLine
<1>2. /\ f \in Lines /\ e \in Lines /\ (f # e => Slot(f) # Slot(e))
      /\ \A a \in Bytes(th) : a \in Addr /\ byte_to_line(a) \in {f, e}
  BY <1>1, AccessLines DEF Bytes
<1>3. \A k \in {f, e} : k \in Lines /\ k \in Nat /\ Slot(k) \in Slots
  BY <1>2, SlotType, Consts DEF Lines, Addr
<1>4. \A a \in Bytes(th) : a \in Nat
  BY <1>2, LineOfByte
<1>5. /\ Pending(th) \subseteq {f, e} /\ (th.pc = "join" => Pending(th) = {})
      /\ (th.pc # "join" => Head(th.lines) \in Pending(th))
  <2>1. CASE th.lines = <<>>
    BY <2>1 DEF Pending, BusyShape
  <2>2. CASE th.lines = <<f, e>>
    BY <2>2 DEF Pending, BusyShape
  <2>3. CASE th.lines = <<e>>
    BY <2>3 DEF Pending, BusyShape
  <2> QED BY <2>1, <2>2, <2>3 DEF BusyShape, FirstLine, LastLine
<1> QED BY <1>1, <1>2, <1>3, <1>4, <1>5 DEF FirstLine, LastLine

(* Getting a line. *)
LEMMA GotShape ==
    ASSUME NEW th, BusyShape(th), th.pc # "join"
    PROVE  /\ BusyShape(Got(th)) /\ ~Missing(Got(th)) /\ Got(th).pc \in {"probe", "join"}
           /\ Got(th).all = th.all /\ Got(th).met = th.met /\ Got(th).seen = th.seen
           /\ Bytes(Got(th)) = Bytes(th)
           /\ Pending(Got(th)) = Pending(th) \ {Head(th.lines)}
<1> DEFINE f == FirstLine(th)  e == LastLine(th)  g == Got(th)
<1>1. /\ Fields(g, BusyFields) /\ g.left = {}
      /\ g.off = th.off /\ g.n = th.n /\ g.then = th.then /\ g.all = th.all /\ g.met = th.met
      /\ g.seen = th.seen /\ g.lines = Tail(th.lines)
      /\ g.pc = IF Len(th.lines) = 1 THEN "join" ELSE "probe"
  BY DEF Got, BusyShape, Fields, BusyFields
<1>2. Bytes(g) = Bytes(th) /\ FirstLine(g) = f /\ LastLine(g) = e
  BY <1>1 DEF Bytes, FirstLine, LastLine
<1> HIDE DEF g, f, e
<1>3. CASE th.lines = <<f, e>> /\ f # e
  <2>1. Len(th.lines) = 2 /\ Tail(th.lines) = <<e>> /\ Head(th.lines) = f /\ Pending(th) = {f, e}
    BY <1>3 DEF Pending
  <2>2. g.pc = "probe" /\ g.lines = <<e>>
    BY <1>1, <2>1
  <2>3. Pending(g) = {e}
    BY <2>2 DEF Pending
  <2>4. BusyShape(g)
    BY <1>1, <1>2, <2>2 DEF BusyShape, f, e
  <2>5. Pending(g) = Pending(th) \ {Head(th.lines)}
    BY <1>3, <2>1, <2>3
  <2> QED BY <1>1, <1>2, <2>2, <2>4, <2>5 DEF g, Missing
<1>4. CASE th.lines = <<e>>
  <2>1. Len(th.lines) = 1 /\ Tail(th.lines) = <<>> /\ Head(th.lines) = e /\ Pending(th) = {e}
    BY <1>4 DEF Pending
  <2>2. Pending(g) = {}
    BY <1>1, <2>1 DEF Pending
  <2>3. g.pc = "join" /\ g.lines = <<>>
    BY <1>1, <2>1
  <2>4. BusyShape(g)
    BY <1>1, <1>2, <2>3 DEF BusyShape, f, e
  <2> QED BY <1>1, <1>2, <2>1, <2>2, <2>3, <2>4 DEF g, Missing
<1> QED BY <1>3, <1>4 DEF BusyShape, f, e

(* What a step may do to a thread's ghosts and shape.                      *)
LEMMA FillingKept ==
    ASSUME crew' = crew,
           \A u \in crew : /\ Missing(thr'[u]) <=> Missing(thr[u])
                           /\ Missing(thr[u]) => thr'[u].lines = thr[u].lines
    PROVE  \A s \in Slots : Filling(s)' = Filling(s)
<1> SUFFICES ASSUME NEW s \in Slots PROVE Filling(s)' = Filling(s)
  OBVIOUS
<1> QED BY DEF Filling

LEMMA FillingFacts ==
    ASSUME IoInv, NEW s \in Slots, NEW u \in Filling(s)
    PROVE  /\ u \in crew /\ u \in Threads /\ Missing(thr[u]) /\ Busy(u) /\ BusyShape(thr[u])
           /\ Slot(Head(thr[u].lines)) = s
BY DEF IoInv, TypeOK, ThreadShape, ThreadOK, Filling, Busy, Missing

LEMMA BusyFacts ==
    ASSUME IoInv, NEW u \in crew, Busy(u)
    PROVE  /\ u \in Threads /\ BusyShape(thr[u]) /\ Informed(u)
           /\ ~thr[u].met => Alone(u) /\ Knows(u)
BY DEF IoInv, TypeOK, ThreadShape, ThreadOK, Busy, Reader

LEMMA WritingFacts ==
    ASSUME IoInv, NEW u \in Writing
    PROVE  u \in crew /\ u \in Threads /\ WriteShape(thr[u]) /\ ~Busy(u)
BY DEF IoInv, TypeOK, ThreadShape, ThreadOK, Writing, Busy

(* The ages of the model's properties are those of the proof.              *)
LEMMA SinceIsAge ==
    ASSUME IoInv, NEW a, NEW v
    PROVE  v \in Since(a) <=> AgeOK(v, a)
<1>1. \A u \in Writing : DOMAIN thr[u].old = Bytes(thr[u])
  BY WritingFacts DEF WriteShape
<1> QED BY <1>1 DEF Since, AgeOK

(* A step that neither changes the device nor replaces a byte.             *)
LEMMA AgeSame ==
    ASSUME view' = view,
           \A d \in Writing : /\ d \in Writing' /\ thr'[d].old = thr[d].old
                              /\ Bytes(thr'[d]) = Bytes(thr[d]),
           \A d \in Writing' : d \notin Writing => \A a \in Bytes(thr'[d]) : thr'[d].old[a] = {}
    PROVE  \A v, a : AgeOK(v, a)' <=> AgeOK(v, a)
<1> SUFFICES ASSUME NEW v, NEW a PROVE AgeOK(v, a)' <=> AgeOK(v, a)
  OBVIOUS
<1>1. ASSUME AgeOK(v, a) PROVE AgeOK(v, a)'
  <2>1. CASE v = view[a]
    BY <2>1 DEF AgeOK
  <2>2. CASE v # view[a]
    <3>1. PICK d \in Writing : a \in Bytes(thr[d]) /\ v \in thr[d].old[a]
      BY <1>1, <2>2 DEF AgeOK
    <3>2. d \in Writing' /\ a \in Bytes(thr'[d]) /\ v \in thr'[d].old[a]
      BY <3>1
    <3> QED BY <3>2 DEF AgeOK
  <2> QED BY <2>1, <2>2
<1>2. ASSUME AgeOK(v, a)' PROVE AgeOK(v, a)
  <2>1. CASE v = view[a]
    BY <2>1 DEF AgeOK
  <2>2. CASE v # view[a]
    <3>1. PICK d \in Writing' : a \in Bytes(thr'[d]) /\ v \in thr'[d].old[a]
      BY <1>2, <2>2 DEF AgeOK
    <3>2. d \in Writing
      BY <3>1
    <3> QED BY <3>1, <3>2 DEF AgeOK
  <2> QED BY <2>1, <2>2
<1> QED BY <1>1, <1>2

(* A busy thread another one's step does not touch: the step makes no      *)
(* byte of a sound block older, starts no miss, and changes no bytes but   *)
(* in a slot the thread has no part in.                                    *)
LEMMA ReaderKept ==
    ASSUME IoInv, NEW u \in crew, thr'[u] = thr[u], crew' = crew, mangled \subseteq mangled',
           \A a \in Addr : Sound(a)' => \A v : AgeOK(v, a)' => AgeOK(v, a),
           \A s \in Slots : Filling(s)' \subseteq Filling(s),
           \A s \in Slots : ents'[s].data = ents[s].data \/ ~(Filling(s) \subseteq {u})
    PROVE  Reader(u)'
<1> SUFFICES ASSUME Busy(u) PROVE Informed(u)' /\ (~thr[u].met => Alone(u)' /\ Knows(u)')
  BY DEF Reader, Busy
<1>1. BusyShape(thr[u]) /\ Informed(u) /\ (~thr[u].met => Alone(u) /\ Knows(u))
  BY BusyFacts
<1>2. \A a : Sound(a)' => Sound(a)
  BY DEF Sound
<1>3. /\ \A l \in thr[u].all : Slot(l) \in Slots
      /\ \A a \in Bytes(thr[u]) : a \in Addr /\ byte_to_line(a) \in thr[u].all
  BY <1>1, BusyLines
<1>4. Informed(u)'
  BY <1>1, <1>2, <1>3 DEF Informed
<1>5. ASSUME ~thr[u].met PROVE Alone(u)'
  BY <1>1, <1>3, <1>5 DEF Alone, Holds
<1>6. ASSUME ~thr[u].met PROVE Knows(u)'
  <2> SUFFICES ASSUME NEW a \in Bytes(thr[u]), Sound(a)', Has(thr[u], a)
               PROVE  ents'[Slot(byte_to_line(a))].data[a % LineBytes] \in thr[u].seen[a]
    BY DEF Knows
  <2>1. byte_to_line(a) \in thr[u].all
    BY <1>3
  <2>2. Holds(u, byte_to_line(a))
    BY DEF Has, Holds
  <2>3. Filling(Slot(byte_to_line(a))) \subseteq {u}
    BY <1>1, <1>6, <2>1, <2>2 DEF Alone
  <2> QED BY <1>1, <1>2, <1>3, <1>6, <2>1, <2>3 DEF Knows
<1> QED BY <1>4, <1>5, <1>6

(* A slot a step does not touch.                                           *)
LEMMA SlotKept ==
    ASSUME IoInv, NEW s \in Slots, SlotOK(s), ents'[s] = ents[s], mangled \subseteq mangled',
           \A a \in Addr : Sound(a)' => \A v : AgeOK(v, a) => AgeOK(v, a)',
           Filling(s)' = Filling(s),
           \A u \in Filling(s) : thr'[u].lines = thr[u].lines /\ thr'[u].left = thr[u].left
    PROVE  SlotOK(s)'
<1>1. OneFiller(s)'
  BY DEF SlotOK, OneFiller
<1>2. Ages(s)'
  <2> SUFFICES ASSUME ents[s].addr # NoLine, NEW o \in Off,
                      Sound(ents[s].addr * LineBytes + o)', \A u \in Filling(s) : o \notin thr[u].left
               PROVE  AgeOK(ents[s].data[o], ents[s].addr * LineBytes + o)'
    BY DEF Ages
  <2> DEFINE a == ents[s].addr * LineBytes + o  v == ents[s].data[o]
  <2>1. a \in Addr
    BY ByteOfLine DEF IoInv, TypeOK
  <2>2. Sound(a)' /\ Sound(a)
    BY DEF Sound
  <2>3. AgeOK(v, a)
    BY <2>2 DEF SlotOK, Ages
  <2>4. \A aa, vv : aa = a /\ vv = v => AgeOK(vv, aa)'
    BY <2>1, <2>2, <2>3
  <2>5. ents'[s].addr * LineBytes + o = a /\ ents'[s].data[o] = v
    OBVIOUS
  <2> QED BY <2>4, <2>5
<1> QED BY <1>1, <1>2 DEF SlotOK

(* A step of one thread that changes no slot, starts no miss, and leaves   *)
(* no slot half filled that is not spoilt.                                 *)
LEMMA OneMoves ==
    ASSUME IoInv, NEW t \in crew, NEW th, ThreadOK(th), thr' = [thr EXCEPT ![t] = th],
           ents' = ents, crew' = crew, mangled \subseteq mangled', view' \in [Addr -> Byte],
           spoilt \subseteq spoilt',
           \A a \in Addr : Sound(a)' => \A v : AgeOK(v, a)' <=> AgeOK(v, a),
           Missing(th) => Missing(thr[t]) /\ th.lines = thr[t].lines /\ th.left = thr[t].left,
           Missing(thr[t]) /\ ~Missing(th) => Slot(Head(thr[t].lines)) \in spoilt',
           Reader(t)'
    PROVE  IoInv'
<1>0. t \in Threads /\ DOMAIN thr = Threads /\ crew \subseteq Threads
  BY DEF IoInv, TypeOK
<1>1. DOMAIN thr' = Threads /\ thr'[t] = th /\ \A u \in Threads : u # t => thr'[u] = thr[u]
  BY <1>0
<1>2. TypeOK' /\ ThreadShape'
  BY <1>0, <1>1 DEF IoInv, TypeOK, ThreadShape
<1>3. ASSUME NEW x \in Slots
      PROVE  /\ Filling(x)' \subseteq Filling(x)
             /\ x \notin spoilt' => Filling(x)' = Filling(x)
             /\ \A u \in Filling(x)' : thr'[u].lines = thr[u].lines /\ thr'[u].left = thr[u].left
  <2>1. \A u \in crew : u # t => (u \in Filling(x)' <=> u \in Filling(x))
    BY <1>0, <1>1 DEF Filling
  <2>2. t \in Filling(x)' => t \in Filling(x)
    BY <1>0, <1>1 DEF Filling
  <2>3. x \notin spoilt' /\ t \in Filling(x) => t \in Filling(x)'
    BY <1>0, <1>1 DEF Filling
  <2>4. Filling(x) \subseteq crew /\ Filling(x)' \subseteq crew
    BY DEF Filling
  <2>5. \A u \in Filling(x)' : thr'[u].lines = thr[u].lines /\ thr'[u].left = thr[u].left
    BY <1>0, <1>1 DEF Filling
  <2>6. Filling(x)' \subseteq Filling(x)
    BY <2>1, <2>2, <2>4
  <2>7. x \notin spoilt' => Filling(x) \subseteq Filling(x)'
    BY <2>1, <2>3, <2>4
  <2> QED BY <2>5, <2>6, <2>7
<1>4. ASSUME NEW x \in Slots \ spoilt' PROVE SlotOK(x)'
  <2>1. SlotOK(x) /\ Filling(x)' = Filling(x)
    BY <1>3, <1>4 DEF IoInv
  <2>2. \A u \in Filling(x) : thr'[u].lines = thr[u].lines /\ thr'[u].left = thr[u].left
    BY <1>3, <2>1
  <2> QED BY <2>1, <2>2, SlotKept
<1>5. ASSUME NEW u \in crew, u # t PROVE Reader(u)'
  BY <1>0, <1>1, <1>3, <1>5, ReaderKept
<1> QED BY <1>2, <1>4, <1>5 DEF IoInv

(* A busy thread's own step, on the line it is at.  A byte it has then is  *)
(* one it had, or of an age it knows.                                      *)
LEMMA OwnStep ==
    ASSUME IoInv, NEW t \in crew, Busy(t), mangled' = mangled,
           NEW l \in thr[t].all, NEW s, s = Slot(l),
           Bytes(thr'[t]) = Bytes(thr[t]), thr'[t].all = thr[t].all, thr'[t].seen = thr[t].seen,
           thr[t].met => thr'[t].met,
           \A v, a : AgeOK(v, a)' => AgeOK(v, a),
           \A x \in Slots : x # s => ents'[x].data = ents[x].data /\ Filling(x)' \subseteq Filling(x),
           \A k \in thr[t].all : k # l /\ Holds(t, k)' => Holds(t, k),
           ~thr'[t].met => Filling(s)' \subseteq {t},
           ~thr'[t].met => \A a \in Bytes(thr[t]) : Sound(a) /\ Has(thr'[t], a) =>
               IF byte_to_line(a) = l
               THEN \/ AgeOK(ents'[s].data[a % LineBytes], a)
                    \/ Has(thr[t], a) /\ ents'[s].data[a % LineBytes] = ents[s].data[a % LineBytes]
               ELSE Has(thr[t], a)
    PROVE  Reader(t)'
<1>1. BusyShape(thr[t]) /\ Informed(t) /\ (~thr[t].met => Alone(t) /\ Knows(t))
  BY BusyFacts
<1>2. /\ \A k \in thr[t].all : Slot(k) \in Slots /\ (k # l => Slot(k) # s)
      /\ \A a \in Bytes(thr[t]) : byte_to_line(a) \in thr[t].all
  BY <1>1, BusyLines
<1>3. \A a : Sound(a)' <=> Sound(a)
  BY DEF Sound
<1>4. Informed(t)'
  BY <1>1, <1>3 DEF Informed
<1>5. ASSUME ~thr'[t].met PROVE Alone(t)'
  <2> SUFFICES ASSUME NEW k \in thr[t].all, Holds(t, k)' PROVE Filling(Slot(k))' \subseteq {t}
    BY DEF Alone
  <2>1. CASE k = l
    BY <1>5, <2>1
  <2>2. CASE k # l
    <3>1. Holds(t, k) /\ Slot(k) \in Slots /\ Slot(k) # s
      BY <1>2, <2>2
    <3>2. Filling(Slot(k)) \subseteq {t}
      BY <1>1, <1>5, <3>1 DEF Alone
    <3> QED BY <3>1, <3>2
  <2> QED BY <2>1, <2>2
<1>6. ASSUME ~thr'[t].met PROVE Knows(t)'
  <2> SUFFICES ASSUME NEW a \in Bytes(thr[t]), Sound(a), Has(thr'[t], a)
               PROVE  ents'[Slot(byte_to_line(a))].data[a % LineBytes] \in thr[t].seen[a]
    BY <1>3 DEF Knows
  <2>1. CASE byte_to_line(a) = l
    <3>1. CASE AgeOK(ents'[s].data[a % LineBytes], a)
      BY <1>1, <2>1, <3>1 DEF Informed
    <3>2. CASE Has(thr[t], a) /\ ents'[s].data[a % LineBytes] = ents[s].data[a % LineBytes]
      BY <1>1, <1>6, <2>1, <3>2 DEF Knows
    <3> QED BY <1>6, <2>1, <3>1, <3>2
  <2>2. CASE byte_to_line(a) # l
    <3>1. Has(thr[t], a) /\ ents'[Slot(byte_to_line(a))].data = ents[Slot(byte_to_line(a))].data
      BY <1>2, <1>6, <2>2
    <3> QED BY <1>1, <1>6, <3>1 DEF Knows
  <2> QED BY <2>1, <2>2
<1> QED BY <1>4, <1>5, <1>6 DEF Reader

(* A thread that comes: it knows the device as it is and the bytes writes  *)
(* still to be dropped have replaced, and has got no line yet.             *)
LEMMA BeginSafe ==
    ASSUME IoInv, NEW t \in crew, NEW off \in Addr, NEW n \in 1 .. LineBytes + 1,
           NEW then, then = "bit" => n = 1, Begin(t, off, n, then)
    PROVE  IoInv'
<1> DEFINE f == byte_to_line(off)  e == byte_to_line(off + n - 1)
           th == [pc |-> "probe", off |-> off, n |-> n, then |-> then,
                  lines |-> IF f = e THEN <<f>> ELSE <<f, e>>,
                  all |-> {f, e}, left |-> {}, met |-> FALSE,
                  seen |-> [a \in off .. off + n - 1 |-> Since(a)]]
<1>0. t \in Threads /\ DOMAIN thr = Threads
  BY DEF IoInv, TypeOK
<1>1. /\ thr[t] = Idle /\ off + n <= NBytes /\ view' = view /\ ents' = ents /\ spoilt' = spoilt
      /\ crew' = crew /\ mangled' = mangled /\ thr' = [thr EXCEPT ![t] = th]
  BY DEF Begin, bufvars
<1>2. /\ Fields(th, BusyFields)
      /\ th.pc = "probe" /\ th.off = off /\ th.n = n /\ th.then = then /\ th.all = {f, e}
      /\ th.lines = (IF f = e THEN <<f>> ELSE <<f, e>>) /\ th.met = FALSE /\ th.left = {}
      /\ th.seen = [a \in off .. off + n - 1 |-> Since(a)]
  BY DEF Fields, BusyFields
<1> HIDE DEF th
<1>3. Bytes(th) = off .. off + n - 1 /\ FirstLine(th) = f /\ LastLine(th) = e
  BY <1>2 DEF Bytes, FirstLine, LastLine
<1> HIDE DEF f, e
<1>4. BusyShape(th) /\ ThreadOK(th)
  <2>1. BusyShape(th)
    BY <1>1, <1>2, <1>3 DEF BusyShape
  <2> QED BY <1>2, <2>1 DEF ThreadOK
<1>5. Pending(th) = {f, e}
  <2>1. CASE f = e
    BY <1>2, <2>1 DEF Pending
  <2>2. CASE f # e
    BY <1>2, <2>2 DEF Pending
  <2> QED BY <2>1, <2>2
<1>6. thr[t].pc = "idle" /\ thr'[t] = th /\ \A u \in Threads : u # t => thr'[u] = thr[u]
  BY <1>0, <1>1 DEF Idle
<1>7. \A v, a : AgeOK(v, a)' <=> AgeOK(v, a)
  <2>1. \A d \in Writing : d \in Writing' /\ thr'[d] = thr[d]
    BY <1>1, <1>6, WritingFacts DEF Writing
  <2>2. \A d \in Writing' : d \in Writing
    BY <1>1, <1>2, <1>6, <1>0 DEF Writing, IoInv, TypeOK
  <2> QED BY <1>1, <2>1, <2>2, AgeSame DEF Bytes
<1>8. Reader(t)'
  <2>1. \A a \in Bytes(th) : th.seen[a] = Since(a)
    BY <1>2, <1>3
  <2>2. Informed(t)'
    BY <1>6, <1>7, <2>1, SinceIsAge DEF Informed
  <2>3. \A k \in th.all : ~Holds(t, k)'
    BY <1>2, <1>5, <1>6 DEF Holds, Missing
  <2>4. \A a \in Bytes(th) : ~Has(th, a)
    BY <1>2, <1>4, <1>5, BusyLines DEF Has, Missing
  <2> QED BY <1>6, <2>2, <2>3, <2>4 DEF Reader, Alone, Knows
<1>9. ~Missing(th) /\ ~Missing(thr[t]) /\ view' \in [Addr -> Byte]
  BY <1>1, <1>2, <1>6 DEF Missing, IoInv, TypeOK
<1> QED BY <1>1, <1>4, <1>7, <1>8, <1>9, OneMoves

(* A hit: no byte changes, and the thread that met a miss is marked.       *)
LEMMA HitSafe ==
    ASSUME IoInv, NEW t \in crew, fsl_io_cache_find(t),
           NEW l, l = Head(thr[t].lines), NEW s, s = Slot(l), ents[s].addr = l
    PROVE  IoInv'
<1> DEFINE g == Got(thr[t])  bad == s \in spoilt \/ Filling(s) # {}
           th == [g EXCEPT !.met = @ \/ bad]
<1>0. t \in Threads /\ DOMAIN thr = Threads
  BY DEF IoInv, TypeOK
<1>1. /\ thr[t].pc = "probe" /\ view' = view /\ ents' = ents /\ spoilt' = spoilt
      /\ crew' = crew /\ mangled' = mangled /\ thr' = [thr EXCEPT ![t] = th]
  BY DEF fsl_io_cache_find, bufvars
<1>2. Busy(t) /\ BusyShape(thr[t])
  BY <1>1, BusyFacts DEF Busy
<1>3. /\ BusyShape(g) /\ ~Missing(g) /\ g.pc \in {"probe", "join"}
      /\ g.all = thr[t].all /\ g.met = thr[t].met
      /\ g.seen = thr[t].seen /\ Bytes(g) = Bytes(thr[t]) /\ Pending(g) = Pending(thr[t]) \ {l}
  BY <1>1, <1>2, GotShape
<1> HIDE DEF g
<1>4. /\ Fields(th, BusyFields)
      /\ th.pc = g.pc /\ th.off = g.off /\ th.n = g.n /\ th.then = g.then /\ th.lines = g.lines
      /\ th.all = g.all /\ th.seen = g.seen /\ th.left = g.left /\ th.met = (g.met \/ bad)
  BY <1>3 DEF BusyShape, Fields, BusyFields
<1> HIDE DEF th
<1>5. /\ Bytes(th) = Bytes(g) /\ Pending(th) = Pending(g) /\ FirstLine(th) = FirstLine(g)
      /\ LastLine(th) = LastLine(g) /\ ~Missing(th) /\ ~Missing(thr[t])
  BY <1>1, <1>3, <1>4 DEF Bytes, Pending, FirstLine, LastLine, Missing
<1>6. ThreadOK(th)
  <2>1. th.met \in BOOLEAN
    BY <1>3, <1>4 DEF BusyShape
  <2>2. BusyShape(th)
    BY <1>3, <1>4, <1>5, <2>1 DEF BusyShape
  <2> QED BY <1>3, <1>4, <2>2 DEF ThreadOK
<1>7. thr'[t] = th /\ \A u \in Threads : u # t => thr'[u] = thr[u]
  BY <1>0, <1>1
<1>8. \A v, a : AgeOK(v, a)' <=> AgeOK(v, a)
  <2>1. \A d \in Writing : d \in Writing' /\ thr'[d] = thr[d]
    BY <1>1, <1>2, <1>7, WritingFacts DEF Writing
  <2>2. \A d \in Writing' : d \in Writing
    BY <1>1, <1>3, <1>4, <1>7, <1>0 DEF Writing, IoInv, TypeOK
  <2> QED BY <1>1, <2>1, <2>2, AgeSame DEF Bytes
<1>9. s \in Slots /\ l \in Lines /\ l # NoLine /\ l \in thr[t].all
  BY <1>1, <1>2, BusyLines, Consts DEF NoLine
<1>10. \A x \in Slots : Filling(x)' = Filling(x)
  BY <1>0, <1>1, <1>5, <1>7, FillingKept DEF IoInv, TypeOK
<1>11. Reader(t)'
  <2>1. ASSUME ~th.met, NEW a \in Bytes(thr[t]), Sound(a), byte_to_line(a) = l
        PROVE  AgeOK(ents'[s].data[a % LineBytes], a)
    <3>1. Ages(s) /\ Filling(s) = {} /\ ents[s].addr = l
      BY <1>4, <1>9, <2>1 DEF IoInv, SlotOK
    <3>2. a = l * LineBytes + (a % LineBytes) /\ a % LineBytes \in Off
      BY <1>2, <2>1, BusyLines, LineFacts
    <3>3. Sound(l * LineBytes + (a % LineBytes))
      BY <2>1, <3>2
    <3>4. AgeOK(ents[s].data[a % LineBytes], l * LineBytes + (a % LineBytes))
      BY <1>9, <3>1, <3>2, <3>3 DEF Ages
    <3> QED BY <1>1, <3>2, <3>4
  <2>2. ~th.met => Filling(s)' = {}
    BY <1>4, <1>9, <1>10
  <2>3. \A k \in thr[t].all : k # l /\ Holds(t, k)' => Holds(t, k)
    BY <1>3, <1>5, <1>7 DEF Holds
  <2>4. ASSUME NEW a \in Bytes(thr[t]), Has(th, a), byte_to_line(a) # l PROVE Has(thr[t], a)
    BY <1>3, <1>5, <2>4 DEF Has
  <2>5. Bytes(thr'[t]) = Bytes(thr[t]) /\ thr'[t].all = thr[t].all /\ thr'[t].seen = thr[t].seen
    BY <1>3, <1>4, <1>5, <1>7
  <2>6. thr[t].met => thr'[t].met
    BY <1>3, <1>4, <1>7
  <2> QED BY <1>1, <1>2, <1>7, <1>8, <1>9, <1>10, <2>1, <2>2, <2>3, <2>4, <2>5, <2>6, OwnStep, SMTT(60)
<1>12. view' \in [Addr -> Byte]
  BY <1>1 DEF IoInv, TypeOK
<1> QED BY <1>1, <1>5, <1>6, <1>8, <1>11, <1>12, OneMoves

(* bh_submit_read has come back: nothing is copied yet.                    *)
LEMMA PutSafe ==
    ASSUME IoInv, NEW t \in crew, fsl_io_cache_put(t)
    PROVE  IoInv'
<1> DEFINE th == [thr[t] EXCEPT !.pc = "copy"]
<1>0. t \in Threads /\ DOMAIN thr = Threads
  BY DEF IoInv, TypeOK
<1>1. /\ thr[t].pc = "fill" /\ view' = view /\ ents' = ents /\ spoilt' = spoilt
      /\ crew' = crew /\ mangled' = mangled /\ thr' = [thr EXCEPT ![t] = th]
  BY DEF fsl_io_cache_put
<1>2. Busy(t) /\ BusyShape(thr[t])
  BY <1>1, BusyFacts DEF Busy
<1>3. /\ Fields(th, BusyFields)
      /\ th.pc = "copy" /\ th.off = thr[t].off /\ th.n = thr[t].n /\ th.then = thr[t].then
      /\ th.lines = thr[t].lines /\ th.all = thr[t].all /\ th.seen = thr[t].seen
      /\ th.left = thr[t].left /\ th.met = thr[t].met
  BY <1>2 DEF BusyShape, Fields, BusyFields
<1> HIDE DEF th
<1>4. /\ Bytes(th) = Bytes(thr[t]) /\ Pending(th) = Pending(thr[t]) /\ Missing(th) /\ Missing(thr[t])
      /\ FirstLine(th) = FirstLine(thr[t]) /\ LastLine(th) = LastLine(thr[t])
  BY <1>1, <1>3 DEF Bytes, Pending, FirstLine, LastLine, Missing
<1>5. ThreadOK(th)
  <2>1. BusyShape(th)
    BY <1>1, <1>2, <1>3, <1>4 DEF BusyShape
  <2> QED BY <1>3, <2>1 DEF ThreadOK
<1>6. thr'[t] = th /\ \A u \in Threads : u # t => thr'[u] = thr[u]
  BY <1>0, <1>1
<1>7. \A v, a : AgeOK(v, a)' <=> AgeOK(v, a)
  <2>1. \A d \in Writing : d \in Writing' /\ thr'[d] = thr[d]
    BY <1>1, <1>2, <1>6, WritingFacts DEF Writing
  <2>2. \A d \in Writing' : d \in Writing
    BY <1>1, <1>3, <1>6, <1>0 DEF Writing, IoInv, TypeOK
  <2> QED BY <1>1, <2>1, <2>2, AgeSame DEF Bytes
<1>8. \A x \in Slots : Filling(x)' = Filling(x)
  BY <1>0, <1>1, <1>3, <1>4, <1>6, FillingKept DEF IoInv, TypeOK
<1>9. Reader(t)'
  <2>1. \A k : Holds(t, k)' <=> Holds(t, k)
    BY <1>3, <1>4, <1>6 DEF Holds
  <2>2. \A a : Has(th, a) <=> Has(thr[t], a)
    BY <1>3, <1>4 DEF Has
  <2>3. \A a : Sound(a)' <=> Sound(a)
    BY <1>1 DEF Sound
  <2>4. \A k \in thr[t].all : Slot(k) \in Slots
    BY <1>2, BusyLines
  <2>5. Informed(t) /\ (~thr[t].met => Alone(t) /\ Knows(t))
    BY <1>2, BusyFacts
  <2>6. Informed(t)'
    BY <1>3, <1>4, <1>6, <1>7, <2>3, <2>5 DEF Informed
  <2>7. Alone(t) => Alone(t)'
    BY <1>3, <1>6, <1>8, <2>1, <2>4 DEF Alone
  <2>8. Knows(t) => Knows(t)'
    BY <1>1, <1>3, <1>4, <1>6, <2>2, <2>3 DEF Knows
  <2> QED BY <1>3, <1>6, <2>5, <2>6, <2>7, <2>8 DEF Reader
<1>10. view' \in [Addr -> Byte]
  BY <1>1 DEF IoInv, TypeOK
<1> QED BY <1>1, <1>3, <1>4, <1>5, <1>7, <1>9, <1>10, OneMoves

(* A byte is copied; with the last one the line is there.                  *)
LEMMA CopySafe ==
    ASSUME IoInv, NEW t \in crew, CopyByte(t),
           NEW l, l = Head(thr[t].lines), NEW s, s = Slot(l)
    PROVE  IoInv'
<1> DEFINE tail(o) == [thr[t] EXCEPT !.left = @ \ {o}]
<1>0. t \in Threads /\ DOMAIN thr = Threads /\ crew' = crew /\ crew \subseteq Threads
  BY DEF IoInv, TypeOK, CopyByte
<1>1. /\ thr[t].pc = "copy" /\ view' = view /\ spoilt' = spoilt /\ mangled' = mangled
  BY DEF CopyByte
<1>2. Busy(t) /\ BusyShape(thr[t]) /\ t \in Filling(s) /\ Missing(thr[t])
  BY <1>1, BusyFacts DEF Busy, Filling, Missing
<1>3. s \in Slots /\ l \in Lines /\ l \in thr[t].all
  BY <1>1, <1>2, BusyLines
<1>4. PICK o \in thr[t].left :
         /\ ents' = [ents EXCEPT ![s].data[o] = view[l * LineBytes + o]]
         /\ IF thr[t].left = {o} THEN thr' = [thr EXCEPT ![t] = Got(thr[t])]
                                 ELSE thr' = [thr EXCEPT ![t] = tail(o)]
  BY <1>1 DEF CopyByte
<1> DEFINE th == thr'[t]
<1>5. /\ DOMAIN thr' = Threads /\ \A u \in Threads : u # t => thr'[u] = thr[u]
      /\ thr[t].left = {o} => th = Got(thr[t])
      /\ thr[t].left # {o} => th = tail(o)
  BY <1>0, <1>4
<1>6. /\ BusyShape(th) /\ th.all = thr[t].all /\ th.met = thr[t].met
      /\ th.seen = thr[t].seen /\ Bytes(th) = Bytes(thr[t])
      /\ thr[t].left = {o} => ~Missing(th) /\ Pending(th) = Pending(thr[t]) \ {l}
      /\ thr[t].left # {o} => /\ Missing(th) /\ Pending(th) = Pending(thr[t])
                              /\ th.lines = thr[t].lines /\ th.left = thr[t].left \ {o}
  <2>1. CASE thr[t].left = {o}
    BY <1>1, <1>2, <1>5, <2>1, GotShape
  <2>2. CASE thr[t].left # {o}
    <3>1. th = tail(o)
      BY <1>5, <2>2
    <3>2. /\ Fields(th, BusyFields)
          /\ th.pc = "copy" /\ th.off = thr[t].off /\ th.n = thr[t].n /\ th.then = thr[t].then
          /\ th.lines = thr[t].lines /\ th.all = thr[t].all /\ th.seen = thr[t].seen
          /\ th.left = thr[t].left \ {o} /\ th.met = thr[t].met
      BY <1>1, <1>2, <3>1 DEF BusyShape, Fields, BusyFields
    <3> HIDE DEF th
    <3>3. /\ Bytes(th) = Bytes(thr[t]) /\ Pending(th) = Pending(thr[t]) /\ Missing(th)
          /\ FirstLine(th) = FirstLine(thr[t]) /\ LastLine(th) = LastLine(thr[t])
      BY <3>2 DEF Bytes, Pending, FirstLine, LastLine, Missing
    <3>4. BusyShape(th)
      BY <1>1, <1>2, <3>2, <3>3 DEF BusyShape
    <3> QED BY <2>2, <3>2, <3>3, <3>4
  <2> QED BY <2>1, <2>2
<1> HIDE DEF th, tail
<1>7. o \in Off /\ l * LineBytes + o \in Addr
  BY <1>2, <1>3, ByteOfLine DEF BusyShape
<1>8. /\ DOMAIN ents' = Slots /\ \A x \in Slots : x # s => ents'[x] = ents[x]
      /\ Fields(ents'[s], {"addr", "data"}) /\ ents'[s].addr = ents[s].addr
      /\ ents'[s].data = [ents[s].data EXCEPT ![o] = view[l * LineBytes + o]]
  BY <1>3, <1>4 DEF IoInv, TypeOK, Fields
<1>9. /\ ents'[s].data \in [Off -> Byte] /\ ents'[s].data[o] = view[l * LineBytes + o]
      /\ \A i \in Off : i # o => ents'[s].data[i] = ents[s].data[i]
  <2>1. ents[s].data \in [Off -> Byte] /\ view[l * LineBytes + o] \in Byte
    BY <1>3, <1>7 DEF IoInv, TypeOK
  <2> QED BY <1>7, <1>8, <2>1
<1>10. /\ \A x \in Slots : x # s => Filling(x)' = Filling(x)
       /\ Filling(s)' = IF thr[t].left = {o} THEN Filling(s) \ {t} ELSE Filling(s)
  <2>1. ASSUME NEW x \in Slots, NEW u \in crew, u # t PROVE u \in Filling(x)' <=> u \in Filling(x)
    BY <1>0, <1>5, <2>1 DEF Filling
  <2>2. ASSUME NEW x \in Slots, x # s PROVE t \notin Filling(x)' /\ t \notin Filling(x)
    BY <1>6, <2>2 DEF Filling, th
  <2>3. t \in Filling(s)' <=> thr[t].left # {o}
    BY <1>0, <1>2, <1>6 DEF Filling, th
  <2>4. \A x \in Slots : Filling(x)' \subseteq crew /\ Filling(x) \subseteq crew
    BY <1>0 DEF Filling
  <2>5. \A x \in Slots : x # s => Filling(x)' = Filling(x)
    BY <2>1, <2>2, <2>4
  <2>6. CASE thr[t].left = {o}
    <3>1. \A u : u \in Filling(s)' <=> u \in Filling(s) \ {t}
      BY <1>3, <2>1, <2>3, <2>4, <2>6
    <3> QED BY <2>5, <2>6, <3>1
  <2>7. CASE thr[t].left # {o}
    <3>1. \A u : u \in Filling(s)' <=> u \in Filling(s)
      BY <1>2, <1>3, <2>1, <2>3, <2>4, <2>7
    <3> QED BY <2>5, <2>7, <3>1
  <2> QED BY <2>6, <2>7
<1>11. \A v, a : AgeOK(v, a)' <=> AgeOK(v, a)
  <2>1. \A d \in Writing : d \in Writing' /\ thr'[d] = thr[d]
    BY <1>0, <1>2, <1>5, WritingFacts DEF Writing
  <2>2. \A d \in Writing' : d \in Writing
    BY <1>0, <1>5, <1>6 DEF Writing, BusyShape, th
  <2> QED BY <1>1, <2>1, <2>2, AgeSame DEF Bytes
<1>12. \A a : Sound(a)' <=> Sound(a)
  BY <1>1 DEF Sound
<1>13. TypeOK' /\ ThreadShape'
  <2>1. ThreadOK(th)
    BY <1>6 DEF ThreadOK, BusyShape
  <2>2. TypeOK'
    BY <1>0, <1>1, <1>5, <1>8, <1>9 DEF IoInv, TypeOK
  <2> QED BY <1>0, <1>5, <2>1, <2>2 DEF IoInv, ThreadShape, th
<1>14. \A x \in Slots \ spoilt' : SlotOK(x)'
  <2>1. ASSUME NEW x \in Slots \ spoilt, x # s PROVE SlotOK(x)'
    <3>1. \A u \in Filling(x) : u # t /\ u \in Threads
      BY <1>0, <2>1 DEF Filling
    <3>2. \A u \in Filling(x) : thr'[u].lines = thr[u].lines /\ thr'[u].left = thr[u].left
      BY <1>5, <3>1
    <3>3. \A a \in Addr : Sound(a)' => \A v : AgeOK(v, a) => AgeOK(v, a)'
      BY <1>11
    <3>4. SlotOK(x) /\ ents'[x] = ents[x] /\ mangled \subseteq mangled' /\ Filling(x)' = Filling(x)
      BY <1>1, <1>8, <1>10, <2>1 DEF IoInv
    <3> QED BY <3>2, <3>3, <3>4, SlotKept
  <2>2. ASSUME s \notin spoilt PROVE SlotOK(s)'
    <3>1. OneFiller(s) /\ Ages(s)
      BY <1>3, <2>2 DEF IoInv, SlotOK
    <3>2. Filling(s) = {t} /\ ents[s].addr \in {NoLine, l}
      BY <1>2, <3>1 DEF OneFiller
    <3>3. OneFiller(s)'
      <4>1. CASE thr[t].left = {o}
        <5>1. Filling(s)' = {}
          BY <1>10, <3>2, <4>1
        <5> QED BY <5>1 DEF OneFiller
      <4>2. CASE thr[t].left # {o}
        <5>1. Filling(s)' = {t} /\ Head(thr'[t].lines) = l
          BY <1>6, <1>10, <3>2, <4>2 DEF th
        <5> QED BY <1>8, <3>2, <5>1 DEF OneFiller
      <4> QED BY <4>1, <4>2
    <3>4. ASSUME ents[s].addr # NoLine, NEW i \in Off, Sound(l * LineBytes + i),
                 \A u \in Filling(s)' : i \notin thr'[u].left
          PROVE  AgeOK(ents'[s].data[i], l * LineBytes + i)
      <4>1. CASE i = o
        BY <1>9, <4>1 DEF AgeOK
      <4>2. CASE i # o
        <5>1. i \notin thr[t].left
          <6>1. CASE thr[t].left = {o}
            BY <4>2, <6>1
          <6>2. CASE thr[t].left # {o}
            BY <1>6, <1>10, <3>2, <3>4, <4>2, <6>2 DEF th
          <6> QED BY <6>1, <6>2
        <5>2. ents[s].addr = l
          BY <3>2, <3>4
        <5>3. AgeOK(ents[s].data[i], l * LineBytes + i)
          BY <3>1, <3>2, <3>4, <5>1, <5>2 DEF Ages
        <5> QED BY <1>9, <4>2, <5>3
      <4> QED BY <4>1, <4>2
    <3>5. Ages(s)'
      <4> SUFFICES ASSUME ents'[s].addr # NoLine, NEW i \in Off, Sound(ents[s].addr * LineBytes + i)',
                          \A u \in Filling(s)' : i \notin thr'[u].left
                   PROVE  AgeOK(ents[s].data[i], ents[s].addr * LineBytes + i)'
        BY DEF Ages
      <4>1. ents[s].addr = l /\ ents'[s].addr = l
        BY <1>8, <3>2
      <4>2. Sound(l * LineBytes + i)
        BY <1>12, <4>1
      <4>3. AgeOK(ents'[s].data[i], l * LineBytes + i)
        BY <1>8, <3>4, <4>2, <4>1
      <4>4. \A vv, aa : vv = ents'[s].data[i] /\ aa = l * LineBytes + i => AgeOK(vv, aa)'
        BY <1>11, <4>3
      <4> QED BY <4>1, <4>4
    <3> QED BY <3>3, <3>5 DEF SlotOK
  <2> QED BY <1>1, <2>1, <2>2
<1>15. Reader(t)'
  <2>1. ASSUME NEW a \in Bytes(thr[t]), byte_to_line(a) = l
        PROVE  a % LineBytes \in Off /\ a = l * LineBytes + (a % LineBytes)
    BY <1>2, <2>1, BusyLines, LineFacts
  <2>2. ASSUME NEW a \in Bytes(thr[t]), Has(th, a), byte_to_line(a) = l
        PROVE  \/ AgeOK(ents'[s].data[a % LineBytes], a)
               \/ Has(thr[t], a) /\ ents'[s].data[a % LineBytes] = ents[s].data[a % LineBytes]
    <3>1. CASE a % LineBytes = o
      BY <1>9, <2>1, <2>2, <3>1 DEF AgeOK
    <3>2. CASE a % LineBytes # o
      <4>1. ents'[s].data[a % LineBytes] = ents[s].data[a % LineBytes]
        BY <1>9, <2>1, <2>2, <3>2
      <4>2. a % LineBytes \notin thr[t].left
        <5>1. CASE thr[t].left = {o}
          BY <3>2, <5>1
        <5>2. CASE thr[t].left # {o}
          <6>1. l \in Pending(th) /\ th.left = thr[t].left \ {o}
            BY <1>1, <1>2, <1>6, <5>2, BusyLines
          <6> QED BY <2>2, <3>2, <6>1 DEF Has
        <5> QED BY <5>1, <5>2
      <4>3. Has(thr[t], a)
        BY <1>2, <2>2, <4>2 DEF Has
      <4> QED BY <4>1, <4>3
    <3> QED BY <3>1, <3>2
  <2>3. ASSUME NEW a \in Bytes(thr[t]), Has(th, a), byte_to_line(a) # l PROVE Has(thr[t], a)
    <3>1. CASE thr[t].left = {o}
      BY <1>6, <2>3, <3>1 DEF Has
    <3>2. CASE thr[t].left # {o}
      BY <1>6, <2>3, <3>2 DEF Has
    <3> QED BY <3>1, <3>2
  <2>4. ASSUME NEW k \in thr[t].all, k # l, Holds(t, k)' PROVE Holds(t, k)
    <3>1. CASE thr[t].left = {o}
      BY <1>6, <2>4, <3>1 DEF Holds, th
    <3>2. CASE thr[t].left # {o}
      BY <1>6, <2>4, <3>2 DEF Holds, th
    <3> QED BY <3>1, <3>2
  <2>5. ASSUME ~th.met PROVE Filling(s)' \subseteq {t}
    <3>1. Filling(s) \subseteq {t}
      BY <1>2, <1>3, <1>6, <2>5, BusyFacts DEF Alone, Holds
    <3> QED BY <1>10, <3>1
  <2>6. \A x \in Slots : x # s => ents'[x].data = ents[x].data /\ Filling(x)' \subseteq Filling(x)
    BY <1>8, <1>10
  <2>7. Bytes(thr'[t]) = Bytes(thr[t]) /\ thr'[t].all = thr[t].all /\ thr'[t].seen = thr[t].seen
        /\ (thr[t].met => thr'[t].met)
    BY <1>6 DEF th
  <2>8. /\ \A v, a : AgeOK(v, a)' => AgeOK(v, a)
        /\ \A k \in thr[t].all : k # l /\ Holds(t, k)' => Holds(t, k)
    BY <1>11, <2>4
  <2>9. ~thr'[t].met => Filling(s)' \subseteq {t}
    BY <2>5 DEF th
  <2>10. \A a \in Bytes(thr[t]) : Sound(a) /\ Has(thr'[t], a) =>
               IF byte_to_line(a) = l
               THEN \/ AgeOK(ents'[s].data[a % LineBytes], a)
                    \/ Has(thr[t], a) /\ ents'[s].data[a % LineBytes] = ents[s].data[a % LineBytes]
               ELSE Has(thr[t], a)
    BY <2>2, <2>3 DEF th
  <2> QED BY <1>1, <1>2, <1>3, <2>6, <2>7, <2>8, <2>9, <2>10, OwnStep, SMTT(60)
<1>16. ASSUME NEW u \in crew, u # t PROVE Reader(u)'
  <2>1. ~(Filling(s) \subseteq {u})
    BY <1>2, <1>16
  <2>2. \A x \in Slots : /\ ents'[x].data = ents[x].data \/ ~(Filling(x) \subseteq {u})
                         /\ Filling(x)' \subseteq Filling(x)
    BY <1>8, <1>10, <2>1
  <2> QED BY <1>0, <1>1, <1>5, <1>11, <1>16, <2>2, ReaderKept
<1> QED BY <1>0, <1>13, <1>14, <1>15, <1>16 DEF IoInv

(* A thread that leaves, with its bytes or because a read failed; the slot *)
(* of a miss that failed is spoilt.                                        *)
LEMMA LeaveSafe ==
    ASSUME IoInv, NEW t \in crew, Busy(t), NEW th, ThreadOK(th), th.pc \in {"idle", "rmw", "dead"},
           view' = view, ents' = ents, crew' = crew, mangled' = mangled, thr' = [thr EXCEPT ![t] = th],
           spoilt \subseteq spoilt', Missing(thr[t]) => Slot(Head(thr[t].lines)) \in spoilt'
    PROVE  IoInv'
<1>0. t \in Threads /\ DOMAIN thr = Threads
  BY DEF IoInv, TypeOK
<1>1. thr'[t] = th /\ (\A u \in Threads : u # t => thr'[u] = thr[u]) /\ ~Missing(th)
  BY <1>0 DEF Missing
<1>2. \A v, a : AgeOK(v, a)' <=> AgeOK(v, a)
  <2>1. \A d \in Writing : d \in Writing' /\ thr'[d] = thr[d]
    BY <1>1, WritingFacts DEF Writing
  <2>2. \A d \in Writing' : d \in Writing
    BY <1>0, <1>1 DEF Writing, IoInv, TypeOK
  <2> QED BY <2>1, <2>2, AgeSame DEF Bytes
<1>3. Reader(t)' /\ view' \in [Addr -> Byte]
  BY <1>1 DEF Reader, Busy, IoInv, TypeOK
<1> QED BY <1>1, <1>2, <1>3, OneMoves

LEMMA ReadErrorSafe ==
    ASSUME IoInv, NEW t \in crew, ReadError(t)
    PROVE  IoInv'
<1> DEFINE th == [pc |-> "dead"]
<1>1. ThreadOK(th) /\ th.pc = "dead"
  BY DEF ThreadOK
<1>2. Busy(t)
  BY DEF ReadError, Busy
<1> QED BY <1>1, <1>2, LeaveSafe DEF ReadError

(* The bytes a read takes from the slots are bytes. *)
LEMMA JoinedType ==
    ASSUME IoInv, NEW t \in crew, Busy(t), NEW i \in 0 .. thr[t].n - 1
    PROVE  /\ thr[t].off + i \in Bytes(thr[t])
           /\ Joined(thr[t])[i] = ents[Slot(byte_to_line(thr[t].off + i))].data[(thr[t].off + i) % LineBytes]
           /\ Joined(thr[t])[i] \in Byte
<1>1. BusyShape(thr[t])
  BY BusyFacts
<1>2. thr[t].off \in Nat /\ thr[t].n \in Nat
  BY <1>1, Consts DEF BusyShape, Addr
<1>3. thr[t].off + i \in Bytes(thr[t])
  BY <1>2 DEF Bytes
<1>4. Slot(byte_to_line(thr[t].off + i)) \in Slots /\ (thr[t].off + i) % LineBytes \in Off
  BY <1>1, <1>3, BusyLines, LineFacts
<1>5. Joined(thr[t])[i] = ents[Slot(byte_to_line(thr[t].off + i))].data[(thr[t].off + i) % LineBytes]
  BY DEF Joined
<1> QED BY <1>3, <1>4, <1>5 DEF IoInv, TypeOK

LEMMA JoinSafe ==
    ASSUME IoInv, NEW t \in crew, Join(t)
    PROVE  IoInv'
<1>1. Busy(t) /\ thr[t].pc = "join"
  BY DEF Join, Busy
<1>0. ~Missing(thr[t])
  BY <1>1 DEF Missing
<1>2. BusyShape(thr[t])
  BY <1>1, BusyFacts
<1>3. CASE thr[t].then = "read"
  <2>1. ThreadOK(Idle) /\ Idle.pc = "idle"
    BY DEF ThreadOK, Idle
  <2> QED BY <1>0, <1>1, <1>3, <2>1, LeaveSafe DEF Join, bufvars
<1>4. CASE thr[t].then # "read"
  <2> DEFINE th == [pc |-> "rmw", off |-> thr[t].off, byte |-> Joined(thr[t])[0]]
  <2>1. 0 \in 0 .. thr[t].n - 1
    BY <1>2, Consts DEF BusyShape
  <2>2. Joined(thr[t])[0] \in Byte
    BY <1>1, <2>1, JoinedType
  <2>3. ThreadOK(th) /\ th.pc = "rmw"
    BY <1>2, <2>2 DEF ThreadOK, BusyShape
  <2>4. /\ view' = view /\ ents' = ents /\ crew' = crew /\ spoilt' = spoilt
        /\ mangled' = mangled /\ thr' = [thr EXCEPT ![t] = th]
    BY <1>4 DEF Join, bufvars
  <2> HIDE DEF th
  <2> QED BY <1>0, <1>1, <2>3, <2>4, LeaveSafe
<1> QED BY <1>3, <1>4

(* A miss starts: the thread is alone in the slot unless another one fills *)
(* it, and who uses the slot is marked.                                    *)
LEMMA MissSafe ==
    ASSUME IoInv, NEW t \in crew, fsl_io_cache_find(t),
           NEW l, l = Head(thr[t].lines), NEW s, s = Slot(l), ents[s].addr # l
    PROVE  IoInv'
<1> DEFINE th == thr'[t]  met == Filling(s) # {}
<1>0. t \in Threads /\ DOMAIN thr = Threads /\ crew' = crew /\ crew \subseteq Threads
  BY DEF IoInv, TypeOK, fsl_io_cache_find
<1>1. /\ thr[t].pc = "probe" /\ view' = view /\ mangled' = mangled /\ ents' = [ents EXCEPT ![s].addr = l]
      /\ spoilt' = IF Filling(s) = {} THEN spoilt \ {s} ELSE spoilt \union {s}
      /\ DOMAIN thr' = Threads /\ th = [thr[t] EXCEPT !.pc = "fill", !.left = Off, !.met = @ \/ met]
      /\ \A u \in Threads : u # t =>
            thr'[u] = IF u \in Using(s) THEN [thr[u] EXCEPT !.met = TRUE] ELSE thr[u]
  BY <1>0 DEF fsl_io_cache_find, bufvars
<1>2. Busy(t) /\ BusyShape(thr[t])
  BY <1>1, BusyFacts DEF Busy
<1>3. s \in Slots /\ l \in Lines /\ l \in thr[t].all /\ l \in Pending(thr[t])
  BY <1>1, <1>2, BusyLines
<1>4. /\ th.pc = "fill" /\ th.off = thr[t].off /\ th.n = thr[t].n /\ th.then = thr[t].then
      /\ th.lines = thr[t].lines /\ th.all = thr[t].all /\ th.seen = thr[t].seen
      /\ th.met = (thr[t].met \/ met)
      /\ th.left = Off /\ Fields(th, BusyFields)
  BY <1>1, <1>2 DEF BusyShape, Fields, BusyFields
<1> HIDE DEF th
<1>5. /\ Bytes(th) = Bytes(thr[t]) /\ Pending(th) = Pending(thr[t])
      /\ FirstLine(th) = FirstLine(thr[t]) /\ LastLine(th) = LastLine(thr[t])
  BY <1>4 DEF Bytes, Pending, FirstLine, LastLine
<1>6. BusyShape(th)
  <2>1. th.met \in BOOLEAN
    BY <1>2, <1>4 DEF BusyShape
  <2> QED BY <1>1, <1>2, <1>4, <1>5, <2>1 DEF BusyShape
<1>7. ASSUME NEW u \in Threads, u # t
      PROVE  /\ (u \in Using(s) => thr'[u].met) /\ (u \notin Using(s) => thr'[u] = thr[u])
             /\ thr'[u].pc = thr[u].pc
             /\ BusyShape(thr[u]) => /\ BusyShape(thr'[u]) /\ Bytes(thr'[u]) = Bytes(thr[u])
                                     /\ thr'[u].lines = thr[u].lines /\ thr'[u].left = thr[u].left
                                     /\ thr'[u].seen = thr[u].seen
  <2>1. CASE u \notin Using(s)
    BY <1>1, <1>7, <2>1
  <2>2. CASE u \in Using(s)
    <3> DEFINE uh == thr'[u]
    <3>1. uh = [thr[u] EXCEPT !.met = TRUE] /\ BusyShape(thr[u])
      BY <1>1, <1>7, <2>2, BusyFacts DEF Using
    <3>2. /\ uh.pc = thr[u].pc /\ uh.off = thr[u].off /\ uh.n = thr[u].n /\ uh.then = thr[u].then
          /\ uh.lines = thr[u].lines /\ uh.all = thr[u].all /\ uh.seen = thr[u].seen /\ uh.met = TRUE
          /\ uh.left = thr[u].left /\ Fields(uh, BusyFields)
      BY <3>1 DEF BusyShape, Fields, BusyFields
    <3> HIDE DEF uh
    <3>3. /\ Bytes(uh) = Bytes(thr[u])
          /\ FirstLine(uh) = FirstLine(thr[u]) /\ LastLine(uh) = LastLine(thr[u])
      BY <3>2 DEF Bytes, FirstLine, LastLine
    <3>4. BusyShape(uh)
      BY <3>1, <3>2, <3>3 DEF BusyShape
    <3> QED BY <2>2, <3>2, <3>3, <3>4 DEF uh
  <2> QED BY <2>1, <2>2
<1>8. (\A v, a : AgeOK(v, a)' <=> AgeOK(v, a)) /\ \A a : Sound(a)' <=> Sound(a)
  <2>1. \A d \in Writing : d # t /\ d \notin Using(s) /\ d \in Threads
    BY <1>2, WritingFacts DEF Using
  <2>2. \A d \in Writing : d \in Writing' /\ thr'[d] = thr[d]
    BY <1>0, <1>7, <2>1 DEF Writing
  <2>3. \A d \in Writing' : d \in Writing
    BY <1>0, <1>4, <1>7 DEF Writing, th
  <2> QED BY <1>1, <2>2, <2>3, AgeSame DEF Bytes, Sound
<1>9. /\ Filling(s)' = Filling(s) \union {t} /\ \A x \in Slots : x # s => Filling(x)' = Filling(x)
      /\ \A x \in Slots : \A u \in Filling(x) : thr'[u].lines = thr[u].lines /\ thr'[u].left = thr[u].left
  <2>1. ASSUME NEW x \in Slots, NEW u \in Filling(x)
        PROVE  u # t /\ thr'[u].lines = thr[u].lines /\ thr'[u].left = thr[u].left
    BY <1>1, <1>7, <2>1, FillingFacts DEF Missing
  <2>2. ASSUME NEW x \in Slots, NEW u \in crew, u # t
        PROVE  u \in Filling(x)' <=> u \in Filling(x)
    <3>1. Missing(thr[u]) => thr'[u].lines = thr[u].lines
      BY <1>0, <1>7, <2>2, BusyFacts DEF Busy, Missing
    <3>2. Missing(thr'[u]) <=> Missing(thr[u])
      BY <1>0, <1>7, <2>2 DEF Missing
    <3> QED BY <1>0, <2>2, <3>1, <3>2 DEF Filling
  <2>3. \A x \in Slots : (t \in Filling(x)' <=> x = s) /\ t \notin Filling(x)
    BY <1>0, <1>1, <1>4 DEF Filling, Missing, th
  <2>4. \A x \in Slots : Filling(x)' \subseteq crew /\ Filling(x) \subseteq crew
    BY <1>0 DEF Filling
  <2>5. \A x \in Slots : x # s => Filling(x)' = Filling(x)
    BY <2>2, <2>3, <2>4
  <2>6. \A u : u \in Filling(s)' <=> u \in Filling(s) \union {t}
    BY <1>3, <2>2, <2>3, <2>4
  <2> QED BY <2>1, <2>5, <2>6
<1>10. /\ DOMAIN ents' = Slots /\ (\A x \in Slots : x # s => ents'[x] = ents[x])
       /\ Fields(ents'[s], {"addr", "data"}) /\ ents'[s].addr = l
       /\ \A x \in Slots : ents'[x].data = ents[x].data
  BY <1>1, <1>3 DEF IoInv, TypeOK, Fields
<1>11. TypeOK' /\ ThreadShape'
  <2>1. TypeOK'
    BY <1>0, <1>1, <1>3, <1>10 DEF IoInv, TypeOK
  <2>2. ThreadOK(th)
    BY <1>6 DEF ThreadOK, BusyShape
  <2>3. ASSUME NEW u \in Threads, u # t PROVE ThreadOK(thr'[u]) /\ (u \notin crew => thr'[u] = Idle)
    <3>1. ThreadOK(thr[u]) /\ (u \notin crew => thr[u] = Idle)
      BY DEF IoInv, ThreadShape
    <3>2. CASE thr'[u] = thr[u]
      BY <3>1, <3>2
    <3>3. CASE u \in Using(s)
      <4>1. u \in crew /\ Busy(u) /\ BusyShape(thr[u])
        BY <3>3, BusyFacts DEF Using
      <4> QED BY <1>7, <2>3, <4>1 DEF ThreadOK, BusyShape
    <3> QED BY <1>7, <2>3, <3>2, <3>3
  <2> QED BY <1>0, <2>1, <2>2, <2>3 DEF ThreadShape, th
<1>12. ASSUME NEW x \in Slots \ spoilt' PROVE SlotOK(x)'
  <2>1. CASE x # s
    <3>1. SlotOK(x) /\ ents'[x] = ents[x] /\ mangled \subseteq mangled' /\ Filling(x)' = Filling(x)
      BY <1>1, <1>9, <1>10, <1>12, <2>1 DEF IoInv
    <3>2. \A a \in Addr : Sound(a)' => \A v : AgeOK(v, a) => AgeOK(v, a)'
      BY <1>8
    <3> QED BY <1>9, <1>12, <3>1, <3>2, SlotKept
  <2>2. CASE x = s
    <3>1. Filling(s)' = {t}
      BY <1>1, <1>9, <1>12, <2>2
    <3>2. Head(thr'[t].lines) = l /\ thr'[t].left = Off
      BY <1>4 DEF th
    <3> QED BY <1>10, <2>2, <3>1, <3>2 DEF SlotOK, OneFiller, Ages
  <2> QED BY <2>1, <2>2
<1>13. \A a \in Bytes(thr[t]) : a % LineBytes \in Off /\ byte_to_line(a) \in thr[t].all
  BY <1>2, BusyLines, LineFacts
<1>14. Reader(t)'
  <2>1. \A x \in Slots : x # s => ents'[x].data = ents[x].data /\ Filling(x)' \subseteq Filling(x)
    BY <1>9, <1>10
  <2>2. ASSUME NEW k \in thr[t].all, k # l, Holds(t, k)' PROVE Holds(t, k)
    BY <1>4, <1>5, <2>2 DEF Holds, th
  <2>3. ASSUME NEW a \in Bytes(thr[t]), Has(th, a) PROVE byte_to_line(a) # l /\ Has(thr[t], a)
    BY <1>3, <1>4, <1>5, <1>13, <2>3 DEF Has
  <2>4. ~th.met => Filling(s)' \subseteq {t}
    BY <1>4, <1>9
  <2>5. Bytes(thr'[t]) = Bytes(thr[t]) /\ thr'[t].all = thr[t].all /\ thr'[t].seen = thr[t].seen
        /\ (thr[t].met => thr'[t].met)
    BY <1>4, <1>5 DEF th
  <2>6. ~thr'[t].met => Filling(s)' \subseteq {t}
    BY <2>4 DEF th
  <2>7. \A a \in Bytes(thr[t]) : Sound(a) /\ Has(thr'[t], a) =>
               IF byte_to_line(a) = l
               THEN \/ AgeOK(ents'[s].data[a % LineBytes], a)
                    \/ Has(thr[t], a) /\ ents'[s].data[a % LineBytes] = ents[s].data[a % LineBytes]
               ELSE Has(thr[t], a)
    BY <2>3 DEF th
  <2>8. /\ \A v, a : AgeOK(v, a)' => AgeOK(v, a)
        /\ \A k \in thr[t].all : k # l /\ Holds(t, k)' => Holds(t, k)
    BY <1>8, <2>2
  <2>9. Busy(t) /\ mangled' = mangled /\ l \in thr[t].all
    BY <1>1, <1>2, <1>3
  <2> QED BY <2>1, <2>5, <2>6, <2>7, <2>8, <2>9, OwnStep, SMTT(60)
<1>15. ASSUME NEW u \in crew, u # t, Busy(u) PROVE Reader(u)'
  <2>1. u \in Threads /\ BusyShape(thr[u]) /\ Informed(u) /\ (~thr[u].met => Alone(u) /\ Knows(u))
    BY <1>15, BusyFacts
  <2>2. /\ (u \in Using(s) => thr'[u].met) /\ (u \notin Using(s) => thr'[u] = thr[u])
        /\ Bytes(thr'[u]) = Bytes(thr[u]) /\ thr'[u].seen = thr[u].seen
    BY <1>7, <1>15, <2>1
  <2>3. Informed(u)'
    BY <1>8, <2>1, <2>2 DEF Informed
  <2>4. ASSUME ~thr'[u].met
        PROVE  thr'[u] = thr[u] /\ \A k \in thr[u].all : Slot(k) \in Slots /\ Slot(k) # s
    <3>1. u \notin Using(s)
      BY <2>2, <2>4
    <3>2. thr'[u] = thr[u]
      BY <2>2, <3>1
    <3> QED BY <1>15, <2>1, <3>1, <3>2, BusyLines DEF Using
  <2>5. ASSUME ~thr'[u].met PROVE Alone(u)'
    BY <1>9, <2>1, <2>4, <2>5 DEF Alone, Holds
  <2>6. ASSUME ~thr'[u].met PROVE Knows(u)'
    <3>1. \A a \in Bytes(thr[u]) : byte_to_line(a) \in thr[u].all
      BY <2>1, BusyLines
    <3> QED BY <1>8, <1>10, <2>1, <2>4, <2>6, <3>1 DEF Knows
  <2> QED BY <2>3, <2>5, <2>6 DEF Reader
<1>16. \A u \in crew : Reader(u)'
  <2>1. ASSUME NEW u \in crew, u # t, ~Busy(u) PROVE Reader(u)'
    BY <1>0, <1>7, <2>1 DEF Reader, Busy
  <2> QED BY <1>14, <1>15, <2>1
<1> QED BY <1>0, <1>11, <1>12, <1>16 DEF IoInv

(* A write that starts: it has replaced nothing yet.                       *)
LEMMA StoreSafe ==
    ASSUME IoInv, NEW t \in crew, thr[t].pc \in {"idle", "rmw"},
           NEW off \in Addr, NEW n \in Nat \ {0}, off + n <= NBytes,
           NEW buf \in [0 .. n - 1 -> Byte], NEW again \in BOOLEAN, Store(t, off, n, buf, again)
    PROVE  IoInv'
<1> DEFINE bytes == off .. off + n - 1
           th == [pc |-> "store", off |-> off, n |-> n, left |-> bytes,
                  buf |-> [a \in bytes |-> buf[a - off]], old |-> [a \in bytes |-> {}], again |-> again]
<1>0. t \in Threads /\ DOMAIN thr = Threads
  BY DEF IoInv, TypeOK
<1>1. /\ view' = view /\ ents' = ents /\ spoilt' = spoilt /\ crew' = crew /\ mangled' = mangled
      /\ thr' = [thr EXCEPT ![t] = th]
  BY DEF Store
<1>2. [a \in bytes |-> buf[a - off]] \in [bytes -> Byte]
  <2>1. \A a \in bytes : a - off \in 0 .. n - 1
    BY Consts DEF Addr
  <2> QED BY <2>1
<1>3. /\ Fields(th, {"pc", "off", "n", "left", "buf", "old", "again"})
      /\ th.pc = "store" /\ th.off = off /\ th.n = n /\ th.left = bytes /\ th.again = again
      /\ th.buf \in [bytes -> Byte] /\ th.old = [a \in bytes |-> {}]
  BY <1>2 DEF Fields
<1> HIDE DEF th
<1>4. Bytes(th) = bytes /\ ThreadOK(th) /\ ~Missing(th)
  <2>1. Bytes(th) = bytes
    BY <1>3 DEF Bytes
  <2>2. WriteShape(th)
    BY <1>3, <2>1 DEF WriteShape
  <2> QED BY <1>3, <2>1, <2>2 DEF ThreadOK, Missing
<1>5. thr'[t] = th /\ (\A u \in Threads : u # t => thr'[u] = thr[u]) /\ ~Missing(thr[t])
  BY <1>0, <1>1 DEF Missing
<1>6. \A v, a : AgeOK(v, a)' <=> AgeOK(v, a)
  <2>1. \A d \in Writing : d \in Writing' /\ thr'[d] = thr[d]
    BY <1>1, <1>5, WritingFacts DEF Writing
  <2>2. \A d \in Writing' : d \notin Writing => \A a \in Bytes(thr'[d]) : thr'[d].old[a] = {}
    <3>1. \A a \in Bytes(th) : th.old[a] = {}
      BY <1>3, <1>4
    <3>2. \A d \in Writing' : d \notin Writing => d = t
      BY <1>0, <1>1, <1>5 DEF Writing, IoInv, TypeOK
    <3> QED BY <1>5, <3>1, <3>2
  <2> QED BY <1>1, <2>1, <2>2, AgeSame DEF Bytes
<1>7. Reader(t)' /\ view' \in [Addr -> Byte]
  BY <1>1, <1>3, <1>5 DEF Reader, Busy, IoInv, TypeOK
<1> QED BY <1>1, <1>4, <1>5, <1>6, <1>7, OneMoves

(* The thread of a write goes on, and knows no more and no less of what it *)
(* has replaced.                                                           *)
LEMMA WriterMoves ==
    ASSUME IoInv, NEW t \in crew, thr[t].pc = "store", NEW th, ThreadOK(th), th.pc \in {"store", "drop"},
           thr' = [thr EXCEPT ![t] = th], Bytes(th) = Bytes(thr[t]), th.old = thr[t].old,
           ents' = ents, crew' = crew, spoilt' = spoilt, mangled \subseteq mangled',
           view' \in [Addr -> Byte], \A a \in Addr : Sound(a)' => view'[a] = view[a]
    PROVE  IoInv'
<1>0. t \in Threads /\ DOMAIN thr = Threads
  BY DEF IoInv, TypeOK
<1>1. /\ thr'[t] = th /\ (\A u \in Threads : u # t => thr'[u] = thr[u])
      /\ ~Missing(th) /\ ~Missing(thr[t])
  BY <1>0 DEF Missing
<1>2. Writing' = Writing /\ \A d \in Writing : Bytes(thr'[d]) = Bytes(thr[d]) /\ thr'[d].old = thr[d].old
  BY <1>0, <1>1 DEF Writing, IoInv, TypeOK
<1>3. \A a \in Addr : Sound(a)' => \A v : AgeOK(v, a)' <=> AgeOK(v, a)
  <2> SUFFICES ASSUME NEW a \in Addr, view'[a] = view[a], NEW v PROVE AgeOK(v, a)' <=> AgeOK(v, a)
    OBVIOUS
  <2> QED BY <1>2 DEF AgeOK
<1>4. Reader(t)'
  BY <1>1 DEF Reader, Busy
<1> QED BY <1>1, <1>3, <1>4, OneMoves

LEMMA StoreUnreadSafe ==
    ASSUME IoInv, NEW t \in crew, StoreUnread(t)
    PROVE  IoInv'
<1>1. PICK a \in thr[t].left : thr' = [thr EXCEPT ![t].left = @ \ {a}]
  BY DEF StoreUnread
<1> DEFINE th == [thr[t] EXCEPT !.left = @ \ {a}]
<1>2. t \in Threads /\ DOMAIN thr = Threads /\ thr[t].pc = "store" /\ WriteShape(thr[t])
  BY WritingFacts DEF IoInv, TypeOK, StoreUnread, Writing
<1>3. thr' = [thr EXCEPT ![t] = th]
  BY <1>1, <1>2
<1>4. /\ Fields(th, {"pc", "off", "n", "left", "buf", "old", "again"}) /\ th.pc = "store"
      /\ th.off = thr[t].off /\ th.n = thr[t].n /\ th.buf = thr[t].buf /\ th.old = thr[t].old
      /\ th.again = thr[t].again /\ th.left = thr[t].left \ {a}
  BY <1>2 DEF WriteShape, Fields
<1> HIDE DEF th
<1>5. Bytes(th) = Bytes(thr[t])
  BY <1>4 DEF Bytes
<1>6. ThreadOK(th)
  <2>1. WriteShape(th)
    BY <1>2, <1>4, <1>5 DEF WriteShape
  <2> QED BY <1>4, <2>1 DEF ThreadOK
<1>7. /\ ents' = ents /\ crew' = crew /\ spoilt' = spoilt /\ mangled' = mangled
      /\ view' = view /\ view' \in [Addr -> Byte]
  BY DEF StoreUnread, bufvars, IoInv, TypeOK
<1> QED BY <1>2, <1>3, <1>4, <1>5, <1>6, <1>7, WriterMoves

(* What a write becomes when all its bytes are stored.                     *)
LEMMA StoredShape ==
    ASSUME NEW th, WriteShape(th)
    PROVE  /\ ThreadOK(Stored(th)) /\ Stored(th).pc = "drop"
           /\ Bytes(Stored(th)) = Bytes(th) /\ Stored(th).old = th.old
<1> DEFINE d == Stored(th)
<1>1. /\ Fields(d, {"pc", "off", "n", "old", "again"}) /\ d.pc = "drop" /\ d.off = th.off
      /\ d.n = th.n /\ d.old = th.old /\ d.again = th.again
  BY DEF Stored, Fields
<1> HIDE DEF d
<1>2. Bytes(d) = Bytes(th)
  BY <1>1 DEF Bytes
<1>3. WriteShape(d)
  BY <1>1, <1>2 DEF WriteShape
<1>4. ThreadOK(d)
  BY <1>1, <1>3 DEF ThreadOK
<1> QED BY <1>1, <1>2, <1>4 DEF d

(* A buffer is marked up to date: what changes is not sound any more.      *)
LEMMA MarkSafe ==
    ASSUME IoInv, NEW t \in crew, MarkUnread(t)
    PROVE  IoInv'
<1>1. t \in Threads /\ DOMAIN thr = Threads /\ thr[t].pc = "store" /\ WriteShape(thr[t])
  BY WritingFacts DEF IoInv, TypeOK, MarkUnread, Writing
<1>2. /\ ThreadOK(Stored(thr[t])) /\ Stored(thr[t]).pc = "drop"
      /\ Bytes(Stored(thr[t])) = Bytes(thr[t]) /\ Stored(thr[t]).old = thr[t].old
  BY <1>1, StoredShape
<1>3. /\ thr' = [thr EXCEPT ![t] = Stored(thr[t])] /\ ents' = ents /\ crew' = crew /\ spoilt' = spoilt
  BY DEF MarkUnread
<1>4. mangled \subseteq mangled' /\ view' \in [Addr -> Byte] /\ \A a \in Addr : Sound(a)' => view'[a] = view[a]
  <2>1. CASE Block(thr[t].off) \in uptodate
    BY <2>1 DEF MarkUnread, IoInv, TypeOK
  <2>2. CASE Block(thr[t].off) \notin uptodate
    BY <2>2 DEF MarkUnread, Sound
  <2> QED BY <2>1, <2>2
<1> QED BY <1>1, <1>2, <1>3, <1>4, WriterMoves

(* A byte of the device is stored.  What it replaces stays known: to the   *)
(* busy threads, and as the write's own until it has dropped its lines.    *)
LEMMA StoreByteSafe ==
    ASSUME IoInv, NEW t \in crew, StoreByte(t)
    PROVE  IoInv'
<1>0. /\ t \in Threads /\ DOMAIN thr = Threads /\ crew' = crew /\ crew \subseteq Threads
      /\ ents' = ents /\ spoilt' = spoilt /\ mangled' = mangled
      /\ thr[t].pc = "store" /\ WriteShape(thr[t])
  BY WritingFacts DEF IoInv, TypeOK, StoreByte, Writing
<1> DEFINE st(a) == [thr[t] EXCEPT !.left = @ \ {a}, !.old[a] = @ \union {view[a]}]
           told(a, u) == IF Busy(u) /\ a \in DOMAIN thr[u].seen
                         THEN [thr[u] EXCEPT !.seen[a] = @ \union {thr[t].buf[a]}] ELSE thr[u]
<1>1. PICK a \in thr[t].left :
        /\ view' = [view EXCEPT ![a] = thr[t].buf[a]]
        /\ thr' = [u \in Threads |-> IF u = t THEN IF st(a).left = {} THEN Stored(st(a)) ELSE st(a)
                                     ELSE told(a, u)]
  BY DEF StoreByte
<1> DEFINE v == thr[t].buf[a]  th == st(a)
<1>2. /\ Fields(th, {"pc", "off", "n", "left", "buf", "old", "again"}) /\ th.pc = "store"
      /\ th.off = thr[t].off /\ th.n = thr[t].n /\ th.buf = thr[t].buf /\ th.again = thr[t].again
      /\ th.left = thr[t].left \ {a}
      /\ th.old = [thr[t].old EXCEPT ![a] = @ \union {view[a]}]
  BY <1>0 DEF WriteShape, Fields
<1>3. /\ DOMAIN thr' = Threads
      /\ th.left = {} => thr'[t] = Stored(th)
      /\ th.left # {} => thr'[t] = th
      /\ \A u \in Threads : u # t => thr'[u] = told(a, u)
  BY <1>0, <1>1
<1> HIDE DEF th, st
<1>4. /\ Bytes(th) = Bytes(thr[t]) /\ a \in Bytes(thr[t]) /\ a \in Addr /\ v \in Byte /\ WriteShape(th)
      /\ \A b \in Bytes(thr[t]) : thr[t].old[b] \subseteq th.old[b]
      /\ \A b \in Bytes(thr[t]) : th.old[b] \subseteq thr[t].old[b] \union {view[b]}
      /\ view[a] \in th.old[a]
  <2>1. Bytes(th) = Bytes(thr[t]) /\ a \in Bytes(thr[t]) /\ v \in Byte
    BY <1>0, <1>2 DEF Bytes, WriteShape
  <2>2. a \in Addr
    BY <1>0, <2>1, Consts DEF WriteShape, Bytes, Addr
  <2>3. DOMAIN thr[t].old = Bytes(thr[t])
    BY <1>0 DEF WriteShape
  <2>4. /\ DOMAIN th.old = Bytes(thr[t]) /\ th.old[a] = thr[t].old[a] \union {view[a]}
        /\ \A b \in Bytes(thr[t]) : b # a => th.old[b] = thr[t].old[b]
    BY <1>2, <2>1, <2>3
  <2>5. WriteShape(th)
    BY <1>0, <1>2, <2>1, <2>4 DEF WriteShape
  <2> QED BY <2>1, <2>2, <2>4, <2>5
<1> DEFINE new == thr'[t]
<1>5. ThreadOK(new) /\ new.pc \in {"store", "drop"} /\ Bytes(new) = Bytes(thr[t]) /\ new.old = th.old
  <2>1. CASE th.left = {}
    BY <1>3, <1>4, <2>1, StoredShape
  <2>2. CASE th.left # {}
    BY <1>2, <1>3, <1>4, <2>2 DEF ThreadOK
  <2> QED BY <2>1, <2>2
<1> HIDE DEF new
<1>6. /\ view' \in [Addr -> Byte] /\ view'[a] = v
      /\ \A b \in Addr : b # a => view'[b] = view[b]
  <2>1. view \in [Addr -> Byte]
    BY DEF IoInv, TypeOK
  <2> HIDE DEF v
  <2> QED BY <1>1, <1>4, <2>1 DEF v
<1>7. ASSUME NEW u \in Threads, u # t, Busy(u)
      PROVE  /\ thr'[u].pc = thr[u].pc /\ BusyShape(thr[u]) /\ BusyShape(thr'[u])
             /\ Bytes(thr'[u]) = Bytes(thr[u]) /\ thr'[u].lines = thr[u].lines
             /\ thr'[u].all = thr[u].all /\ thr'[u].met = thr[u].met /\ thr'[u].left = thr[u].left
             /\ \A b \in Bytes(thr[u]) : thr[u].seen[b] \subseteq thr'[u].seen[b]
             /\ a \in Bytes(thr[u]) => v \in thr'[u].seen[a]
  <2> DEFINE uh == thr'[u]
  <2>1. u \in crew
    BY <1>7 DEF IoInv, ThreadShape, Idle, Busy
  <2>2. BusyShape(thr[u]) /\ uh = told(a, u) /\ DOMAIN thr[u].seen = Bytes(thr[u])
    BY <1>3, <1>7, <2>1, BusyFacts DEF BusyShape
  <2>3. CASE a \notin Bytes(thr[u])
    BY <2>2, <2>3
  <2>4. CASE a \in Bytes(thr[u])
    <3>1. uh = [thr[u] EXCEPT !.seen[a] = @ \union {v}]
      BY <1>7, <2>2, <2>4
    <3>2. /\ uh.pc = thr[u].pc /\ uh.off = thr[u].off /\ uh.n = thr[u].n /\ uh.then = thr[u].then
          /\ uh.lines = thr[u].lines /\ uh.all = thr[u].all /\ uh.met = thr[u].met
          /\ uh.left = thr[u].left /\ Fields(uh, BusyFields)
          /\ uh.seen = [thr[u].seen EXCEPT ![a] = @ \union {v}]
      BY <2>2, <3>1 DEF BusyShape, Fields, BusyFields
    <3> HIDE DEF uh, v
    <3>3. /\ Bytes(uh) = Bytes(thr[u])
          /\ FirstLine(uh) = FirstLine(thr[u]) /\ LastLine(uh) = LastLine(thr[u])
      BY <3>2 DEF Bytes, FirstLine, LastLine
    <3>4. DOMAIN uh.seen = Bytes(thr[u]) /\ v \in uh.seen[a]
          /\ \A b \in Bytes(thr[u]) : thr[u].seen[b] \subseteq uh.seen[b]
      BY <2>2, <2>4, <3>2
    <3>5. BusyShape(uh)
      BY <2>2, <3>2, <3>3, <3>4 DEF BusyShape
    <3> QED BY <2>2, <3>2, <3>3, <3>4, <3>5 DEF uh, v
  <2> QED BY <2>3, <2>4
<1>8. \A u \in Threads : u # t /\ ~Busy(u) => thr'[u] = thr[u]
  BY <1>3
<1>9. \A u \in Threads : u # t => thr'[u].pc = thr[u].pc
  BY <1>7, <1>8
<1> HIDE DEF told, v
<1>10. /\ \A x \in Slots : Filling(x)' = Filling(x)
       /\ \A x \in Slots : \A u \in Filling(x) : thr'[u].lines = thr[u].lines /\ thr'[u].left = thr[u].left
  <2>1. ASSUME NEW u \in crew
        PROVE  /\ Missing(thr'[u]) <=> Missing(thr[u])
               /\ Missing(thr[u]) => thr'[u].lines = thr[u].lines /\ thr'[u].left = thr[u].left
    <3>1. CASE u = t
      BY <1>0, <1>5, <3>1 DEF Missing, new
    <3>2. CASE u # t
      BY <1>0, <1>7, <1>9, <3>2 DEF Missing, Busy
    <3> QED BY <3>1, <3>2
  <2>2. \A x \in Slots : Filling(x)' = Filling(x)
    BY <1>0, <2>1, FillingKept
  <2> QED BY <2>1, <2>2, FillingFacts
<1>11. /\ Writing' = Writing /\ t \in Writing
       /\ \A d \in Writing : d # t => thr'[d] = thr[d]
  <2>1. \A d \in Writing : d \in Threads /\ ~Busy(d)
    BY WritingFacts
  <2>2. Writing' = Writing /\ t \in Writing
    BY <1>0, <1>5, <1>9 DEF Writing, new
  <2> QED BY <1>8, <2>1, <2>2
<1>12. TypeOK' /\ ThreadShape'
  <2>1. ASSUME NEW u \in Threads, u # t PROVE ThreadOK(thr'[u]) /\ (u \notin crew => thr'[u] = Idle)
    <3>1. ThreadOK(thr[u]) /\ (u \notin crew => thr[u] = Idle /\ ~Busy(u))
      BY DEF IoInv, ThreadShape, Busy, Idle
    <3>2. CASE ~Busy(u)
      BY <1>8, <2>1, <3>1, <3>2
    <3>3. CASE Busy(u)
      BY <1>7, <2>1, <3>1, <3>3 DEF ThreadOK, BusyShape
    <3> QED BY <3>2, <3>3
  <2>2. TypeOK'
    BY <1>0, <1>3, <1>6 DEF IoInv, TypeOK
  <2> QED BY <1>0, <1>5, <2>1, <2>2 DEF ThreadShape, new
<1>13. ASSUME NEW x, NEW b \in Addr, AgeOK(x, b) PROVE AgeOK(x, b)'
  <2>1. CASE x = view[b] /\ b # a
    BY <1>6, <2>1 DEF AgeOK
  <2>2. CASE x = view[b] /\ b = a
    <3>1. a \in Bytes(thr'[t]) /\ x \in thr'[t].old[a] /\ t \in Writing'
      BY <1>4, <1>5, <1>11, <2>2 DEF new
    <3> QED BY <2>2, <3>1 DEF AgeOK
  <2>3. CASE x # view[b]
    <3>1. PICK d \in Writing : b \in Bytes(thr[d]) /\ x \in thr[d].old[b]
      BY <1>13, <2>3 DEF AgeOK
    <3>2. d \in Writing' /\ b \in Bytes(thr'[d]) /\ x \in thr'[d].old[b]
      BY <1>4, <1>5, <1>11, <3>1 DEF new
    <3> QED BY <3>2 DEF AgeOK
  <2> QED BY <2>1, <2>2, <2>3
<1>14. ASSUME NEW x, NEW b \in Addr, AgeOK(x, b)' PROVE AgeOK(x, b) \/ (b = a /\ x = v)
  <2>1. CASE x = view'[b]
    BY <1>6, <2>1 DEF AgeOK
  <2>2. CASE x # view'[b]
    <3>1. PICK d \in Writing : b \in Bytes(thr'[d]) /\ x \in thr'[d].old[b]
      BY <1>11, <1>14, <2>2 DEF AgeOK
    <3>2. b \in Bytes(thr[d]) /\ (x \in thr[d].old[b] \/ x = view[b])
      BY <1>4, <1>5, <1>11, <3>1 DEF new
    <3> QED BY <3>2 DEF AgeOK
  <2> QED BY <2>1, <2>2
<1>15. ASSUME NEW x \in Slots \ spoilt' PROVE SlotOK(x)'
  <2>1. SlotOK(x) /\ ents'[x] = ents[x] /\ mangled \subseteq mangled'
    BY <1>0, <1>15 DEF IoInv
  <2>2. \A b \in Addr : Sound(b)' => \A y : AgeOK(y, b) => AgeOK(y, b)'
    BY <1>13
  <2> QED BY <1>10, <2>1, <2>2, SlotKept
<1>16. ASSUME NEW u \in crew, u # t, Busy(u) PROVE Reader(u)'
  <2>1. u \in Threads /\ BusyShape(thr[u]) /\ Informed(u) /\ (~thr[u].met => Alone(u) /\ Knows(u))
    BY <1>16, BusyFacts
  <2>2. /\ thr'[u].pc = thr[u].pc /\ Bytes(thr'[u]) = Bytes(thr[u]) /\ thr'[u].lines = thr[u].lines
        /\ thr'[u].all = thr[u].all /\ thr'[u].met = thr[u].met /\ thr'[u].left = thr[u].left
        /\ \A b \in Bytes(thr[u]) : thr[u].seen[b] \subseteq thr'[u].seen[b]
        /\ a \in Bytes(thr[u]) => v \in thr'[u].seen[a]
    BY <1>7, <1>16, <2>1
  <2>3. (\A b : Sound(b)' <=> Sound(b)) /\ \A b \in Bytes(thr[u]) : b \in Addr
    BY <1>0, <2>1, BusyLines DEF Sound
  <2>4. Informed(u)'
    <3> SUFFICES ASSUME NEW b \in Bytes(thr[u]), Sound(b), NEW x, AgeOK(x, b)'
                 PROVE  x \in thr'[u].seen[b]
      BY <2>2, <2>3 DEF Informed
    <3>1. CASE AgeOK(x, b)
      BY <2>1, <2>2, <3>1 DEF Informed
    <3>2. CASE b = a /\ x = v
      BY <2>2, <3>2
    <3> QED BY <1>14, <2>3, <3>1, <3>2
  <2>5. Pending(thr'[u]) = Pending(thr[u]) /\ (Missing(thr'[u]) <=> Missing(thr[u]))
    BY <2>2 DEF Pending, Missing
  <2>6. ASSUME ~thr[u].met PROVE Alone(u)'
    <3>1. \A k \in thr[u].all : Slot(k) \in Slots
      BY <2>1, BusyLines
    <3> QED BY <1>10, <2>1, <2>2, <2>5, <2>6, <3>1 DEF Alone, Holds
  <2>7. ASSUME ~thr[u].met PROVE Knows(u)'
    <3> SUFFICES ASSUME NEW b \in Bytes(thr[u]), Sound(b), Has(thr'[u], b)
                 PROVE  ents[Slot(byte_to_line(b))].data[b % LineBytes] \in thr'[u].seen[b]
      BY <1>0, <2>2, <2>3 DEF Knows
    <3>1. Has(thr[u], b)
      BY <2>2, <2>5 DEF Has
    <3>2. ents[Slot(byte_to_line(b))].data[b % LineBytes] \in thr[u].seen[b]
      BY <2>1, <2>7, <3>1 DEF Knows
    <3> QED BY <2>2, <3>2
  <2> QED BY <2>2, <2>4, <2>6, <2>7 DEF Reader
<1>17. \A u \in crew : Reader(u)'
  <2>1. Reader(t)'
    BY <1>5 DEF Reader, Busy, new
  <2>2. ASSUME NEW u \in crew, u # t, ~Busy(u) PROVE Reader(u)'
    BY <1>0, <1>9, <2>2 DEF Reader, Busy
  <2> QED BY <1>16, <2>1, <2>2
<1> QED BY <1>0, <1>12, <1>15, <1>17 DEF IoInv

(* The lines of the write are dropped: what is left in the cache is not    *)
(* as old as that write.                                                   *)
LEMMA DropSafe ==
    ASSUME IoInv, NEW t \in crew, fsl_io_cache_drop_bytes(t)
    PROVE  IoInv'
<1> DEFINE first == byte_to_line(thr[t].off)
           last  == byte_to_line(thr[t].off + thr[t].n + LineBytes - 1)
           new   == Dropped(thr[t])
<1>0. t \in Threads /\ DOMAIN thr = Threads /\ crew' = crew /\ crew \subseteq Threads
  BY DEF IoInv, TypeOK, fsl_io_cache_drop_bytes
<1>1. /\ thr[t].pc = "drop" /\ view' = view /\ spoilt' = spoilt /\ mangled' = mangled
      /\ ents' = [x \in Slots |-> IF ents[x].addr \in first .. last
                                  THEN [ents[x] EXCEPT !.addr = NoLine] ELSE ents[x]]
      /\ DOMAIN thr' = Threads /\ thr'[t] = new /\ \A u \in Threads : u # t => thr'[u] = thr[u]
  BY <1>0 DEF fsl_io_cache_drop_bytes, bufvars
<1>2. WriteShape(thr[t])
  BY <1>0, <1>1 DEF IoInv, ThreadShape, ThreadOK
<1>3. \A a \in Bytes(thr[t]) : a \in Nat /\ byte_to_line(a) \in first .. last
  <2>1. thr[t].off \in Nat /\ thr[t].n \in Nat \ {0}
    BY <1>2, Consts DEF WriteShape, Addr
  <2>2. thr[t].off + thr[t].n + LineBytes - 1 \in Nat
    BY <2>1, Consts
  <2>3. \A a \in Bytes(thr[t]) : a \in Nat /\ thr[t].off <= a /\ a <= thr[t].off + thr[t].n + LineBytes - 1
    BY <2>1, Consts DEF Bytes
  <2>4. \A a \in Bytes(thr[t]) : first <= byte_to_line(a) /\ byte_to_line(a) <= last
    BY <2>1, <2>2, <2>3, LineMonotone
  <2>5. first \in Nat /\ last \in Nat /\ \A a \in Bytes(thr[t]) : byte_to_line(a) \in Nat
    BY <2>1, <2>2, <2>3, LineFacts
  <2> HIDE DEF first, last
  <2> QED BY <2>3, <2>4, <2>5
<1>4. /\ ThreadOK(new) /\ new.pc \in {"idle", "drop"}
      /\ new.pc = "drop" => Bytes(new) = Bytes(thr[t]) /\ \A a \in Bytes(thr[t]) : new.old[a] = {}
  <2>1. CASE thr[t].again
    <3>1. /\ Fields(new, {"pc", "off", "n", "old", "again"}) /\ new.pc = "drop"
          /\ new.off = thr[t].off /\ new.n = thr[t].n /\ new.again = FALSE
          /\ new.old = [a \in Bytes(thr[t]) |-> {}]
      BY <1>1, <1>2, <2>1 DEF Dropped, WriteShape, Fields
    <3> HIDE DEF new
    <3>2. Bytes(new) = Bytes(thr[t])
      BY <3>1 DEF Bytes
    <3>3. WriteShape(new)
      BY <1>2, <3>1, <3>2 DEF WriteShape
    <3> QED BY <3>1, <3>2, <3>3 DEF ThreadOK
  <2>2. CASE ~thr[t].again
    <3>1. new = Idle
      BY <2>2 DEF Dropped
    <3> HIDE DEF new
    <3> QED BY <3>1 DEF ThreadOK, Idle
  <2> QED BY <2>1, <2>2
<1> HIDE DEF first, last, new
<1>5. /\ DOMAIN ents' = Slots
      /\ \A x \in Slots : /\ Fields(ents'[x], {"addr", "data"}) /\ ents'[x].data = ents[x].data
                          /\ ents[x].addr \in first .. last => ents'[x].addr = NoLine
                          /\ ents[x].addr \notin first .. last => ents'[x].addr = ents[x].addr
  BY <1>1 DEF IoInv, TypeOK, Fields
<1>6. /\ \A x \in Slots : Filling(x)' = Filling(x)
      /\ \A x \in Slots : \A u \in Filling(x) : thr'[u] = thr[u]
  <2>1. ~Missing(thr[t]) /\ ~Missing(thr'[t])
    BY <1>1, <1>4 DEF Missing
  <2>2. \A x \in Slots : Filling(x)' = Filling(x)
    BY <1>0, <1>1, <2>1, FillingKept
  <2>3. \A x \in Slots : \A u \in Filling(x) : u \in Threads /\ u # t
    BY <1>0, <2>1 DEF Filling
  <2> QED BY <1>1, <2>2, <2>3
<1>7. /\ \A d \in Writing : d # t => d \in Writing' /\ thr'[d] = thr[d]
      /\ \A d \in Writing' : d # t => d \in Writing /\ thr'[d] = thr[d]
  BY <1>0, <1>1 DEF Writing
<1>8. TypeOK' /\ ThreadShape'
  <2>1. TypeOK'
    BY <1>0, <1>1, <1>5 DEF IoInv, TypeOK
  <2> QED BY <1>0, <1>1, <1>4, <2>1 DEF IoInv, ThreadShape
<1>9. ASSUME NEW x, NEW a PROVE AgeOK(x, a)' => AgeOK(x, a)
  <2> SUFFICES ASSUME x # view[a], NEW d \in Writing', a \in Bytes(thr'[d]), x \in thr'[d].old[a]
               PROVE  AgeOK(x, a)
    BY <1>1 DEF AgeOK
  <2>1. d # t
    BY <1>1, <1>4 DEF Writing
  <2> QED BY <1>7, <2>1 DEF AgeOK
<1>10. ASSUME NEW x \in Slots \ spoilt' PROVE SlotOK(x)'
  <2>1. SlotOK(x)
    BY <1>1, <1>10 DEF IoInv
  <2>2. OneFiller(x)'
    BY <1>5, <1>6, <2>1 DEF SlotOK, OneFiller
  <2>3. Ages(x)'
    <3> SUFFICES ASSUME ents'[x].addr # NoLine, NEW o \in Off, Sound(ents'[x].addr * LineBytes + o),
                        \A u \in Filling(x) : o \notin thr[u].left
                 PROVE  AgeOK(ents[x].data[o], ents[x].addr * LineBytes + o)'
      <4>1. ents'[x].addr # NoLine => ents'[x].addr = ents[x].addr /\ ents'[x].data = ents[x].data
        BY <1>5
      <4>2. \A b : Sound(b)' <=> Sound(b)
        BY <1>1 DEF Sound
      <4> QED BY <1>6, <4>1, <4>2 DEF Ages
    <3> DEFINE v == ents[x].data[o]  a == ents[x].addr * LineBytes + o
    <3>1. /\ ents[x].addr \notin first .. last /\ ents'[x].addr = ents[x].addr
          /\ ents'[x].data = ents[x].data /\ ents[x].addr # NoLine
      BY <1>5
    <3>2. byte_to_line(a) = ents[x].addr
      BY <3>1, ByteOfLine DEF IoInv, TypeOK
    <3>3. AgeOK(v, a) /\ a \notin Bytes(thr[t])
      BY <1>3, <2>1, <3>1, <3>2 DEF SlotOK, Ages
    <3>4. \A vv, aa : vv = v /\ aa = a => AgeOK(vv, aa)'
      BY <1>1, <1>7, <3>3 DEF AgeOK
    <3>5. ents'[x].data[o] = v /\ ents'[x].addr * LineBytes + o = a
      BY <3>1
    <3> QED BY <3>4, <3>5
  <2> QED BY <2>2, <2>3 DEF SlotOK
<1>11. Reader(t)'
  BY <1>1, <1>4 DEF Reader, Busy
<1>12. \A u \in crew : u # t => Reader(u)'
  BY <1>0, <1>1, <1>5, <1>6, <1>9, ReaderKept
<1> QED BY <1>0, <1>8, <1>10, <1>11, <1>12 DEF IoInv

-----------------------------------------------------------------------------
(* The theorem about the cache under several threads. *)

LEMMA IoInit ==
    ASSUME KioInit
    PROVE  IoInv
<1>1. /\ view = [a \in Addr |-> Zero] /\ ents = fsl_io_cache_init /\ crew \in SUBSET Threads
      /\ thr = [t \in Threads |-> Idle] /\ spoilt = {}
  BY DEF KioInit, Blank
<1>2. Zero \in Byte
  BY DEF Zero, Byte
<1>3. Idle.pc = "idle" /\ ThreadOK(Idle)
  BY DEF Idle, ThreadOK
<1>4. /\ DOMAIN ents = Slots
      /\ \A s \in Slots : /\ Fields(ents[s], {"addr", "data"})
                          /\ ents[s].addr = NoLine /\ ents[s].data \in [Off -> Byte]
  BY <1>1, <1>2 DEF fsl_io_cache_init, Fields
<1>5. TypeOK /\ ThreadShape
  BY <1>1, <1>2, <1>3, <1>4 DEF TypeOK, ThreadShape
<1>6. \A t \in crew : thr[t].pc = "idle"
  BY <1>1, <1>3
<1>7. \A s \in Slots \ spoilt : SlotOK(s)
  BY <1>4, <1>6 DEF SlotOK, OneFiller, Ages, Filling, Missing
<1>8. \A t \in crew : Reader(t)
  BY <1>6 DEF Reader, Busy
<1> QED BY <1>5, <1>7, <1>8 DEF IoInv

LEMMA IoStays ==
    ASSUME IoInv, UNCHANGED <<view, ents, thr, crew, spoilt, mangled>>
    PROVE  IoInv'
<1>1. (\A s \in Slots : Filling(s)' = Filling(s)) /\ Writing' = Writing
  BY DEF Filling, Writing
<1>2. \A v, a : AgeOK(v, a)' <=> AgeOK(v, a)
  BY <1>1, AgeSame DEF Bytes
<1>3. \A s \in Slots \ spoilt' : SlotOK(s)'
  BY <1>1, <1>2, SlotKept DEF IoInv
<1>4. \A t \in crew : Reader(t)'
  BY <1>1, <1>2, ReaderKept
<1>5. TypeOK' /\ ThreadShape'
  BY DEF IoInv, TypeOK, ThreadShape
<1> QED BY <1>3, <1>4, <1>5 DEF IoInv

LEMMA WithBitType ==
    ASSUME NEW v \in Byte, NEW bit \in BitPos, NEW val \in {0, 1}
    PROVE  WithBit(v, bit, val) \in Byte
BY DEF WithBit, Byte

(* The write of a bit begins like one of a byte.                           *)
LEMMA WriteBackStores ==
    ASSUME IoInv, NEW t \in crew, NEW bit \in BitPos, NEW val \in {0, 1}, WriteBack(t, bit, val)
    PROVE  \E off \in Addr, buf \in [0 .. 0 -> Byte] :
              thr[t].pc = "rmw" /\ off + 1 <= NBytes /\ Store(t, off, 1, buf, TRUE)
<1>1. thr[t].pc = "rmw" /\ thr[t].off \in Addr /\ thr[t].byte \in Byte
  BY DEF WriteBack, IoInv, TypeOK, ThreadShape, ThreadOK
<1>2. PICK v \in Byte : v = thr[t].byte
  BY <1>1
<1>3. [i \in 0 .. 0 |-> WithBit(v, bit, val)] \in [0 .. 0 -> Byte]
  BY <1>2, WithBitType
<1>4. Store(t, thr[t].off, 1, [i \in 0 .. 0 |-> WithBit(v, bit, val)], TRUE)
  BY <1>2 DEF WriteBack
<1>5. thr[t].off + 1 <= NBytes
  BY <1>1, Consts DEF Addr
<1> QED BY <1>1, <1>3, <1>4, <1>5

(* The steps of the layer, an access being any that fits the assumption.   *)
LEMMA Steps ==
    ASSUME KioNext
    PROVE  \E t \in crew :
              \/ thr[t] = Idle /\ \E off \in Addr, n \in 1 .. LineBytes + 1 : Call(t, off, n)
              \/ \E bit \in BitPos, val \in {0, 1} : WriteBack(t, bit, val)
              \/ fsl_io_cache_find(t) \/ fsl_io_cache_put(t) \/ CopyByte(t) \/ ReadError(t) \/ Join(t)
              \/ StoreByte(t) \/ StoreUnread(t) \/ MarkUnread(t) \/ fsl_io_cache_drop_bytes(t)
<1>1. \A acc \in Accesses : acc[1] \in Addr /\ acc[2] \in 1 .. LineBytes + 1
  BY Consts
<1> QED BY <1>1 DEF KioNext

LEMMA IoStepSafe ==
    ASSUME IoInv, KioNext
    PROVE  IoInv'
<1>1. PICK t \in crew :
        \/ thr[t] = Idle /\ \E off \in Addr, n \in 1 .. LineBytes + 1 : Call(t, off, n)
        \/ \E bit \in BitPos, val \in {0, 1} : WriteBack(t, bit, val)
        \/ fsl_io_cache_find(t) \/ fsl_io_cache_put(t) \/ CopyByte(t) \/ ReadError(t) \/ Join(t)
        \/ StoreByte(t) \/ StoreUnread(t) \/ MarkUnread(t) \/ fsl_io_cache_drop_bytes(t)
  BY Steps
<1>2. ASSUME thr[t] = Idle, NEW off \in Addr, NEW n \in 1 .. LineBytes + 1, Call(t, off, n)
      PROVE  IoInv'
  <2>1. CASE fsl_io_cache_get(t, off, n)
    BY <2>1, BeginSafe DEF fsl_io_cache_get
  <2>2. CASE fsl_io_read_bytes(t, off, n)
    BY <2>2, IoStays DEF fsl_io_read_bytes
  <2>3. CASE n = 1 /\ fsl_io_write_bit(t, off)
    <3>1. 1 \in 1 .. LineBytes + 1
      BY Consts
    <3> QED BY <2>3, <3>1, BeginSafe DEF fsl_io_write_bit
  <2>4. ASSUME NEW buf \in [0 .. n - 1 -> Byte], fsl_io_write(t, off, n, buf) \/ fsl_io_write_bytes(t, off, n, buf)
        PROVE  IoInv'
    <3>1. off + n <= NBytes /\ Store(t, off, n, buf, FALSE)
      BY <2>4 DEF fsl_io_write, fsl_io_write_bytes, InPage
    <3>2. thr[t].pc = "idle" /\ n \in Nat \ {0} /\ FALSE \in BOOLEAN
      BY <1>2, Consts DEF Idle
    <3> QED BY <3>1, <3>2, StoreSafe
  <2> QED BY <1>2, <2>1, <2>2, <2>3, <2>4 DEF Call
<1>3. ASSUME NEW bit \in BitPos, NEW val \in {0, 1}, WriteBack(t, bit, val) PROVE IoInv'
  <2>1. PICK off \in Addr, buf \in [0 .. 0 -> Byte] :
           thr[t].pc = "rmw" /\ off + 1 <= NBytes /\ Store(t, off, 1, buf, TRUE)
    BY <1>3, WriteBackStores
  <2>2. 1 \in Nat \ {0} /\ 0 .. 0 = 0 .. 1 - 1 /\ TRUE \in BOOLEAN
    OBVIOUS
  <2>3. buf \in [0 .. 1 - 1 -> Byte]
    BY <2>2
  <2> QED BY <2>1, <2>2, <2>3, StoreSafe
<1>4. ASSUME fsl_io_cache_find(t) PROVE IoInv'
  BY <1>4, HitSafe, MissSafe
<1>5. ASSUME fsl_io_cache_put(t) \/ CopyByte(t) PROVE IoInv'
  BY <1>5, PutSafe, CopySafe
<1>6. ASSUME ReadError(t) \/ Join(t) PROVE IoInv'
  BY <1>6, ReadErrorSafe, JoinSafe
<1>7. ASSUME StoreByte(t) \/ StoreUnread(t) \/ MarkUnread(t) \/ fsl_io_cache_drop_bytes(t) PROVE IoInv'
  BY <1>7, StoreByteSafe, StoreUnreadSafe, MarkSafe, DropSafe
<1> QED BY <1>1, <1>2, <1>3, <1>4, <1>5, <1>6, <1>7

(* What the invariant says of a read that is complete. *)
LEMMA JoinsRight ==
    ASSUME IoInv
    PROVE  JoinsSeen
<1> SUFFICES ASSUME NEW t \in crew, thr[t].pc = "join", ~thr[t].met, NEW i \in 0 .. thr[t].n - 1,
                    Sound(thr[t].off + i)
             PROVE  Joined(thr[t])[i] \in thr[t].seen[thr[t].off + i]
  BY DEF JoinsSeen
<1>1. Busy(t)
  BY DEF Busy
<1>2. BusyShape(thr[t]) /\ Knows(t)
  BY <1>1, BusyFacts
<1>3. Pending(thr[t]) = {}
  BY <1>2, BusyLines
<1>4. /\ thr[t].off + i \in Bytes(thr[t])
      /\ Joined(thr[t])[i] = ents[Slot(byte_to_line(thr[t].off + i))].data[(thr[t].off + i) % LineBytes]
  BY <1>1, JoinedType
<1> QED BY <1>2, <1>3, <1>4 DEF Knows, Has

LEMMA LinesRight ==
    ASSUME IoInv
    PROVE  LinesCoherent
<1> SUFFICES ASSUME NEW s \in Slots \ spoilt, ents[s].addr # NoLine, Filling(s) = {}, NEW o \in Off,
                    Sound(ents[s].addr * LineBytes + o)
             PROVE  ents[s].data[o] \in Since(ents[s].addr * LineBytes + o)
  BY DEF LinesCoherent
<1>1. AgeOK(ents[s].data[o], ents[s].addr * LineBytes + o)
  BY DEF IoInv, SlotOK, Ages
<1> QED BY <1>1, SinceIsAge

LEMMA IoAlways == Spec => []IoInv
<1>1. Init => IoInv
  BY IoInit DEF Init
<1>2. IoInv /\ [Next]_<<level, kiovars, lifevars>> => IoInv'
  BY IoStepSafe, IoStays DEF Next, LifeStep, IoStep, kiovars, bufvars
<1> QED BY <1>1, <1>2, PTL DEF Spec

(* The kernel's cache, shared without a lock (kernel/mod/cache.c): for     *)
(* every number of threads and every size of cache, line and device, a     *)
(* read that met no other miss in its slots returns values its bytes had   *)
(* while it ran or that an unfinished write has replaced, and so are the   *)
(* lines in the cache unless two misses met in the slot.  Lines and writes *)
(* are copied byte by byte between the steps of other threads.  Bytes of   *)
(* blocks that a write marked up to date after a failed read are left out. *)
THEOREM CacheRegular == Spec => []ReadsRegular
<1>1. IoInv => ReadsRegular
  BY JoinsRight, LinesRight DEF ReadsRegular
<1> QED BY <1>1, IoAlways, PTL

-----------------------------------------------------------------------------
(* One thread alone: the layer is the device. *)

LEMMA RawStutter ==
    ASSUME view' = view, ret' = ret, crew' = crew,
           \A t \in crew : thr'[t].pc = "dead" <=> thr[t].pc = "dead"
    PROVE  UNCHANGED Raw!vars
<1>1. Solo' = Solo
  BY DEF Solo
<1>2. (\A t \in crew : thr'[t].pc # "dead") <=> (\A t \in crew : thr[t].pc # "dead")
  OBVIOUS
<1> QED BY <1>1, <1>2 DEF Raw!vars

LEMMA RawRead ==
    ASSUME NEW t \in Threads, crew = {t}, crew' = crew, view' = view,
           thr[t].pc # "dead", thr'[t].pc # "dead",
           NEW off \in Addr, NEW n \in Nat \ {0}, off + n <= NBytes,
           ret' = [i \in 0 .. n - 1 |-> view[off + i]]
    PROVE  Raw!Next
<1>1. Solo /\ Solo'
  BY DEF Solo
<1>2. off \in Raw!Addr /\ n \in 1 .. NBytes
  BY Consts DEF Addr, Raw!Addr
<1>3. Raw!Read(off, n)
  BY <1>1 DEF Raw!Read
<1> QED BY <1>2, <1>3 DEF Raw!Next

LEMMA RawWrite ==
    ASSUME NEW t \in Threads, crew = {t}, crew' = crew, ret' = ret,
           thr[t].pc # "dead", thr'[t].pc # "dead",
           NEW off \in Addr, NEW n \in Nat \ {0}, off + n <= NBytes,
           view' \in [Addr -> Byte], \A a \in Addr : a \notin off .. off + n - 1 => view'[a] = view[a]
    PROVE  Raw!Next
<1>1. Solo /\ Solo'
  BY DEF Solo
<1>2. off \in Raw!Addr /\ n \in 1 .. NBytes /\ Raw!Addr = Addr
  BY Consts DEF Addr, Raw!Addr
<1>3. Raw!Write(off, n)
  BY <1>1, <1>2 DEF Raw!Write
<1> QED BY <1>2, <1>3 DEF Raw!Next

(* Alone and busy: what a step keeps. *)
LEMMA SoloFacts ==
    ASSUME IoInv, SoloInv, NEW t \in Threads, crew = {t}
    PROVE  /\ t \in crew
           /\ thr[t].pc # "dead" => spoilt = {}
           /\ Busy(t) => /\ BusyShape(thr[t]) /\ ~thr[t].met
                         /\ \A a \in Bytes(thr[t]) : thr[t].seen[a] = {view[a]}
           /\ ~Missing(thr[t]) => \A s : Filling(s) = {}
           /\ thr[t].pc \notin {"store", "drop"} => Writing = {}
<1>1. Solo /\ t \in crew
  BY DEF Solo
<1>2. Busy(t) => BusyShape(thr[t])
  BY <1>1, BusyFacts
<1>3. ~Missing(thr[t]) => \A s : Filling(s) = {}
  BY DEF Filling
<1>4. thr[t].pc \notin {"store", "drop"} => Writing = {}
  BY DEF Writing
<1> QED BY <1>1, <1>2, <1>3, <1>4 DEF SoloInv

(* What has to be shown of a step to keep SoloInv. *)
LEMMA SoloNext ==
    ASSUME NEW t, crew = {t}, crew' = crew,
           thr'[t].pc # "dead" => spoilt' = {},
           Busy(t)' => /\ ~thr'[t].met
                       /\ \A a \in Bytes(thr'[t]) : thr'[t].seen[a] = {view'[a]}
    PROVE  SoloInv'
BY DEF SoloInv

LEMMA SoloBegin ==
    ASSUME IoInv, SoloInv, NEW t \in Threads, crew = {t}, NEW off, NEW n, NEW then,
           Begin(t, off, n, then)
    PROVE  SoloInv' /\ UNCHANGED Raw!vars
<1>1. DOMAIN thr = Threads
  BY DEF IoInv, TypeOK
<1>2. /\ thr[t] = Idle /\ view' = view /\ spoilt' = spoilt /\ ret' = ret /\ crew' = crew
      /\ thr'[t].pc = "probe" /\ thr'[t].off = off /\ thr'[t].n = n /\ thr'[t].met = FALSE
      /\ thr'[t].seen = [a \in off .. off + n - 1 |-> Since(a)]
  BY <1>1 DEF Begin
<1>3. thr[t].pc = "idle"
  BY <1>2 DEF Idle
<1>4. Writing = {} /\ spoilt = {}
  BY <1>3, SoloFacts
<1>5. \A a : Since(a) = {view[a]}
  BY <1>4 DEF Since
<1>6. \A a \in Bytes(thr'[t]) : thr'[t].seen[a] = {view'[a]}
  BY <1>2, <1>5 DEF Bytes
<1>7. SoloInv'
  BY <1>2, <1>4, <1>6, SoloNext
<1> QED BY <1>2, <1>3, <1>7, RawStutter

LEMMA SoloFind ==
    ASSUME IoInv, SoloInv, NEW t \in Threads, crew = {t}, fsl_io_cache_find(t)
    PROVE  SoloInv' /\ UNCHANGED Raw!vars
<1> DEFINE g == Got(thr[t])
<1>1. /\ DOMAIN thr = Threads /\ thr[t].pc = "probe"
      /\ view' = view /\ ret' = ret /\ crew' = crew
  BY DEF IoInv, TypeOK, fsl_io_cache_find
<1>2. /\ spoilt = {} /\ BusyShape(thr[t]) /\ thr[t].met = FALSE
      /\ (\A a \in Bytes(thr[t]) : thr[t].seen[a] = {view[a]}) /\ \A s : Filling(s) = {}
  BY <1>1, SoloFacts DEF Busy, BusyShape, Missing
<1>3. /\ spoilt' = {}
      /\ \/ thr'[t] = [g EXCEPT !.met = @ \/ FALSE]
         \/ thr'[t] = [thr[t] EXCEPT !.pc = "fill", !.left = Off, !.met = @ \/ FALSE]
  BY <1>1, <1>2 DEF fsl_io_cache_find
<1>4. BusyShape(g) /\ g.met = FALSE /\ g.seen = thr[t].seen /\ Bytes(g) = Bytes(thr[t])
  BY <1>1, <1>2, GotShape
<1> HIDE DEF g
<1>5. CASE thr'[t] = [g EXCEPT !.met = @ \/ FALSE]
  <2>1. /\ thr'[t].met = FALSE /\ thr'[t].pc = g.pc /\ thr'[t].off = g.off /\ thr'[t].n = g.n
        /\ thr'[t].seen = thr[t].seen
    BY <1>4, <1>5 DEF BusyShape, Fields, BusyFields
  <2>2. Bytes(thr'[t]) = Bytes(thr[t]) /\ thr'[t].pc # "dead"
    BY <1>4, <2>1 DEF Bytes, BusyShape
  <2>3. \A a \in Bytes(thr'[t]) : thr'[t].seen[a] = {view'[a]}
    BY <1>1, <1>2, <2>1, <2>2
  <2>4. SoloInv'
    BY <1>1, <1>3, <2>1, <2>3, SoloNext
  <2> QED BY <1>1, <2>2, <2>4, RawStutter
<1>6. CASE thr'[t] = [thr[t] EXCEPT !.pc = "fill", !.left = Off, !.met = @ \/ FALSE]
  <2>1. /\ thr'[t].met = FALSE /\ thr'[t].pc = "fill" /\ thr'[t].off = thr[t].off
        /\ thr'[t].n = thr[t].n /\ thr'[t].seen = thr[t].seen
    BY <1>2, <1>6 DEF BusyShape, Fields, BusyFields
  <2>2. Bytes(thr'[t]) = Bytes(thr[t])
    BY <2>1 DEF Bytes
  <2>3. \A a \in Bytes(thr'[t]) : thr'[t].seen[a] = {view'[a]}
    BY <1>1, <1>2, <2>1, <2>2
  <2>4. SoloInv'
    BY <1>1, <1>3, <2>1, <2>3, SoloNext
  <2> QED BY <1>1, <2>1, <2>4, RawStutter
<1> QED BY <1>3, <1>5, <1>6

LEMMA SoloFill ==
    ASSUME IoInv, SoloInv, NEW t \in Threads, crew = {t}, fsl_io_cache_put(t) \/ CopyByte(t)
    PROVE  SoloInv' /\ UNCHANGED Raw!vars
<1>1. /\ DOMAIN thr = Threads /\ thr[t].pc \in {"fill", "copy"}
      /\ view' = view /\ ret' = ret /\ crew' = crew /\ spoilt' = spoilt
  BY DEF IoInv, TypeOK, fsl_io_cache_put, CopyByte
<1>2. /\ spoilt = {} /\ BusyShape(thr[t]) /\ ~thr[t].met
      /\ \A a \in Bytes(thr[t]) : thr[t].seen[a] = {view[a]}
  BY <1>1, SoloFacts DEF Busy
<1>3. \/ thr'[t] = Got(thr[t])
      \/ thr'[t] = [thr[t] EXCEPT !.pc = "copy"]
      \/ \E o : thr'[t] = [thr[t] EXCEPT !.left = @ \ {o}]
  BY <1>1 DEF fsl_io_cache_put, CopyByte
<1>4. /\ thr'[t].met = thr[t].met /\ thr'[t].seen = thr[t].seen /\ Bytes(thr'[t]) = Bytes(thr[t])
      /\ thr'[t].pc # "dead"
  <2>1. CASE thr'[t] = Got(thr[t])
    BY <1>1, <1>2, <2>1, GotShape
  <2>2. ASSUME NEW o, thr'[t] = [thr[t] EXCEPT !.pc = "copy"] \/ thr'[t] = [thr[t] EXCEPT !.left = @ \ {o}]
        PROVE  /\ thr'[t].met = thr[t].met /\ thr'[t].seen = thr[t].seen /\ thr'[t].pc # "dead"
               /\ thr'[t].off = thr[t].off /\ thr'[t].n = thr[t].n
    BY <1>1, <1>2, <2>2 DEF BusyShape, Fields, BusyFields
  <2> QED BY <1>3, <2>1, <2>2 DEF Bytes
<1>5. SoloInv'
  BY <1>1, <1>2, <1>4, SoloNext
<1> QED BY <1>1, <1>4, <1>5, RawStutter

(* The read of a thread alone: the device's bytes, where they are sound.   *)
LEMMA SoloJoin ==
    ASSUME IoInv, SoloInv, NEW t \in Threads, crew = {t}, Join(t)
    PROVE  SoloInv' /\ (Raw!Next \/ UNCHANGED Raw!vars)
<1>1. DOMAIN thr = Threads /\ thr[t].pc = "join" /\ view' = view /\ crew' = crew /\ spoilt' = spoilt
  BY DEF IoInv, TypeOK, Join
<1>2. t \in crew /\ Busy(t) /\ Solo
  BY <1>1 DEF Busy, Solo
<1>3. /\ spoilt = {} /\ BusyShape(thr[t]) /\ ~thr[t].met
      /\ \A a \in Bytes(thr[t]) : thr[t].seen[a] = {view[a]}
  BY <1>1, <1>2, SoloFacts
<1>4. PICK off \in Addr, n \in Nat \ {0} : off = thr[t].off /\ n = thr[t].n /\ off + n <= NBytes
  BY <1>3, Consts DEF BusyShape
<1>5. ASSUME \A a \in DOMAIN thr[t].seen : Sound(a)
      PROVE  Joined(thr[t]) = [i \in 0 .. n - 1 |-> view[off + i]]
  <2>1. \A i \in 0 .. n - 1 : Joined(thr[t])[i] = view[off + i]
    <3> SUFFICES ASSUME NEW i \in 0 .. n - 1 PROVE Joined(thr[t])[i] = view[off + i]
      OBVIOUS
    <3>1. JoinsSeen
      BY JoinsRight
    <3>2. off + i \in Bytes(thr[t]) /\ DOMAIN thr[t].seen = Bytes(thr[t])
      BY <1>2, <1>3, <1>4, JoinedType DEF BusyShape
    <3>3. Joined(thr[t])[i] \in thr[t].seen[off + i]
      BY <1>1, <1>2, <1>3, <1>4, <1>5, <3>1, <3>2 DEF JoinsSeen
    <3> QED BY <1>3, <3>2, <3>3
  <2>2. Joined(thr[t]) = [i \in 0 .. n - 1 |-> Joined(thr[t])[i]]
    BY <1>4 DEF Joined
  <2> QED BY <2>1, <2>2
<1>6. thr'[t].pc \in {"idle", "rmw"}
  BY <1>1 DEF Join, Idle
<1>7. SoloInv'
  BY <1>1, <1>3, <1>6, SoloNext DEF Busy
<1>8. CASE thr[t].then = "read" /\ \A a \in DOMAIN thr[t].seen : Sound(a)
  <2>1. ret' = [i \in 0 .. n - 1 |-> view[off + i]]
    BY <1>2, <1>5, <1>8 DEF Join, Answer
  <2>2. Raw!Next
    BY <1>1, <1>4, <1>6, <2>1, RawRead
  <2> QED BY <1>7, <2>2
<1>9. CASE thr[t].then # "read" \/ ~(\A a \in DOMAIN thr[t].seen : Sound(a))
  <2>1. ret' = ret
    BY <1>9 DEF Join, Answer
  <2>2. UNCHANGED Raw!vars
    BY <1>1, <1>6, <2>1, RawStutter
  <2> QED BY <1>7, <2>2
<1> QED BY <1>8, <1>9

LEMMA SoloStore ==
    ASSUME IoInv, SoloInv, NEW t \in Threads, crew = {t}, thr[t].pc \in {"idle", "rmw"},
           NEW off, NEW n, NEW buf, NEW again, Store(t, off, n, buf, again)
    PROVE  SoloInv' /\ UNCHANGED Raw!vars
<1>1. /\ DOMAIN thr = Threads /\ view' = view /\ ret' = ret /\ crew' = crew /\ spoilt' = spoilt
      /\ thr'[t].pc = "store"
  BY DEF IoInv, TypeOK, Store
<1>2. spoilt = {}
  BY SoloFacts
<1>3. SoloInv'
  BY <1>1, <1>2, SoloNext DEF Busy
<1> QED BY <1>1, <1>3, RawStutter

(* A byte at a time changes, or a block that was marked without being read.*)
LEMMA SoloWrite ==
    ASSUME IoInv, SoloInv, NEW t \in Threads, crew = {t}, StoreByte(t) \/ StoreUnread(t) \/ MarkUnread(t)
    PROVE  SoloInv' /\ (Raw!Next \/ UNCHANGED Raw!vars)
<1>1. /\ DOMAIN thr = Threads /\ ret' = ret /\ crew' = crew /\ spoilt' = spoilt /\ thr[t].pc = "store"
  BY DEF IoInv, TypeOK, StoreByte, StoreUnread, MarkUnread
<1>2. thr'[t].pc \in {"store", "drop"}
  <2>1. CASE StoreByte(t)
    <3> DEFINE st(a) == [thr[t] EXCEPT !.left = @ \ {a}, !.old[a] = @ \union {view[a]}]
    <3>1. PICK a \in thr[t].left : thr'[t] = IF st(a).left = {} THEN Stored(st(a)) ELSE st(a)
      BY <1>1, <2>1 DEF StoreByte
    <3>2. WriteShape(thr[t])
      BY <1>1, WritingFacts DEF Writing
    <3>3. st(a).pc = "store"
      BY <1>1, <3>2 DEF WriteShape, Fields
    <3> HIDE DEF st
    <3> QED BY <3>1, <3>3 DEF Stored
  <2>2. CASE StoreUnread(t)
    <3>1. WriteShape(thr[t])
      BY <1>1, WritingFacts DEF Writing
    <3> QED BY <1>1, <2>2, <3>1 DEF StoreUnread, WriteShape, Fields
  <2>3. CASE MarkUnread(t)
    BY <1>1, <2>3 DEF MarkUnread, Stored
  <2> QED BY <2>1, <2>2, <2>3
<1>3. spoilt = {}
  BY <1>1, SoloFacts
<1>4. SoloInv'
  BY <1>1, <1>2, <1>3, SoloNext DEF Busy
<1>5. CASE view' = view
  BY <1>1, <1>2, <1>4, <1>5, RawStutter
<1>6. CASE view' # view
  <2>1. view' \in [Addr -> Byte]
    <3>1. TypeOK'
      BY <1>6, StoreByteSafe, StoreUnreadSafe, MarkSafe DEF IoInv
    <3> QED BY <3>1 DEF TypeOK
  <2>2. 0 \in Addr /\ NBytes \in Nat \ {0} /\ 0 + NBytes <= NBytes /\ \A a \in Addr : a \in 0 .. 0 + NBytes - 1
    BY Consts DEF Addr
  <2>3. Raw!Next
    BY <1>1, <1>2, <2>1, <2>2, RawWrite
  <2> QED BY <1>4, <2>3
<1> QED BY <1>5, <1>6

LEMMA SoloLeave ==
    ASSUME IoInv, SoloInv, NEW t \in Threads, crew = {t}, ReadError(t) \/ fsl_io_cache_drop_bytes(t)
    PROVE  SoloInv' /\ (Raw!Next \/ UNCHANGED Raw!vars)
<1>0. DOMAIN thr = Threads
  BY DEF IoInv, TypeOK
<1>1. CASE ReadError(t)
  <2>1. /\ thr[t].pc = "fill" /\ thr'[t].pc = "dead" /\ view' = view /\ ret' = ret /\ crew' = crew
    BY <1>0, <1>1 DEF ReadError
  <2>2. SoloInv'
    BY <2>1, SoloNext DEF Busy
  <2>3. Solo /\ Solo'
    BY <2>1 DEF Solo
  <2>4. Raw!Fail
    BY <2>1, <2>3 DEF Raw!Fail
  <2> QED BY <2>2, <2>4 DEF Raw!Next
<1>2. CASE fsl_io_cache_drop_bytes(t)
  <2>1. /\ thr[t].pc = "drop" /\ thr'[t].pc \in {"idle", "drop"} /\ view' = view /\ ret' = ret
        /\ crew' = crew /\ spoilt' = spoilt
    <3>1. /\ thr[t].pc = "drop" /\ thr'[t] = Dropped(thr[t]) /\ view' = view /\ ret' = ret
          /\ crew' = crew /\ spoilt' = spoilt
      BY <1>0, <1>2 DEF fsl_io_cache_drop_bytes
    <3>2. WriteShape(thr[t])
      BY <3>1, WritingFacts DEF Writing
    <3> QED BY <3>1, <3>2 DEF Dropped, Idle, WriteShape, Fields
  <2>2. SoloInv'
    BY <2>1, SoloNext, SoloFacts DEF Busy
  <2> QED BY <2>1, <2>2, RawStutter
<1> QED BY <1>1, <1>2

LEMMA SoloStep ==
    ASSUME IoInv, SoloInv, NEW t \in Threads, crew = {t}, KioNext
    PROVE  SoloInv' /\ (Raw!Next \/ UNCHANGED Raw!vars)
<1> DEFINE Goal == SoloInv' /\ (Raw!Next \/ UNCHANGED Raw!vars)
<1>1. \/ thr[t] = Idle /\ \E off \in Addr, n \in 1 .. LineBytes + 1 : Call(t, off, n)
      \/ \E bit \in BitPos, val \in {0, 1} : WriteBack(t, bit, val)
      \/ fsl_io_cache_find(t) \/ fsl_io_cache_put(t) \/ CopyByte(t) \/ ReadError(t) \/ Join(t)
      \/ StoreByte(t) \/ StoreUnread(t) \/ MarkUnread(t) \/ fsl_io_cache_drop_bytes(t)
  BY Steps
<1>2. ASSUME thr[t] = Idle, NEW off \in Addr, NEW n \in 1 .. LineBytes + 1, Call(t, off, n)
      PROVE  Goal
  <2>0. thr[t].pc = "idle" /\ n \in Nat \ {0}
    BY <1>2, Consts DEF Idle
  <2>1. CASE fsl_io_cache_get(t, off, n)
    BY <2>1, SoloBegin DEF fsl_io_cache_get
  <2>2. CASE fsl_io_read_bytes(t, off, n)
    <3>1. /\ off + n <= NBytes /\ view' = view /\ thr' = thr /\ crew' = crew /\ spoilt' = spoilt
      BY <2>2 DEF fsl_io_read_bytes, InPage
    <3>2. Solo
      BY DEF Solo
    <3>3. ret' = [i \in 0 .. n - 1 |-> view[off + i]] \/ ret' = ret
      BY <2>2, <3>2 DEF fsl_io_read_bytes, Answer
    <3>4. SoloInv'
      BY <2>0, <3>1, SoloFacts, SoloNext DEF Busy
    <3>5. CASE ret' = [i \in 0 .. n - 1 |-> view[off + i]]
      <4>1. Raw!Next
        BY <2>0, <3>1, <3>5, RawRead
      <4> QED BY <3>4, <4>1
    <3>6. CASE ret' = ret
      <4>1. UNCHANGED Raw!vars
        BY <3>1, <3>6, RawStutter
      <4> QED BY <3>4, <4>1
    <3> QED BY <3>3, <3>5, <3>6
  <2>3. CASE fsl_io_write_bit(t, off)
    BY <2>3, SoloBegin DEF fsl_io_write_bit
  <2>4. ASSUME NEW buf, fsl_io_write(t, off, n, buf) \/ fsl_io_write_bytes(t, off, n, buf) PROVE Goal
    BY <2>0, <2>4, SoloStore DEF fsl_io_write, fsl_io_write_bytes
  <2> HIDE DEF Goal
  <2> QED BY <1>2, <2>1, <2>2, <2>3, <2>4 DEF Call
<1>3. ASSUME NEW bit \in BitPos, NEW val \in {0, 1}, WriteBack(t, bit, val) PROVE Goal
  BY <1>3, SoloStore DEF WriteBack
<1>4. ASSUME fsl_io_cache_find(t) PROVE Goal
  BY <1>4, SoloFind
<1>5. ASSUME fsl_io_cache_put(t) \/ CopyByte(t) PROVE Goal
  BY <1>5, SoloFill
<1>6. ASSUME Join(t) PROVE Goal
  BY <1>6, SoloJoin
<1>7. ASSUME StoreByte(t) \/ StoreUnread(t) \/ MarkUnread(t) PROVE Goal
  BY <1>7, SoloWrite
<1>8. ASSUME ReadError(t) \/ fsl_io_cache_drop_bytes(t) PROVE Goal
  BY <1>8, SoloLeave
<1> HIDE DEF Goal
<1>9. Goal
  BY <1>1, <1>2, <1>3, <1>4, <1>5, <1>6, <1>7, <1>8
<1> QED BY <1>9 DEF Goal

(* Several threads: the mapped device does not move. *)
LEMMA CrowdStep ==
    ASSUME ~Solo, KioNext
    PROVE  SoloInv' /\ UNCHANGED Raw!vars
<1>1. ret' = ret /\ crew' = crew
  <2> DEFINE Kept == ret' = ret /\ crew' = crew
  <2>1. \A t, off, n, then : Begin(t, off, n, then) => Kept
    BY DEF Begin
  <2>2. \A t, off, n, buf, again : Store(t, off, n, buf, again) => Kept
    BY DEF Store
  <2>3. \A t, off, n : fsl_io_read_bytes(t, off, n) => Kept
    BY DEF fsl_io_read_bytes, Answer
  <2>4. \A t : fsl_io_cache_find(t) \/ fsl_io_cache_put(t) \/ CopyByte(t) => Kept
    BY DEF fsl_io_cache_find, fsl_io_cache_put, CopyByte
  <2>5. \A t : ReadError(t) \/ fsl_io_cache_drop_bytes(t) => Kept
    BY DEF ReadError, fsl_io_cache_drop_bytes
  <2>6. \A t : Join(t) => Kept
    BY DEF Join, Answer
  <2>7. \A t : StoreByte(t) \/ StoreUnread(t) \/ MarkUnread(t) => Kept
    BY DEF StoreByte, StoreUnread, MarkUnread
  <2> HIDE DEF Kept
  <2>8. Kept
    BY <2>1, <2>2, <2>3, <2>4, <2>5, <2>6, <2>7
       DEF KioNext, Call, fsl_io_cache_get, fsl_io_write, fsl_io_write_bytes, fsl_io_write_bit, WriteBack
  <2> QED BY <2>8 DEF Kept
<1>2. ~Solo'
  BY <1>1 DEF Solo
<1> QED BY <1>1, <1>2 DEF SoloInv, Raw!vars, Blank

LEMMA SoloStays ==
    ASSUME SoloInv, UNCHANGED kiovars
    PROVE  SoloInv' /\ UNCHANGED Raw!vars
<1>1. SoloInv'
  BY DEF kiovars, SoloInv, Solo, Busy, Bytes
<1> QED BY <1>1, RawStutter DEF kiovars, bufvars

(* With one thread in it the kernel's I/O layer (kernel/mod/io.c) is a     *)
(* device without a cache, for every size of cache, line and device: a     *)
(* read that sleeps between two lines looks atomic and returns no stale    *)
(* line, whatever was written and dropped before it.  Left out are answers *)
(* after a failed read the code does not look at, and of blocks that a     *)
(* write marked up to date after one.                                      *)
THEOREM SoloRefinement == Spec => Implements
<1>1. Init => SoloInv /\ Raw!Init
  <2> SUFFICES ASSUME Init PROVE SoloInv /\ Raw!Init
    OBVIOUS
  <2>1. /\ view = [a \in Addr |-> Zero] /\ crew \in SUBSET Threads
        /\ thr = [t \in Threads |-> Idle] /\ ret = NoBytes /\ spoilt = {}
    BY DEF Init, KioInit, Blank
  <2>2. \A t \in crew : thr[t].pc = "idle"
    BY <2>1 DEF Idle
  <2>3. Zero \in Byte
    BY DEF Zero, Byte
  <2>4. SoloInv
    BY <2>1, <2>2 DEF SoloInv, Busy
  <2>5. Raw!Init
    BY <2>1, <2>2, <2>3 DEF Raw!Init, Raw!Addr, Addr, NoBytes, Blank
  <2> QED BY <2>4, <2>5
<1>2. IoInv /\ SoloInv /\ [Next]_<<level, kiovars, lifevars>> => SoloInv' /\ [Raw!Next]_(Raw!vars)
  <2> SUFFICES ASSUME IoInv, SoloInv, [Next]_<<level, kiovars, lifevars>>
               PROVE  SoloInv' /\ (Raw!Next \/ UNCHANGED Raw!vars)
    OBVIOUS
  <2>1. CASE KioNext /\ ~Solo
    BY <2>1, CrowdStep
  <2>2. CASE KioNext /\ Solo
    BY <2>2, SoloStep DEF Solo
  <2>3. CASE UNCHANGED kiovars
    BY <2>3, SoloStays
  <2> QED BY <2>1, <2>2, <2>3 DEF Next, LifeStep, IoStep
<1> QED BY <1>1, <1>2, IoAlways, PTL DEF Spec, Implements, Raw!Spec
=============================================================================
