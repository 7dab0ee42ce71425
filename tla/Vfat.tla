-------------------------------- MODULE Vfat --------------------------------
(***************************************************************************)
(* The FAT description (fs/vfat*.fsl): the relocation of a cluster of a    *)
(* file or directory, and the repairs of fsck.                             *)
(*                                                                         *)
(* The device is FatCount copies of the table, the root directory and the  *)
(* clusters.  An entry of a directory is [k, nm, cn, sz]: its kind, its    *)
(* name, its first cluster and its size.  A cluster is a function from     *)
(* slots to entries; one with data has the entry Data(nm, i) in each slot, *)
(* for the i-th cluster of file nm.  Cluster numbers are those of FAT16,   *)
(* whose high halves are 0.                                                *)
(*                                                                         *)
(* wpkt_relocate goes through its steps as in Relocate: one write of a log *)
(* at a time, and a kill between any two; the copy is one step, as nothing *)
(* refers to its destination yet.                                          *)
(***************************************************************************)
EXTENDS Integers, Sequences, FiniteSets, SequencesExt

CONSTANTS
    NClus,          \* get_cluster_count()
    FatCount,       \* d_bpb.fat_count
    DeC,            \* de_per_cluster()
    RootC,          \* d_bpb.root_de_c
    Bpc,            \* bytes_per_cluster()
    LogEntries,     \* IO_MAX_ACCESS
    Volumes,        \* the file systems to begin with: [fat, root, blk, hurt, want]
    MaxMoves, MaxStops      \* bounds: relocations, kills and aborts

VARIABLES
    fats,           \* fats[n][c].cluster_num
    root,           \* root_dir
    blk,            \* clusters
    pc, de, at, new,\* wpkt_relocate: where it stands, the entry, position, choice
    log, replace,   \* the log under commit and the stolen one
    want,           \* the names and sizes there were
    hurt,           \* a file was damaged, or a kill cut a chain
    moves, stops

vfv == <<fats, root, blk, pc, de, at, new, log, replace, want, hurt, moves, stops>>

FAT_ENT_FREE  == 0
FAT_START_ENT == 2
FatMax == NClus + 4                 \* FAT16_MAX, 0xfff4
Bad    == FatMax + 3                \* BAD_FAT16, 0xfff7
Eof    == FatMax + 11               \* EOF_FAT16, 0xffff

Cells   == 0 .. NClus + 1           \* the table, with its two reserved entries
Clus    == FAT_START_ENT .. NClus + 1
Offered == FAT_START_ENT .. NClus   \* the last cluster is never offered
SlotsOf == 0 .. DeC - 1

Data(nm, i) == [k |-> "data", nm |-> nm, cn |-> i, sz |-> 0]
Idle == {"idle", "clean"}

(* A volume, and the one a reader finds: the first copy of the table. *)
Vol == [fat |-> fats[0], root |-> root, blk |-> blk]

(* An entry by its place: a slot of the root directory or of a cluster. *)
EntOf(v, a) == IF a[1] = 0 THEN v.root[a[2]] ELSE v.blk[a[1]][a[2]]
Ent(a) == EntOf(Vol, a)

-----------------------------------------------------------------------------
is_valid_cnum(c) == c >= FAT_START_ENT /\ c <= FatMax
is_de_dir(e)     == e.k \in {"dir", "deldir", "dot", "dotdot"}
is_good_dir(e)   == e.k \in {"dir", "deldir"}        \* deleted ones too

(* Behind the entries of the clusters the table is 0 up to its sector.     *)
fat_next(c) == IF c \in Cells THEN fats[0][c] ELSE 0
is_cluster_avail(c) == fat_next(c) = FAT_ENT_FREE

(* Counts down while i > 1: 0 and 1 are both the first cluster. *)
fat_chain_nth_cnum(c, i) ==
    LET w[k \in 0 .. i] == IF k <= 1 THEN c ELSE LET p == w[k - 1] IN IF p = Eof THEN Eof ELSE fat_next(p)
    IN  w[i]

get_nth_cnum(e, i) == fat_chain_nth_cnum(e.cn, i)

fat_chain_count(c) ==
    LET w[k \in 1 .. NClus + 1] ==
            IF k = 1 THEN c ELSE LET p == w[k - 1] IN IF is_valid_cnum(p) THEN fat_next(p) ELSE p
    IN  Cardinality({k \in 1 .. NClus + 1 : is_valid_cnum(w[k])})

file_cluster_count(e) == (e.sz + Bpc - 1) \div Bpc
de_cluster_count(e)  == IF is_de_dir(e) THEN fat_chain_count(e.cn) ELSE file_cluster_count(e)
de_children_count(e) == de_cluster_count(e) * DeC
get_nth_de(e, n)     == <<get_nth_cnum(e, n \div DeC), n % DeC>>

FirstSlot(S, none) == IF S = {} THEN none ELSE CHOOSE s \in S : \A t \in S : s <= t
find_dot_de(c) == <<c, FirstSlot({s \in SlotsOf : blk[c][s].k = "dot"}, 0)>>

find_dotdot_de(a) ==
    LET S == {i \in SlotsOf : Ent(get_nth_de(Ent(a), i)).k = "dotdot"}
    IN  IF S = {} THEN a ELSE get_nth_de(Ent(a), FirstSlot(S, 0))

-----------------------------------------------------------------------------
(* The write packets: the writes they put into the log. *)

Write(op, where, val) == [op |-> op, where |-> where, val |-> val]

write_fat(c, v) == [n \in 1 .. FatCount |-> Write("fat", <<n - 1, c>>, v)]

block_alloc(c)   == write_fat(c, Bad)

block_replace(c) == write_fat(c, FAT_ENT_FREE)

write_de_cn(a, c) == << Write("lo", a, c), Write("hi", a, 0) >>

write_fix_dotdot_n(a, c) ==
    LET kid(n) == get_nth_de(Ent(a), n)
        fix(n) == IF is_good_dir(Ent(kid(n))) THEN write_de_cn(find_dotdot_de(kid(n)), c) ELSE <<>>
    IN  FlattenSeq([n \in 1 .. de_children_count(Ent(a)) |-> fix(n - 1)])

\* Mutant: '.' is left as it is.
MutFixRefs(a, c) == write_fix_dotdot_n(a, c)

write_fix_dir_refs(a, c) == write_de_cn(find_dot_de(c), c) \o write_fix_dotdot_n(a, c)

block_rel_update_de(a, c) ==
    write_de_cn(a, c) \o IF is_good_dir(Ent(a)) THEN write_fix_dir_refs(a, c) ELSE <<>>

\* Mutant: the new cluster is linked to the old one.
MutRelink(a, i, c) ==
    (IF i = 1 THEN block_rel_update_de(a, c) ELSE write_fat(get_nth_cnum(Ent(a), i - 1), c))
    \o write_fat(c, get_nth_cnum(Ent(a), i))

block_relink(a, i, c) ==
    (IF i = 1 THEN block_rel_update_de(a, c) ELSE write_fat(get_nth_cnum(Ent(a), i - 1), c))
    \o write_fat(c, get_nth_cnum(Ent(a), i + 1))

Apply(w) ==
    /\ fats' = IF w.op = "fat" THEN [fats EXCEPT ![w.where[1]][w.where[2]] = w.val] ELSE fats
    /\ root' = IF w.op = "lo" /\ w.where[1] = 0
               THEN [root EXCEPT ![w.where[2]].cn = w.val] ELSE root
    /\ blk' = IF w.op = "lo" /\ w.where[1] # 0
              THEN [blk EXCEPT ![w.where[1]][w.where[2]].cn = w.val] ELSE blk

-----------------------------------------------------------------------------
(* What a reader finds on a volume. *)

ChainOf(t, c) ==
    LET w[k \in 1 .. NClus + 1] ==
            IF k = 1 THEN c ELSE LET p == w[k - 1] IN IF p \in Clus THEN t[p] ELSE p
    IN  [k \in 1 .. Cardinality({k \in 1 .. NClus + 1 : w[k] \in Clus}) |-> w[k]]
ClustersOf(v, a) == ChainOf(v.fat, EntOf(v, a).cn)

NamedOf(v, A)  == {a \in A : EntOf(v, a).k \in {"file", "dir"}}
InsideOf(v, A) == UNION {ToSet(ClustersOf(v, a)) \X SlotsOf : a \in {a \in A : EntOf(v, a).k = "dir"}}
LiveOf(v) ==
    LET top == NamedOf(v, {0} \X (0 .. RootC - 1))
        mid == NamedOf(v, InsideOf(v, top))
    IN  top \cup mid \cup NamedOf(v, InsideOf(v, mid))

(* Every chain is as long as the size says. *)
SoundOf(v) ==
    \A a \in LiveOf(v) : LET ch == ClustersOf(v, a) IN
        /\ ch # <<>> /\ v.fat[Last(ch)] = Eof
        /\ EntOf(v, a).k = "file" => Len(ch) = file_cluster_count(EntOf(v, a))

(* The clusters of a file hold its data in order, and no cluster belongs   *)
(* to two files or is offered as free.                                     *)
InOrder(v) ==
    \A a \in LiveOf(v) : EntOf(v, a).k = "file" =>
        LET ch == ClustersOf(v, a) IN
        \A i \in DOMAIN ch, s \in SlotsOf : v.blk[ch[i]][s] = Data(EntOf(v, a).nm, i)
Unshared(v) ==
    \A a, b \in LiveOf(v) :
        LET A == ToSet(ClustersOf(v, a)) IN
        /\ \A c \in A : v.fat[c] # FAT_ENT_FREE
        /\ a # b => A \cap ToSet(ClustersOf(v, b)) = {}
(* A directory begins with '.' and '..'. *)
Dotted(v) ==
    \A a \in LiveOf(v) : EntOf(v, a).k = "dir" =>
        LET ch == ClustersOf(v, a) IN
        ch # <<>> => v.blk[ch[1]][0].k = "dot" /\ v.blk[ch[1]][1].k = "dotdot"

(* No entry names more bytes than its chain has. *)
Fits(v) == \A a \in LiveOf(v) : EntOf(v, a).sz <= Bpc * Len(ClustersOf(v, a))

NamesOf(v) == {<<EntOf(v, a).nm, EntOf(v, a).sz>> : a \in LiveOf(v)}
Wanted(w)  == {<<nm, w[nm]>> : nm \in DOMAIN w}

Chain(n, c) == ChainOf(fats[n], c)
Live        == LiveOf(Vol)
SoundVolume == SoundOf(Vol)

(* What a volume of this geometry may be: any numbers, any entries. *)
IsEntry(e) ==
    /\ e = [k |-> e.k, nm |-> e.nm, cn |-> e.cn, sz |-> e.sz]
    /\ e.cn \in 0 .. Eof /\ e.sz \in Nat
HasShape(v) ==
    /\ v.fat \in [Cells -> 0 .. Eof]
    /\ v.root = [s \in 0 .. RootC - 1 |-> v.root[s]]
    /\ \A s \in 0 .. RootC - 1 : IsEntry(v.root[s])
    /\ v.blk = [c \in Clus |-> [s \in SlotsOf |-> v.blk[c][s]]]
    /\ \A c \in Clus, s \in SlotsOf : IsEntry(v.blk[c][s])
IsVolume(v) == HasShape(v) /\ v.hurt \in BOOLEAN

VfatInit ==
    /\ \E v \in Volumes :
          /\ fats = [n \in 0 .. FatCount - 1 |-> v.fat]
          /\ root = v.root /\ blk = v.blk /\ hurt = v.hurt /\ want = v.want
    /\ pc = "idle" /\ de = <<0, 0>> /\ at = 0 /\ new = 0
    /\ log = <<>> /\ replace = <<>> /\ moves = 0 /\ stops = 0

(* A tool relocates on a sound file system. *)
Begin(a, i, c) ==
    /\ pc \in Idle /\ moves < MaxMoves /\ moves' = moves + 1
    /\ is_cluster_avail(c) /\ i <= de_cluster_count(Ent(a))
    /\ de' = a /\ at' = i /\ new' = c
    /\ log' = block_alloc(c) /\ pc' = "alloc"
    /\ UNCHANGED <<fats, root, blk, replace, want, hurt, stops>>

Commit ==
    /\ log # <<>>
    /\ Apply(Head(log)) /\ log' = Tail(log)
    /\ UNCHANGED <<pc, de, at, new, replace, want, hurt, moves, stops>>

typeinfo_phys_copy ==
    /\ pc = "alloc" /\ log = <<>>
    /\ blk' = [blk EXCEPT ![new] = blk[get_nth_cnum(Ent(de), at)]]
    /\ pc' = "copied"
    /\ UNCHANGED <<fats, root, de, at, new, log, replace, want, hurt, moves, stops>>

(* Both packets see the values of before the relink. *)
Link ==
    /\ pc = "copied" /\ Len(block_relink(de, at, new)) <= LogEntries
    /\ replace' = block_replace(get_nth_cnum(Ent(de), at))
    /\ log' = block_relink(de, at, new)
    /\ pc' = "relink"
    /\ UNCHANGED <<fats, root, blk, de, at, new, want, hurt, moves, stops>>

Rest(p) == pc' = p /\ log' = <<>> /\ replace' = <<>> /\ de' = <<0, 0>> /\ at' = 0 /\ new' = 0

(* More writes than the log holds: the assertion of fsl_wlog_add fails. *)
LinkAborts ==
    /\ pc = "copied" /\ Len(block_relink(de, at, new)) > LogEntries
    /\ Rest("idle") /\ stops' = stops + 1
    /\ UNCHANGED <<fats, root, blk, want, hurt, moves>>

CommitReplace ==
    /\ pc = "relink" /\ log = <<>>
    /\ log' = replace /\ replace' = <<>> /\ pc' = "replace"
    /\ UNCHANGED <<fats, root, blk, de, at, new, want, hurt, moves, stops>>

Return ==
    /\ pc = "replace" /\ log = <<>> /\ Rest("idle")
    /\ UNCHANGED <<fats, root, blk, want, hurt, moves, stops>>

-----------------------------------------------------------------------------
(* fsck: every entry of every copy of the table, in order, then the        *)
(* directory entries; each repair is a packet of one write.                *)

\* Mutant: the first number behind the table passes.
MutBadRange(v) == v = 1 \/ (v > NClus + FAT_START_ENT /\ v < FatMax)

cluster_bad_range(v) == v = 1 \/ (v >= NClus + FAT_START_ENT /\ v < FatMax)

get_max_bytes(e) == fat_chain_count(e.cn) * Bpc

FsckBegin ==
    /\ pc \in Idle /\ pc' = "fats"
    /\ UNCHANGED <<fats, root, blk, de, at, new, log, replace, want, hurt, moves, stops>>

BadCells == {x \in (0 .. FatCount - 1) \X Cells : cluster_bad_range(fats[x[1]][x[2]])}
repair_fat16_bad_range ==
    /\ pc = "fats" /\ BadCells # {}
    /\ LET x == CHOOSE x \in BadCells : \A y \in BadCells : x[1] < y[1] \/ (x[1] = y[1] /\ x[2] <= y[2])
       IN  Apply(Write("fat", x, Eof))
    /\ UNCHANGED <<pc, de, at, new, log, replace, want, hurt, moves, stops>>

FatsDone ==
    /\ pc = "fats" /\ BadCells = {} /\ pc' = "entries"
    /\ UNCHANGED <<fats, root, blk, de, at, new, log, replace, want, hurt, moves, stops>>

TooLong == {a \in Live : get_max_bytes(Ent(a)) < Ent(a).sz}
repair_trunc_file ==
    /\ pc = "entries"
    /\ \E a \in TooLong : LET sz == get_max_bytes(Ent(a)) IN
          /\ root' = IF a[1] = 0 THEN [root EXCEPT ![a[2]].sz = sz] ELSE root
          /\ blk' = IF a[1] # 0 THEN [blk EXCEPT ![a[1]][a[2]].sz = sz] ELSE blk
    /\ UNCHANGED <<fats, pc, de, at, new, log, replace, want, hurt, moves, stops>>

EntriesDone ==
    /\ pc = "entries" /\ TooLong = {} /\ Rest("clean")
    /\ UNCHANGED <<fats, root, blk, want, hurt, moves, stops>>

(* The process is killed.  hurt remembers a kill after the pointer to the  *)
(* new cluster was written and before its own entry, which says "bad".     *)
Cut ==
    /\ pc = "relink" /\ fats[0][new] = Bad
    /\ new = IF at = 1 THEN Ent(de).cn ELSE fat_next(get_nth_cnum(Ent(de), at - 1))
Kill ==
    /\ pc \notin Idle /\ stops < MaxStops /\ stops' = stops + 1
    /\ hurt' = (hurt \/ Cut) /\ Rest("idle")
    /\ UNCHANGED <<fats, root, blk, want, moves>>

VfatNext ==
    \/ pc \in Idle /\ moves < MaxMoves /\ SoundVolume /\ \E a \in Live, i \in 1 .. NClus, c \in Offered : Begin(a, i, c)
    \/ Commit \/ typeinfo_phys_copy \/ Link \/ LinkAborts \/ CommitReplace \/ Return
    \/ FsckBegin \/ repair_fat16_bad_range \/ FatsDone \/ repair_trunc_file \/ EntriesDone
    \/ Kill

-----------------------------------------------------------------------------
(* At rest the clusters of a file hold its data in order from the start,   *)
(* and unless a chain was damaged or cut no file or directory is gone and  *)
(* none is shorter than it was (block_relink, write_de_cn, the repairs).   *)
DataKept ==
    pc \in Idle => InOrder(Vol) /\ (hurt \/ (NamesOf(Vol) = Wanted(want) /\ SoundVolume))

(* Between any two writes no cluster belongs to two files, and none that   *)
(* belongs to one is offered as free (block_alloc, block_replace).         *)
NoSharing == Unshared(Vol)

(* As long as nothing was cut short, the copies of the table are the same  *)
(* whenever the tool is at rest (write_fat_n).                             *)
CopiesAgree == pc \in Idle /\ stops = 0 => \A n \in 1 .. FatCount - 1 : fats[n] = fats[0]

(* Relocations, kills between any two writes and repairs keep the files.   *)
KeepsData == DataKept /\ NoSharing /\ CopiesAgree

(* '.' of a directory names its first cluster, '..' its parent's. *)
ParentOf(v, a) == CHOOSE p \in LiveOf(v) : EntOf(v, p).k = "dir" /\ a[1] \in ToSet(ClustersOf(v, p))
DotFits(v, a)    == v.blk[EntOf(v, a).cn][0].cn = EntOf(v, a).cn
DotdotFits(v, a) == v.blk[EntOf(v, a).cn][1].cn = IF a[1] = 0 THEN 0 ELSE EntOf(v, ParentOf(v, a)).cn

(* A directory without a cluster has neither. *)
Folders(v) == {a \in LiveOf(v) : EntOf(v, a).k = "dir" /\ EntOf(v, a).cn \in Clus}

(* In the last of several clusters of its directory. *)
InLast(ch, c) == Len(ch) > 1 /\ c = Last(ch)

Removed(v) == {p \in InsideOf(v, LiveOf(v)) : EntOf(v, p).k = "deldir"}
DotsFit(v) ==
    Removed(v) = {} =>
        \A a \in Folders(v) :
            /\ DotFits(v, a)
            /\ (a[1] # 0 => ~InLast(ClustersOf(v, ParentOf(v, a)), a[1])) => DotdotFits(v, a)

(* After whole relocations '.' and '..' of a directory name its own and    *)
(* its parent's first cluster, as long as no removed directory is listed;  *)
(* '..' is excepted where the parent lists the directory in its last       *)
(* cluster, which write_fix_dotdot_n does not reach.                       *)
DotsRight == pc \in Idle /\ stops = 0 => DotsFit(Vol)

(* The same of every directory, as the comment above write_fix_dotdot_n    *)
(* has it.                                                                 *)
AllDotsRight == pc \in Idle /\ stops = 0 => \A a \in Folders(Vol) : DotFits(Vol, a) /\ DotdotFits(Vol, a)

(* What a reader finds has three levels: the third lists no directory.     *)
Shallow(v) == NamedOf(v, InsideOf(v, LiveOf(v))) \subseteq LiveOf(v)

(* When fsck ends no copy of the table holds a number outside the volume,  *)
(* and no file is longer than its chain (vfat_fsck.fsl).  Two numbers are  *)
(* excepted: FatMax, which cluster_bad_range lets pass and is_valid_cnum   *)
(* counts as a cluster, and a first cluster outside the volume, for which  *)
(* there is no repair.                                                     *)
FsckSettles ==
    pc = "clean" =>
        /\ \A n \in 0 .. FatCount - 1, c \in Cells : fats[n][c] \in Clus \cup {FAT_ENT_FREE} \cup (FatMax .. Eof)
        /\ (\A c \in Cells : fats[0][c] # FatMax) =>
              \A a \in Live : Ent(a).cn \notin NClus + 2 .. FatMax =>
                  Ent(a).sz <= Bpc * Len(Chain(0, Ent(a).cn))
=============================================================================
