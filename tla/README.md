# A TLA+ verification of fsl

fsl compiles a description of a file system (`fs/*.fsl`) to tables and LLVM code, links
them with a runtime (`src/runtime`) and a tool (`src/tool`) or the kernel module
(`src/kernel/mod`), and gets a program that understands that file system: it scans it,
browses it, mounts it, moves its blocks, repairs it. The tools rewrite live file systems,
block by block, through a cache, with nothing but the order of the writes to protect the
data. This project models the system in TLA+, checks it with TLC on small instances and proves
with TLAPS, for all sizes, that the caches of userspace and kernel cannot be seen, that a
relocation keeps the data wherever it is killed, that the relocation tools never offer a
block in use, and that the bit-level parts below them are exact.

Paths below are relative to `src/`. `PROJECT.json` has, definition by definition, the lines
of the source each models.

## 1. Inventory

| Component | Source | State | Operations | What makes it correct | Modules |
|---|---|---|---|---|---|
| I/O cache (userspace) | `src/runtime/rt-pread/{cache,io}.c` | slots of a direct-mapped line cache; the device | aligned and straddling read, bit/word/bulk write, drop, reopen | no caller can tell that there is a cache | `IoCache`, `RawDisk` |
| words of any width | `src/runtime/io.c` | none | misaligned, swapped, array reads; writes | the bits of the description, in its byte order | `BitAccess` |
| traces | `src/runtime/{hits,temporal,entry}.c` | chained callbacks, buffers, counters | hook, log, flush, dump | every access once, in order; counts per line | `Trace` |
| write log | `src/runtime/log.c` | index and table of writes | start, add, commit, copy, stop | used in protocol order; commits in order of adding | `Relocate` |
| write packets, relocation | `src/runtime/writepkt.c`, `typeinfo_phys_copy` of `type_info.c` | the logs, the blocks at hand | allocate, copy, steal the freeing packet, relink, free | data and pointers survive a kill between any two writes | `Relocate`, `BlockMap` |
| ext2 description | `fs/ext2*.fsl` | none (functions of the device) | lookup by position, relink packets, alloc/replace packets | what is looked up is what is relinked | `Ext2Map` |
| vfat description, fsck | `fs/vfat*.fsl`, `src/tool/fsck.c` | none | chains, packets, '.' and '..', repairs | chains survive moves; fsck leaves a volume in range | `Vfat` |
| bitmap, choice cache | `src/runtime/{bitmap,choice}.c` | bytes with padding | set, unset, set_avail, searches | searches find the first run, writes touch the range only | `Bitmap` |
| scanner | `src/runtime/scan.c` | explicit stack, free list, spare buffer | one fill-next function per kind of frame, callbacks with verdicts | visits everything once per path, ends on circles, frees everything | `Scan` |
| type infos | `src/runtime/type_info.c` | reference-counted chains and mappings | alloc, follow, copy, free | counts are exact | `TypeInfo`, `Holder` |
| virtual types | `src/runtime/virt.c` | cached bounds and bases | load, translate, n-th object | translation equals concatenation of the parts | `Virt` |
| bridge, lookup | `src/runtime/{bridge,lookup}.c` | nodes that hold type infos | follow, children by number and name | a node is the object it was listed as | `Bridge` |
| front ends | `src/tool/{browser,fuse-browser,fuse_node,modify}.c`, `type_print.c` | menus, open nodes | browse, list, read, write, modify | names and numbers mean what was shown | `FuseBrowser`, `Browser`, `Modify` |
| relocation tools | `src/tool/{smushtool,thrashcopy,scattertool,defragtool,relocate}.c` | choice cache, cursors, refresh counters | one loop over the blocks of every inode | moves in one direction / never fragments / ends | `RelocBase`, `*Tool`, `Tools` |
| kernel I/O | `src/kernel/mod/{io,cache}.c` | line cache shared by threads, no lock | read, write, drop | one thread: no cache to be seen; several: lines coherent unless misses meet or a failed read goes unnoticed | `KernelIo` |
| kernel life cycle | `src/kernel/mod/{rt,fsl_entry,super}.c`, `kernel/user/fslcmd.c` | one global runtime, `is_inited`, static choice cache | load, ioctl, tool, mount, access, unload | what is used is up | `KernelLife` |
| kernel file system | `src/kernel/mod/inode.c` | inodes, positions, pages | lookup, readdir, readpage | each entry once, each page right | `KernelFs` |
| compiler: layout | `src/compiler/symtab_thunkbuilder.cc`, `thunk_*.cc`, `symtab.cc` | last field, union and condition stacks, tables | one visit per statement | thunks give the layout the description says | `Layout` |
| compiler: names | `src/compiler/{evalctx,type_stack}.cc` | type stack | resolve head and tail of a path | a path means its field | `Resolve` |
| compiler: code | `src/compiler/{func,cond,expr,code_builder}.cc` | blocks under construction | one visit per statement | blocks well formed, same effects as the source | `CodeGen` |
| compiler: closures, memo table | `src/compiler/{varscope,args,fcall,thunk_params,memotab}.cc` | parameter buffers | pack, unpack, return, memoise | arguments survive | `Params` |
| read log, use map, mmap I/O, scan and fragment tools, parser, table emission, other descriptions | | | | | not modelled, section 6 |

How they interact. A tool opens the device (`fsl_rt_init`), allocates the origin type info
and calls `scan_type`, or follows type infos itself; the scanner calls the tool back for
every object; a relocation tool, meeting an inode, loads the *choice cache* (the free
blocks, one bit each) and calls `wpkt_relocate(selection, choice)`, which evaluates write
packets of the description into the write log and commits the log through `fsl_io_write`,
behind the I/O cache. Everything the runtime knows of the file system are tables and thunks
the compiler made. In userspace this is one sequential process; in the kernel module several
threads run the same code on one global runtime without a lock. What is hard about it is

* stale copies: the I/O cache behind writes, the choice cache behind relocations, cached
  bounds and bases of virtual types and memoised functions behind both;
* order: a relocation is four groups of writes (allocate, copy, relink, free), a kill may
  fall between any two;
* values computed before and used after: the freeing packet is evaluated before the relink
  and committed after it; a thread's slot of the kernel cache is looked up, slept on and used;
* agreement of separately written code: index functions of a description, names listed and
  names opened, numbers printed and numbers counted, cells packed and cells unpacked, a path
  resolved to a place and to a type;
* ownership: type infos, mappings and nodes with reference counts and failing steps;
* termination of loops with cursors that jump back, and of a scan over data that may point
  in circles;
* boundaries: last partial line, padding of a bitmap, widths of words, blocks where an
  indirect block is just full, entries in the last cluster of a directory.

`PROJECT.json` lists these hazards at their lines, with the properties that would catch each
going wrong.

## 2. Plan

Modelled, in this order: (1) `RawDisk`, `IoCache` and its proofs; (2) `Relocate`, with the write log;
(3) `Ext2Map`; (4) `Bitmap`; (5) `Scan`; (6) `RelocBase`, the five tools and `Tools`;
(7) `TypeInfo`, `Bridge` and their clients, composed in `Types`; (8) `KernelIo` and
`KernelLife`, composed in `Kernel`; (9) `Layout`, `Resolve`, `CodeGen` and `Params`, composed
in `Compiler`; (10) `BitAccess`, `Trace` and `Virt`, with `Bitmap` in `RuntimeParts`; (11) `Vfat`,
with `Ext2Map` in `Descriptions`; (12) `BlockMap` and the two refinements of it.

Proved, in this order: (1) `IoCache`; (2) `Relocate`, with its refinement of `BlockMap`;
(3) `KernelIo`, with its refinement of `RawDisk`; (4) `KernelLife`; (5) the five tools,
composed in `Tools`; (6) `Bitmap`, `BitAccess` and `Trace`, composed in `RuntimeParts`;
(7) the block numbers of `Ext2Map`; (8) `Scan`; (9) `Virt`; (10) fsck's repairs in `Vfat`;
(11) the files of `Vfat` through relocations, kills and repairs; (12) its `.` and `..`.

To do:

1. The write packets and iterators of the compiler (`writepkt.cc`, `wpkt_*.cc`,
   `instance_iter.cc`, `points.cc`): which closure an iterator's expression is evaluated in.
2. The relocations of `minix.fsl` and `reiserfs.fsl`, as further clients of `Relocate`.

## 3. Modules

### The device and its I/O

**`RawDisk`** – abstract: a byte-addressed device; a read returns the bytes that are there,
a write changes the addresses it names and nothing else, a read may fail and end the
process, a restart keeps the device. `IoCache` implements it, and so does `KernelIo` with
one thread.

**`IoCache`** – `rt-pread/cache.c` and `io.c`. `disk` is the file, `ents` the table
`ioc_ents` (a slot has the line number `addr`, -1 for `~0`, and its `data`), `ret` what the
last read returned, `up` whether the process lives. `GetLocalPhys` is the read through one
line or two neighbours, `fsl_io_write_bit` the read-modify-write of a byte through the
cache, `fsl_io_write` and `fsl_io_write_bytes` write and then drop lines. A byte is a
function from bit positions to bits. `GetLocalPhysFaults` is the `pread` of a line that
reaches past the end of the device: the code reports it and exits.

**`BitAccess`** – words of every width at every bit, in both byte orders, through one line or
two. A bit is known by where on the device it came from, so "the word read" is a map from
positions to origins.

**`Trace`** – the callbacks `main()` hooks for `hits.c` and `temporal.c`, their buffers,
counters on memory `malloc` left as it was, and the dump at the end. The table of counters
is made for the size the runtime goes by, whole units of `st_blksize` (`fsl_io_size`), in a
number of 32 bits (`byte_len`, modulo `UintMod`), and indexed without a look: `Stray` is an
access behind it. It may hit another counter, something nobody sees, or lead the tool astray,
where the model follows it no further.

**`Bitmap`** – `bitmap.c` and `choice_find_avail`. A byte is the set of its 1 bits; `Mask`
is the three-part mask of a range (rest of the first byte, whole bytes, start of the last).
The functions that search and count bit by bit are given by the first bit they meet, up to
the end of the last byte, padding included.

**`RuntimeParts`** – these three parts and `Virt` (below) share no state; a behaviour puts
one of them to work. Its last section is the instance of virtual types for TLC.

### Relocation

**`BlockMap`** – abstract: positions of files on blocks. A step reserves a block, points a
position to a reserved block nobody is on, releases a block nobody is on, or does all of it
(`Move`); contents by position never change.

**`Relocate`** – `writepkt.c`: one step per write. The write log of `log.c` is a record with
an operation per function, each with the condition of its `FSL_ASSERT`. The device is an
ext2 file system as far as relocation sees it: bitmap, free counts of the groups, one inode
with direct pointers and an indirect block, contents. `pc` goes idle → alloc → copy → stolen
→ relink → replace → idle. `Kill` ends the process anywhere; the next run starts from the
device. `ccache` is the choice cache of the tool, loaded by `choice_alloc` and patched by
`choice_mark_alloc`.
`BitAddOffset` is the shift between block numbers and bitmap indices for blocks larger than
1024 bytes. Every write is a step of `BlockMap` or none (`MovesSafely`), killed or not.

**`Ext2Map`** – the index functions of `ext2_func.fsl` and the relink packets of `ext2.fsl`
with direct, indirect and double indirect blocks; unsigned arithmetic wraps. A block is
named by the place of the pointer to it, so that "the packet writes the pointer the block
was found by" is an equation.

**`Vfat`** – the FAT description with FAT16 numbers: copies of the table, the root directory
and clusters of directory entries; `wpkt_relocate` with its packets, one write at a time, an
overfull log and a kill; and fsck's two repairs. **`Descriptions`** – `Ext2Map` or `Vfat`: it
extends both, and a behaviour is of one of the two. It has the volumes TLC starts from.

**`RelocBase`, `SmushTool`, `ThrashTool`, `ScatterTool`, `DefragTool`, `ImageTool`,
`Tools`** – the tools, with a relocation as one step, a `Move` of `BlockMap`
(`StepsAreMoves`). `RelocBase` has what they share: the files as block positions `place`, the
choice cache, the position `cur` at hand. The modules of the tools have one step per round
of the loop that searches a choice. `Tools` is a run of one of them; the static variables of
the others stay as they are. Its last section is the instance for TLC.

### Objects

**`Scan`** – `scan.c` and the reference counts of `type_info.c`. Frames are records in a
heap `mem`, linked by `next` as in the code; `head`, `buf` and `sctx_stk_free` are the
stack, the buffer allocated ahead and the free list. A type info is the chain of objects it
was reached through. What objects contain and which verdicts callbacks return is a scenario,
chosen at the start; which objects lie on the device is chosen too.

**`TypeInfo`** – `type_info.c` as functions from heaps to heaps: type infos and mappings by
address with their counts; a failed assertion and a use of freed memory are states of the
heap. **`Bridge`** adds the nodes of `bridge.c`. On top of it, one module for each client:
**`FuseBrowser`** (a handler is a step: FUSE runs with `-s`), **`Browser`** (the stack of
menus), **`Modify`** (a run is a step), **`KernelFs`** (readdir in pieces as large as the
caller's buffer, readpage), and **`Holder`**, a user of the interface that frees in any
order. **`Virt`** has one mapping in detail: bases cached in slots, sources moved by others,
objects of differing size in the concatenation. The size of an object is read from its header
by `__getLocal`, which stops the program when first and last byte do not lie as far apart on
the device as in the range, before the caller looks at the error of the unsafe operation
(`GetSize`, `VerifyBounds`). It shares nothing with the others and is one
of the parts of `RuntimeParts`. **`Types`** is one of these clients on one device; its last
section is that device.

### Kernel module

**`KernelIo`** – threads in the unlocked line cache. A miss gives the slot its new number,
sleeps until the block is read, and copies the line byte by byte; a hit is a pointer followed
later; a write stores byte by byte and then drops the lines. The locks around
`bh_submit_read` keep nobody out: it takes the lock off when the buffer is up to date. `view`
is what the buffers up to date hold, and the device for all other blocks; `uptodate` are the
blocks whose buffer is in use and up to date. `bh_submit_read` may fail for a block that is
not among them. In a miss that kills the thread (`ReadError`). Elsewhere the code does not
look: a write then stores into a buffer that was never read (`StoreUnread`) and marks it up to
date (`MarkUnread`), whereby any byte of the block can change; such a block is `mangled` and
the properties except it. `fsl_io_read_bytes` returns what is in the buffer. **`KernelLife`** – the calls of `fslcmd`, mount, access and
unmount by several processes, split where the code may sleep or be preempted; `past`
remembers the sequences of calls that are known to break. **`Kernel`** – one or the other: it
extends both modules, and a behaviour is of one of the two levels. `Threads` are those in the
I/O layer, `Procs` those that call.

### Compiler

**`Layout`** – the walk of `SymTabThunkBuilder` over the statements of a type; a thunk is its
value for one instance. **`Resolve`** – a path to a place and to a type. **`CodeGen`** – the
blocks of a function, visited statement by statement, with an interpreter of source and code.
**`Params`** – closures as words of parameter buffers. **`Compiler`** – one of the four at
work, as they share no state.

`MCScan` and `MCCompiler` give values to the constants that are sets of records or functions;
the other modules are run as they are. `IoCacheProofs`, `RelocateProofs`, `KernelProofs`,
`LifeProofs`, `ToolsProofs`, `RuntimeProofs`, `DescriptionProofs` and `ScanProofs` extend the
module they are about (section 5).

## 4. Runs

| Run | Instance | Checks |
|---|---|---|
| `iocache` | 7 bytes, lines of 2, 2 slots, 1-bit bytes, bulk of 2 | `TypeOK`; `Coherent`: a valid slot holds what the device holds; `FaultsOnlyInTail`: where reads fail; `BitWriteExact`; `Implements`: refinement of `RawDisk` |
| `runtime_parts` | bitmap: 8 bits in bytes of 3; words: 3 lines of 8 bytes of 4 bits; traces: 3 accesses, one behind the table, on a device that is no whole number of units, buffers of 2; mappings of up to 3 sources on 16 bytes, with 2 cache slots | `RangesExact`, `FindsFirst`: every range and search of the bitmap; `WordsExact`: every width and alignment; `TraceExact`: every set of tracers, what was seen and what was counted; `XlateExact`, `NthTiles`: translation and n-th object of a virtual type, and where the walk to it refuses or asserts |
| `relocate` | 6 blocks, groups of 3, one direct and one indirect data block, one foreign block, 1 kill | `FileIntact`: at every write the file's blocks are allocated, its own and hold its data; `CountsAtRest`; `Finishes`: each relocation comes to its end and asserts nothing; `MovesSafely`: refinement of `BlockMap` |
| `descriptions` | ext2: 2 direct pointers, 4 per block, files of 1 to 21 blocks. FAT: 8 clusters, 2 copies, 7 volumes, 3 relocations, 1 kill | `MapExact`: ext2 lookup and relink agree; `KeepsData`: FAT chains, owners and copies; `DotsRight`; `FsckSettles` |
| `ext2map_relink` | the ext2 instance | **violation**, finding 1 |
| `vfat_dots` | the FAT instance | **violation**, finding 3 |
| `scan` | 3 objects, 384 shapes with `CONTINUE`, one shape with all verdicts, all sets of dead objects, deep or not | `Accounted`: frames, references, depth; `VisitsInOrder`; `Terminates` |
| `scan_terminate` | the shape with all verdicts | **violation**, finding 2 |
| `tools` | files of 3 and 2 blocks on 11 choices, one foreign block | `OffersFree`, `MovesAsTold`, `GivesUpOnlyFull`, `Terminates` (below); `StepsAreMoves`: refinement of `BlockMap` |
| `types` | one object of each troublesome kind on 16 bytes; 2 handles; buffers of 1 and 3 entries | `HeapSound`: counts, freed memory, circles; `FuseExact`, `MenusAgree`, `ModifyExact`, `KernelFiles`: names, numbers, positions, pages |
| `kernel` | accesses: 2 threads, 3 lines of a byte in pages of 2, 2 slots, accesses to 2 lines of one page and to the last line, failed reads, accesses until a block is mangled; calls: 3 processes, one tool, 2 contexts | `ReadsRegular`: races in the cache; `Implements`: refinement of `RawDisk` by one thread; `FaultsExplained`: calls in every order |
| `compiler` | fragments nested up to three deep, paths of up to 4 names in 5 scopes, functions of up to 4 statements, programs of up to 6 closures | `LayoutExact`, `PathExact`, `CodeMeansSource`, `ArgsSurvive`, `MemoExact` |

A property of a run is often the conjunction of named parts that its module states and
comments one by one.

Why these bounds are enough for the cases meant:

* `iocache`: three whole lines compete for two slots (eviction, two neighbours always in
  different slots), the fourth is partial, and every access length from one byte to a line
  occurs at every offset. The code has 32-byte lines; nothing depends on the size but the
  arithmetic, which the proofs cover. Bytes have one bit, so TLC sees that a bit is written
  and no other byte is; that no other bit of its byte changes is `BitWritesExact`, for bytes
  of every width.
* `runtime_parts`: three bytes of the bitmap with the last padded: a range can begin and end
  inside a byte, cover a whole one, and end at the padding. Words begin at the start of the
  device and around the end of the first line, in every width up to eight bytes, so that
  they lie in a byte, fill bytes, straddle bytes and straddle lines. Three accesses fill a
  buffer of two, flush it, and leave a rest; one of the addresses is behind the 5 counters that
  8 of the 14 bits of the device get. `byte_len` never wraps here; the proof has the case. Headers are
  two bytes, so that one can be cut by the end of a source or of the range. The concatenations have whole objects in each
  source, one over two sources, one behind the range, one that is endless and none; a source
  of a mapping moves; three sources over two slots evict.
* `relocate`: six blocks less one foreign and three of the file leave two free, so that
  after a kill that lost a block another relocation is still possible; groups of three put
  source and choice in the same group and in different ones; the position moved can be a
  direct block, the indirect block itself and a block behind it.
* `descriptions`: 21 is the largest file before triple indirection, which the description
  maps to its error value. The FAT volumes have a file of two clusters, a directory of two
  with a subdirectory in each, a removed subdirectory, more subdirectories than a log of 14
  writes takes (64 in the code), chains that lead out of the volume at each of its ends, and a
  file that begins outside; with three moves a cluster freed by one is taken by the next.
* `scan`: three objects allow circles of length one to three, an object reached over two
  paths and a dead pointer in every position. `MaxFrames` = 12 is above the 10 frames
  `StackBounded` allows, so that the bound is not what makes the property hold.
* `tools`: files of different length are needed for the cursor of defrag, which advances by
  the length of the file, to pass a run it would need later, so that the search wraps
  around. `MAX_REFRESH` (10 to 40 in the code) and the number of draws of scatter (11) are 2: the
  cases are "below", "at" and, for smush, "above", which `==` lets happen.
* `types`: the content has arrays, pointers that form a circle, pointers nowhere, virtual
  types inside virtual types, weak and nameless members; two handles share what they open.
* `kernel`: two threads are enough for a slot to be taken from the one that looked it up;
  three lines over two slots let two misses meet in a slot and two others pass each other.
  A line is one byte, so TLC sees bytes of two lines torn between threads, and only the proof has
  torn lines. An access begins while no block is mangled (`MaxMangled` = 0): all that are under
  way go on, among them a read and a write of the same block; what begins later is left to the
  proof.
  Three processes call: that a mount which fails leaves its context behind for a tool, because
  a put was faster, takes three and 20 steps. The two threads, which are also two of the three processes,
  are interchangeable (SYMMETRY); no liveness is checked in this run.
* `compiler`: each construct occurs alone, twice in a row and inside each other construct;
  functions of four statements can nest an if in an if and go on after it.

Fairness. `Relocate`, `Scan` and `Tools` assume weak fairness of the steps of the one
process: it is a sequential program without waiting, and steps are taken as long as nobody
kills it. In `Relocate` a kill satisfies `Finishes` too, the process being back at idle;
starting another relocation is not fair. Deadlock checking is off where the program really
stops: a failed assertion or the tool's end (`runtime_parts`, `types`), a thread killed by a
fault (`kernel`), a finished compilation (`compiler`).

### What the tools promise

`OffersFree`: the choice cache errs only by missing free blocks, so a block never has two
owners, though the cache is not reloaded between moves; and what defrag asserts holds.
`MovesAsTold`, `GivesUpOnlyFull`: smush moves only towards the start, thrashcopy only towards the end. Defrag leaves whole
files whole, makes what it moves whole, and skips a fragmented file only if the choice cache
knew no run long enough. The image tool moves blocks only from unmarked to marked pixels and
gives up a pixel only when no block of it is free. All end.

### Findings

1. `ext2map_relink` – `ext2.fsl`'s `block_relink_meta` and `get_nth_meta_blknum` divide by
   `blocks_per_indir()` and by `blocks_per_indir()+1` in places that have to agree. Behind
   the double indirect block the pointer the defrag relocation rewrites is not the one its
   block was found by, while `writepkt.c` says "relink newly allocated into rel_sel_ti
   reference".
2. `scan_terminate` – `scan.h` says of `SCAN_RET_TERMINATE` "do not scan anything else"; the
   scanner treats it as `SCAN_RET_EXIT_TYPE`: it pops the frame at hand, and the frames
   below go on and call back.
3. `vfat_dots` – `get_nth_de` numbers clusters from 0, `fat_chain_nth_cnum` from 1, so
   `write_fix_dotdot_n` goes twice over the first cluster of a directory and never over its
   last, while its comment says "all directories d in de therefore must have their '..'
   updated too". A removed subdirectory counts as one as well: when the moved directory is
   put where the removed one was, its own '..' is overwritten.

### Exceptions the properties state

Many properties hold with an exception that is behaviour of the code. They are named in the
formula (`past` of `KernelLife`, `Misshapen` of `CodeGen`, `SeesVirt` of `Modify` ...), so a
change that adds one is found. Those a user of the code should know:

*I/O and traces.* A field of a width that is no multiple of 8, aligned and straddling a cache
line, loses its last bits; a misaligned read of 64 bits is masked by a shift of 64; big-endian
fields inside a byte and of 3 or 7 bytes assert, those aligned of other odd widths are not
swapped; writes are little endian in both modes; an array read accepts one index too many.
The counters of `hits.c` start at what `malloc` left, and the partial last line is never
dumped. Their table is made for whole units of `st_blksize` and for fewer than 2^32 bytes, and
no access is compared with it: one to the end of a device of another length, or any on a
device so large that the product wraps, adds 1 to a word behind the table and is missing from the dump.
`TraceExact` says that the dump is exact if there was no such access, and that no count is
more than their number too high otherwise. The end of a device that is no multiple of 32 bytes cannot be read through the
userspace cache; `FaultsOnlyInTail` says that nothing else is affected.

*Descriptions.* `size_to_metablocks` (`ext2_func.fsl:185`) counts three metadata blocks for a
file that just fills its indirect block and needs one. FAT: a kill after the pointer to a new
cluster was written and before the cluster's own entry cuts the chain, and fsck then shortens
the file; fsck does not compare the copies of the table; the last cluster is never a choice.
`is_valid_cnum` counts the number 0xfff4 (`FAT16_MAX`) as a cluster of every volume, so a cell
with it is out of range for every loop and none of fsck's tests; nor has a first cluster outside
the volume a repair. `FsckSettles` excepts these two.

*Tools.* `bmp_set_avail` can find a run that reaches into the padding and fail `bmp_set`'s
assertion (nothing calls it). `SCAN_RET_SKIP` has no effect. smush can step over
`MAX_REFRESH`, compared by `==`, and then reloads the cache for every further block. The
image tool rounds the bytes of a pixel down and asserts for blocks at the end of a device
that is no multiple of the pixels.

*Type infos and front ends.* The bases of a virtual type are as old as the mapping. The comment of
`fsl_virt_get_nth` (`virt.c:341`) says that it may fail safely. It does for an object whose header is there
in one piece; at a header that ends behind the range, or that two sources share which are not
neighbours on the device, `__getLocal` fails its assertion "Discontiguous getLocal not
permitted". `SequentialWalkSafe` says that asking in order meets it there and nowhere else, and
never an access past the range; asking for an index behind a refused object may meet that too. `typeinfo_to_buf` and a FUSE
write take a virtual object for contiguous. FUSE: a number below what is no array, and a
write of more bytes than the log holds, end the process. `modify` frees twice on a path with a
virtual element and asserts on a path that ends in no primitive; an index in a path is
ignored. A member of a primitive type never gives an element its name.

*Kernel.* `readpage` adds `f_pos` to the page's offset; a listing of an array ends at its
first bad element, and after `rewinddir` goes on where it was. Two misses that meet in a slot
leave a line under the wrong number. `fsl_io_write`, `fsl_io_write_bit`, `fsl_io_write_bytes` and
`fsl_io_read_bytes` do not look at whether `bh_submit_read` failed (`io.c:161,197,232,265`): the
writes then mark a page as read that was not, and the read returns what was in the buffer. After unmounting, `is_inited` stays set and the next
mount is refused; a mount that fails late leaves the runtime up; a second run of a tool uses a
freed choice cache; `init_fsl_mod` that fails leaves the misc device behind; writes by a tool
on a mounted context use an inode that is not there. `fsl_io_read_bytes` and
`fsl_io_write_bytes` are right within one page.

*Compiler.* Arrays and offset functions in a union, and unions in a union or an `if`, stop the
compiler. `__max4` returns its second argument in its third branch. Alignment is right for
powers of two. A field name declared twice keeps its first thunks. Unterminated or misjoined
blocks come from code after a return, a function that does not end in one, code after a nested
`if`, `while` or conditional value in a branch, and nested conditional values. A memoised
function that calls a later one reads zeroes. An element of an array whose type is told its
index gets element 0's arguments when a path goes on behind it. A path with a wrong tail is cut.

## 5. Proofs

Each proof module extends the module it is about. What it proves holds for every value of the
constants that the named assumptions allow; the runs check the same properties on the
instances of section 4.

| Theorem | Module | States |
|---|---|---|
| `TypeCorrectness` | `IoCacheProofs` | `Spec => []TypeOK` |
| `CacheCoherence` | | `Spec => [](Placed /\ Coherent)` |
| `BitWritesExact` | | `Spec => []BitWriteExact` |
| `FaultsInTail` | | `Spec => []FaultsOnlyInTail` |
| `Refinement` | | `Spec => Implements`: `IoCache` implements `RawDisk` |
| `FileSafety` | `RelocateProofs` | `Spec => []FileIntact`, wherever a relocation is killed |
| `CountSafety` | | `Spec => []CountsAtRest` |
| `MoveRefinement` | | `Spec => MovesSafely`: `Relocate` implements `BlockMap` |
| `NoAbort` | | `MaxEntries >= 2 =>` the log's assertions never fail |
| `CacheRegular` | `KernelProofs` | `Spec => []ReadsRegular`, for any number of threads; blocks marked after an unnoticed failed read are excepted |
| `SoloRefinement` | | `Spec => Implements`: with one thread `KernelIo` implements `RawDisk`, with the answers of those blocks excepted |
| `LifeSafety` | `LifeProofs` | `Spec => []FaultsExplained`, for any number of processes |
| `ChoicesFree` | `ToolsProofs` | `Spec => []OffersFree` |
| `DirectionsKept` | | `Spec => MovesAsTold` |
| `NothingGivenUp` | | `Spec => GivesUpOnlyFull` |
| `ToolsMove` | | `Spec => StepsAreMoves`: the tools' steps are moves of `BlockMap` |
| `RangesAreExact` | `RuntimeProofs` | `RtSpec => RangesExact` |
| `SearchFindsFirst` | | `RtSpec => []FindsFirst` |
| `WordsAreExact` | | `RtSpec => []WordsExact` |
| `TracesAreExact` | | `RtSpec => []TraceExact`: what `temporal.c` writes, and what `hits.c` counts in and behind its table |
| `TranslationsAreExact` | | `RtSpec => []XlateExact` |
| `ObjectsTile` | | `RtSpec => []NthTiles`: where the n-th object is, and where the walk to it asserts |
| `BlocksMapped` | `DescriptionProofs` | `DescSpec => []MapExact` |
| `FsckRepairs` | | `DescSpec => []FsckSettles`, for every table and every entries |
| `FilesSurvive` | | `DescSpec => []KeepsData`: relocations, kills and repairs keep the files |
| `DotsStayRight` | | `DescSpec => []DotsRight`: after whole relocations `.` and `..` name the right clusters |
| `ScanAccounted` | `ScanProofs` | `Spec => []Accounted` |

### The I/O cache

Every line size, number of slots above one, device size, byte width and access length up to a
line (`MaxAccess \in 1 .. LineBytes`; the code has 8 and 32). Two slots are needed: a
straddling read uses both lines after fetching both, and with one slot the second would have
replaced the first. The inductive invariant `IInv` says that the device and the result are
typed and that the slots are `Good`: typed, each line in the slot its number selects, and
equal to the device. Coherence alone is not inductive: `fsl_io_cache_drop_bytes` looks for a
line only in the slot its number selects, so a misplaced line would survive a write. Type
correctness alone is not either, for a write of a bit stores a byte that comes out of the
cache. `Refinement` maps `disk`, `ret` and `up` to themselves and uses the invariant in the
read steps and in the write of a bit.

### Relocation

Every number of blocks, groups, direct and indirect positions, every set of foreign blocks and
every number of kills. The proof looks at the device through two views, `Place` (the block of
each position) and `Avail` (the blocks the bitmap calls free); each write changes at most one
of them at one point. `SafeInv` adds to `FileIntact` what makes it inductive: the log is
where `pc` says (`LogShape`), the block in flight is marked in use and nobody's until the
relink (`FlightShape`), it has the contents from the copy on (`CopyShape`), and the choice
cache offers nothing that is in use (`CacheShape`), the only reason why the next relocation
does not allocate a block twice. The counts are a second invariant, `CountInv`, under
`kills = 0`: a kill loses a block for good, and the description has no repair for it.
`NoAbort` needs a log of two entries, for the packets of allocation have two writes; with one
the assertion of `fsl_wlog_add` does fail.

### The kernel's cache

Every set of threads and every geometry of cache, lines and device that `KernelAssumption`
allows: the device is a number of whole lines, pages are a number of lines, and an access
spans two lines at most. Nothing is locked, and bytes in a slot can be old. The invariant
`IoInv` says how old: what is in a slot outside `spoilt` is what the device holds or what a
write has replaced whose drop is still to come, and each reader in flight knows both values
(`SlotOK`, `Reader`). It says so byte by byte, of the part of a line that is copied already while a
miss is at it, and of blocks that are not `mangled`. That the lines are coherent at rest is not inductive without it, for a
write changes the device first and drops the line later, and any thread may read or fill in
between. With one thread nothing is spoilt and nothing is old when a read starts (`SoloInv`),
which gives the refinement (a write is one step of `RawDisk` for each byte stored; marking a
block that was not read is a write of its page), with `view` for the device and "no thread was killed" for `up`.

### The kernel's life cycle

Every set of processes, every set of tools and every number of contexts; the names of tools
must differ from those of the calls. `LifeInv` has two parts that hold as long as certain
calls never overlapped. While no put and no mount ran beside another call, a process that has
found the context finds it alive (`EnvAlive`, `TakerAlone`); while only one call at a time made
or freed a context, the stage of that call determines which contexts there are (`OneChanger`,
`Stages`). `Owned` says when a context that was made by a mount still has its block device.
The properties name the sequences of calls that break the rest. The proof attempt found one
the history did not have: a mount that fails late frees its context by a put of its own, and
when another put was faster (`-ENXIO`) it leaves the context behind, with a block device that
is gone, for a tool to use. It takes three processes, which is why the run has them.

### The tools

Every device of two blocks or more, every sequence of files, every placement (`Places` is
arbitrary, `Init` only takes placements that fit), every `MAX_REFRESH`, number of draws and
pixels. The common invariant `Sound` says that the places are distinct, on the device and not
foreign, and that the choice cache is a subset of the free blocks. That it does not have to
be all of them is what makes it inductive, a move frees blocks the cache is not told of.
`DefragInv` says that the rest of the run found is still in the choice cache while defrag is
inside it (`Filling`) and that a file is begun at its first position; `ImageInv` that pixels before the
cursor have no choice left, up to the choice at hand: with it, passing over a pixel means that
it is full.

### Bitmap, words, traces

`RuntimeProofs` is for bytes of every width and maps, words, devices and buffers of every size
(`BitmapAssumption`, `AccessAssumption` with words of at most eight bytes, the 64 bits of the
code, `TraceAssumption`, under which devices, units, addresses and the modulus of `byte_len` are any numbers).

`RangesAreExact` needs that the padding is clear at the start of each operation, which is
invariant (`PaddingInvariance`). The searches are recursive functions over the bit at hand, and
TLAPS has no induction rule that could be used for them here; the proof does without: a set of
naturals that is not empty has a least element (`Smallest`, from well-foundedness), so that a
function that satisfies the recursion and one that is given explicitly (`Found`: the first
place where the run fits) cannot differ anywhere, as there would be a least place where they
do, counted from the end of the map (`Backwards`). `FindIs` is that argument for
`choice_find_avail`.

`WordsAreExact`: `AccInv` relates the device to the bits of the description (the same in
little-endian mode; each at its mirrored place in big-endian mode, until something is written)
and says that the word returned last is that of one of the accessors (`Answers`). The lemmas are about one word: its bits in a byte, over
bytes, over a line's end, and its reversal.

`TracesAreExact`: `TraInv` says in which order the callbacks hang (`Hooks`; the tracer hooked
last is called first and hands the address on before the other divides it), that file
and buffer together are what was seen, and that each counter is what was there at the start
plus the accesses to its line, plus at most as many as there were behind the table (`Traced`).

### Virtual types

Every number of sources, size of a source, base and content of the device, every number of
cache slots above one; sources lie on the device, where they are and where they may move
(`VirtAssumption`). A source is as long as a header or longer: an element of the source types of
the descriptions is a block or a cluster, a header a few bytes; without it already the first object would
have none in one piece. The inductive invariant `SlotsGood` says of every slot whose number fits
its place that its index is one of the mapping, and that it has the base this index had when
the mapping was made unless the source has moved since. The code's walk to the n-th object is
a recursive function of the rounds; which object it reaches is again shown without induction,
by the least round at which walk and concatenation differ. For who asks in order (`WalkSafe`),
every object behind which the walk goes was asked for before and had its header in one piece, the
first one by the assumption, so only the header of the object asked for can stop the program.

### Block numbers of ext2

For every number of direct pointers and every size of an indirect block, files below triple
indirection, and integers wide enough not to wrap where the code subtracts before it compares
(`MapAssumption`). The properties compare the functions with the set of pointers of a file and the order
in which a reader meets them, neither of which has a division in it. The proof is that the
functions rise in this order (`DataRises`, `PointersRise`) and reach everything (`DataMet`,
`PointersMet`); a loop over such a function has met at each position exactly the pointers up
to it (`Loop`). The exceptions the property makes, for files with double indirection, are
finding 1.

### The scanner

Every finite set of objects, every content and every verdict. `HeapAssumption` has more
addresses than three for each object, which is as many frames as a scan ever needs: malloc is
not taken to fail. The
invariant has the frames as one list that runs through the heap from `head` to the bottom,
apart from the free list and the spare buffer (each frame is in exactly one of the three), says
of each frame on the stack that its type info is its parent's plus one object (the shape of
the chain), and counts the references that frames hold (`RefsOf`). That every reference is
dropped exactly once, which is `Accounted`, follows only from all three: a frame that is
popped drops what it holds and nothing that a frame below still needs.

### FAT and fsck

`FsckRepairs` holds for every number of clusters, copies and entries, every table and every
directory content, circles included (`VfatAssumption` only says that a volume has the shape of
its geometry and numbers of 16 bits; a walk is cut off after as many steps as there are
clusters). The loops of the description (`fat_chain_count`, `fat_chain_nth_cnum`) and the
chain they mean are recursive functions; a chain is a walk, a sequence of which each member
is the cell of the one before, and walks from one cluster agree (`WalksAgree`). They are
related on sets of numbers on which the description's `is_valid_cnum` and "is a cluster" are the
same, which is where the two exceptions come from. `FsckInv`: the device has its shape, the
write logs hold numbers only, a relocation's new cluster is not on the way to the one it
moves, and fsck's repairs have left no bad cell from its second pass on and no file that is
too long at its end. The last needs that a repair of one cell or size cannot make another one
bad.

`FilesSurvive` is about the files of a volume, so it says more of the volume
(`ContentAssumption`): no two files share a cluster, files have their data in order,
directories begin with `.` and `..` (a cluster has room for both), and a volume that is not
marked as damaged has sound chains and the files wanted of it. That is what a file system is before a
tool runs; damaged volumes may have any chains cut. Three invariants carry the proof together.

* `FsckInv`, as above, for the shape of everything.
* `KeepInv` says where a relocation stands and what the volume a reader finds is like there.
  At rest and under fsck the volume keeps its files (`Keeps`). Before the copy (`Pre`) the new
  cluster belongs to no file and is marked bad, or the log is about to mark it; behind the copy
  (`HasCopy`) it has the content of the one it is for; once the packet is made (`Ready`) its
  first write is the pointer to the new cluster. That write is the commit point: from it on
  (`Linked`) the volume itself may have a chain that ends in "bad", and what keeps its files is
  the volume the packet leads to, `Aim`, in which the new cluster goes on where the old one did.
  All writes left in the log are `Harmless`: they go to other copies of the table, to `..` of
  directories, or make exactly that cell. The old cluster is freed only then and is nobody's.
  A kill in between leaves a volume in which one chain is cut and nothing is shared or out of
  order (`LinkedSafe`); `hurt` remembers it.
* `AgreeInv`, for the copies: each cell has, after the writes left in the log, the same number in
  every copy; under fsck, which repairs one copy behind the other, the same number once repaired.

The lemmas under it are about one change of a volume each: a cluster takes the place of another
one in a chain (`MovedKeeps`, and what files, chains and names this renames), a cell behind the
end of all chains changes, a bad number becomes an end (`RepairKeeps`), a size is cut.
Which files there are is a matter of three levels of directories (`LiveOf`), so each of these
facts is shown for an entry at a place and then lifted.

`DotsStayRight` adds to them `DotInv`, in which a `.` or `..` is right when it names its cluster
now and no write left in the log changes it, or some write in the log does and all that do set
it right (`Settles`, `DotsIn`). Before the commit point this is said of any volume that the first write may
lead to, with the rest of the log (`RelinkDots`): `MovedDots` shows that the packet for a
directory's first cluster has the right `.` for its new cluster and the right `..` for every subdirectory
it lists outside its last cluster, and that the packet for another cluster, or of a file, touches
nobody's. Behind it every write is passed over one by one (`LinkedDots`). That a directory has
one place where it is listed (`ParentIs`) is `Unshared` of `KeepInv`. `DotsAssumption` says that
`.` and `..` are right before a tool runs, and that the third level of directories, the last
one the model reads, lists no further ones. What the property leaves out is in its comment:
subdirectories listed in the last of several clusters, which are finding 3 (`AllDotsRight`);
volumes on which removed directories are still listed; and what happens once a relocation was cut short.

### What is only model-checked

* Liveness: `Finishes`, the `Terminates` of `Scan` and `Tools`. The prover has no rule for
  fairness here.
* `HeapSound`, `FuseExact`, `MenusAgree`, `ModifyExact`, `KernelFiles`, `LayoutExact`,
  `PathExact`, `CodeMeansSource`, `ArgsSurvive`, `MemoExact`: they speak of
  chains, trees and nested statements, of which the models (`TypeInfo`, `Bridge`, `CodeGen`,
  `Params` ...) have recursive operators, and proofs about them are by induction over the data.
* `VisitsInOrder`, whose reference is the recursive visit of the objects.

## 6. Not modelled

* The parser and the compiler's emission of C tables (`parser.y`, `table_gen.cc`, `points.cc`,
  `instance_iter.cc`, `reloc.cc`, `writepkt.cc` of the compiler, `virt.cc`, `stat.cc`):
  translations without state whose meaning is in the models of the code that reads the
  tables. Arithmetic of expressions (`expr.h`, `binarithop.h`) is LLVM's.
* The read log of `log.c` (no caller), the use map (nothing reads it), the mmap back end (no
  cache), `scantool` and `fragtool` (callbacks that print), the formatting of values,
  argument parsing, statistics counters.
* The other descriptions; of ext2 directory entries, group tables and its two repairs; of vfat
  the geometry of the boot sector, FAT12's packing, FAT32's root chain and long names.
* Circular FAT chains, on which `fat_chain_count` does not end.
* Virtual types whose size is fixed (nothing is read for it), points-to ranges into virtual
  objects, descriptions that give a type another number of arguments than it takes.
* A tool after an access behind the table of `hits.c` that overwrote something the tool needs
  (`astray`); devices that grow while a tool runs.
* Write-back of dirty buffers by the kernel's block layer, which may happen in any order after
  a relocation in the kernel, and its errors; what the second `unlock_buffer` does to another
  thread's read; which bytes a page has after a failed read nobody looked at (any); and the reference counts of the kernel's type infos under races.
* Failure of `malloc`: the runtime asserts or ignores it everywhere. In the kernel module the
  failures it handles are modelled.
