------------------------------- MODULE Kernel -------------------------------
(***************************************************************************)
(* The kernel module, its threads seen at two levels: as calls that bring  *)
(* the runtime up, use it and take it down (KernelLife), and, while it is  *)
(* up, as accesses that meet in the line cache (KernelIo).  A behaviour is *)
(* one of the two; the variables of the other stay as they are.            *)
(***************************************************************************)
EXTENDS KernelIo, KernelLife, TLC

VARIABLE level

(* The accesses TLC looks at: two lines of the first block, the last byte. *)
KernelAccesses == {<<0, 2>>, <<2, 1>>}

ASSUME KernelAssumption ==
    /\ LineBytes \in Nat \ {0} /\ BitsPerByte \in Nat \ {0} /\ Ents \in Nat \ {0, 1}
    /\ NBytes \in Nat \ {0} /\ MaxCtx \in Nat /\ MaxMangled \in Nat
    /\ Tools \intersect {"none", "get", "put", "mount", "access"} = {}
    /\ Accesses \subseteq Addr \X (1 .. LineBytes + 1)
    /\ PageBytes \in {LineBytes * k : k \in 1 .. NBytes} /\ NBytes % LineBytes = 0

Init ==
    \/ level = "calls" /\ LifeInit /\ KioInit /\ crew = Threads
    \/ level = "accesses" /\ LifeInit /\ KioInit

LifeStep == level = "calls" /\ LifeNext /\ UNCHANGED <<level, kiovars>>
IoStep   == level = "accesses" /\ KioNext /\ UNCHANGED <<level, lifevars>>

Next == LifeStep \/ IoStep
Spec == Init /\ [][Next]_<<level, kiovars, lifevars>>

-----------------------------------------------------------------------------
(* A read that met no other miss in its slots returns for each byte a      *)
(* value the byte had while the read ran, or one that an unfinished write  *)
(* has replaced.  A byte of a line in the cache is what the device holds,  *)
(* or such a replaced one, whatever other threads did meanwhile, unless    *)
(* two misses met in its slot (KernelIo).  Excepted are the bytes of       *)
(* blocks that a write marked up to date although they had not been read.  *)
ReadsRegular == JoinsSeen /\ LinesCoherent

(* A freed context, a closed device, a freed choice cache or missing code  *)
(* is used only after one of the sequences of calls that KernelLife names. *)
(* Unless inits and puts ran at the same time, between calls is_inited     *)
(* says whether there is a context, and there is only that one.            *)
FaultsExplained == FaultsCaused /\ StateAgrees

(* With one thread in it, the I/O layer implements a device without a      *)
(* cache (RawDisk): a read that sleeps between two lines looks atomic and  *)
(* returns no stale line, whatever was written and dropped before it.      *)
(* Excepted are answers after a failed read the code does not look at, and *)
(* of blocks that were marked up to date after one.                        *)
Implements == Raw!Spec

(* Symmetry for TLC: nothing tells these threads from one another.         *)
Interchangeable == Permutations(Threads)
=============================================================================
