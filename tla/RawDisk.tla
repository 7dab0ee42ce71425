------------------------------ MODULE RawDisk ------------------------------
(***************************************************************************)
(* What the I/O layer of the runtime promises its callers: a byte         *)
(* addressed device on which every read returns what the last writes left  *)
(* there.  There is no cache here.                                         *)
(*                                                                         *)
(* "up" is FALSE once a read failed and the process is gone; a restart     *)
(* opens the same device again.                                            *)
(***************************************************************************)
EXTENDS Integers

CONSTANTS
    NBytes,        \* size of the device in bytes
    Byte           \* the values of a byte

VARIABLES
    disk,          \* the device, one value per byte address
    ret,           \* the bytes the last read returned, lowest address first
    up             \* the process is running

vars == <<disk, ret, up>>

Addr == 0 .. NBytes - 1

Init ==
    /\ disk \in [Addr -> Byte]
    /\ ret = [i \in {} |-> 0]
    /\ up = TRUE

(* A read returns the bytes at off .. off+n-1, wherever they come from. *)
Read(off, n) ==
    /\ up
    /\ ret' = [i \in 0 .. n - 1 |-> disk[off + i]]
    /\ UNCHANGED <<disk, up>>

(* A read of a region the device cannot deliver ends the process. *)
Fail ==
    /\ up
    /\ up' = FALSE
    /\ UNCHANGED <<disk, ret>>

(* A write may change the written addresses and changes nothing else. *)
Write(off, n) ==
    /\ up
    /\ disk' \in [Addr -> Byte]
    /\ \A a \in Addr : a \notin off .. off + n - 1 => disk'[a] = disk[a]
    /\ UNCHANGED <<ret, up>>

Restart ==
    /\ up' = TRUE
    /\ ret' = [i \in {} |-> 0]
    /\ UNCHANGED disk

Next ==
    \/ \E off \in Addr, n \in 1 .. NBytes :
          /\ off + n <= NBytes
          /\ Read(off, n) \/ Write(off, n)
    \/ Fail
    \/ Restart

Spec == Init /\ [][Next]_vars
=============================================================================
