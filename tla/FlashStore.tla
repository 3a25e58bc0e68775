----------------------------- MODULE FlashStore -----------------------------
(***************************************************************************)
(* What /dev/spiflash promises to its users: bytes at addresses, one file  *)
(* pointer for each open descriptor, reads that see every earlier write    *)
(* through any descriptor, and a power failure that damages at most one    *)
(* erase sector.  Module SpiFlash implements it.                           *)
(***************************************************************************)
EXTENDS Naturals, Functions

CONSTANTS
    Fds,         \* descriptors
    FlashSize,   \* bytes on the chip
    SectorSize,  \* bytes that are erased together
    Bytes        \* byte values

VARIABLES
    data,  \* the bytes as the users see them
    ptr,   \* the file pointers, a function on the open descriptors
    got    \* what a read returned, a function on 0 .. count - 1, until the next call

Addrs == 0 .. FlashSize - 1
SameSector(a, b) == a \div SectorSize = b \div SectorSize

Init == data \in [Addrs -> Bytes] /\ ptr = <<>> /\ got = <<>>

Open(f) ==
    /\ f \notin DOMAIN ptr
    /\ ptr' = [g \in DOMAIN ptr \cup {f} |-> IF g = f THEN 0 ELSE ptr[g]]
    /\ got' = <<>>
    /\ UNCHANGED data

Close(f) == ptr' = Restrict(ptr, DOMAIN ptr \ {f}) /\ UNCHANGED <<data, got>>

Seek(f, p) == ptr' = [ptr EXCEPT ![f] = p] /\ got' = <<>> /\ UNCHANGED data

\* A call that is not over yet.
Enter == got' = <<>> /\ UNCHANGED <<data, ptr>>

\* n copies of b; a long write is several of these.
Write(f, n, b) ==
    /\ data' = [a \in Addrs |-> IF a \in ptr[f] .. ptr[f] + n - 1 THEN b ELSE data[a]]
    /\ ptr' = [ptr EXCEPT ![f] = @ + n]
    /\ UNCHANGED got

Read(f, n) ==
    /\ got' = [i \in 0 .. n - 1 |-> data[ptr[f] + i]]
    /\ ptr' = [ptr EXCEPT ![f] = @ + n]
    /\ UNCHANGED data

\* All descriptors are gone, and whatever one sector a holds.
PowerFail ==
    /\ ptr' = <<>> /\ got' = <<>>
    /\ data' \in [Addrs -> Bytes]
    /\ \E a \in Addrs : \A b \in Addrs : ~SameSector(a, b) => data'[b] = data[b]

Next ==
    \/ \E f \in Fds : Open(f)
    \/ \E f \in DOMAIN ptr :
          \/ Close(f)
          \/ \E p \in 0 .. FlashSize : Seek(f, p)
          \/ \E n \in 0 .. FlashSize - ptr[f] : Read(f, n) \/ \E b \in Bytes : Write(f, n, b)
    \/ Enter \/ PowerFail

Spec == Init /\ [][Next]_<<data, ptr, got>>
=============================================================================
