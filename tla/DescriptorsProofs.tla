------------------------- MODULE DescriptorsProofs -------------------------
(***************************************************************************)
(* Proofs about Descriptors, for tables of any size.  The calls of the     *)
(* kernel nest, so what is proved of each is a lemma about the tables it   *)
(* leaves, and the lemmas of the outer calls rest on those of the inner.   *)
(***************************************************************************)
EXTENDS Descriptors, OrderProofs

Slots == 1 .. MAX_FLASH_FDS
Volumes == {"none", "registered", "mounted"}
KerType == [fdtable : [Fd -> Devices \cup {"free", "file"}], fd_list : [Slots -> Fd],
            flash_fd : Fd \cup {-1}, volume : Volumes]

\* Table and slots agree, no two slots are one descriptor's, and standard input
\* and output are the console, so that no slot is taken for descriptor 0.
SlotsOf(k) ==
    /\ \A f \in Stdio : k.fdtable[f] = "console"
    /\ \A i \in Slots : k.fd_list[i] # 0 => k.fdtable[k.fd_list[i]] = "spiflash"
    /\ \A i, j \in Slots : k.fd_list[i] # 0 /\ k.fd_list[i] = k.fd_list[j] => i = j
    /\ \A f \in Fd : k.fdtable[f] = "spiflash" => \E i \in Slots : k.fd_list[i] = f

KInv(k) == k \in KerType /\ SlotsOf(k)

\* The file system's descriptor is the flash, and a mounted volume has one.
FlashOf(k) ==
    /\ k.flash_fd # -1 => k.fdtable[k.flash_fd] = "spiflash"
    /\ k.volume = "mounted" => k.flash_fd # -1

\* From k a call came to m and to descriptor f, or to -1: what was open is as it
\* was, and open beside it is at most f, and the flash if the file system took it.
Grown(k, m, f) ==
    /\ f = -1 \/ (f \in FreeFds(k) /\ f # m.flash_fd /\ m.fdtable[f] # "free")
    /\ m.flash_fd = k.flash_fd \/ (k.flash_fd = -1 /\ m.flash_fd \in FreeFds(k))
    /\ \A g \in Fd : k.fdtable[g] # "free" => m.fdtable[g] = k.fdtable[g]
    /\ \A g \in Fd : k.fdtable[g] = "free" /\ m.fdtable[g] # "free" => g = f \/ g = m.flash_fd

-----------------------------------------------------------------------------
LEMMA FdFacts == /\ Fd \subseteq Nat /\ Stdio \subseteq Fd /\ 0 \in Stdio /\ -1 \notin Fd
                 /\ Slots \subseteq Nat
                 /\ \A f \in Fd : ~(f < 0) /\ (f \notin Stdio => f > 0)
BY TablesAssumption DEF Fd, Stdio, Slots

\* fd_alloc finds a free entry when there is one, and it is not standard input or
\* output; new_fd finds a free slot.
LEMMA FreeFound ==
    ASSUME NEW k, KInv(k)
    PROVE  /\ FreeFds(k) \subseteq Fd /\ FreeFds(k) \cap Stdio = {}
           /\ FreeFds(k) # {} => Min(FreeFds(k)) \in FreeFds(k)
           /\ FreeSlots(k) # {} => Min(FreeSlots(k)) \in FreeSlots(k)
           /\ FreeSlots(k) = {i \in Slots : k.fd_list[i] = 0}
<1>1. FreeFds(k) \subseteq Fd /\ FreeFds(k) \cap Stdio = {}
  BY DEF FreeFds, KInv, SlotsOf
<1>2. FreeSlots(k) = {i \in Slots : k.fd_list[i] = 0}
  BY DEF FreeSlots, KInv, KerType
<1> QED
  BY <1>1, <1>2, MinIs, FdFacts

\* Taking a free entry for something else than the flash.
LEMMA AllocInv ==
    ASSUME NEW k, KInv(k), FreeFds(k) # {}, NEW what \in (Devices \cup {"file"}) \ {"spiflash"}
    PROVE  LET f == Min(FreeFds(k))
               a == fd_alloc(k, what)
           IN  /\ KInv(a) /\ f \in FreeFds(k)
               /\ a.fdtable = [k.fdtable EXCEPT ![f] = what]
               /\ a.fd_list = k.fd_list /\ a.flash_fd = k.flash_fd /\ a.volume = k.volume
<1> DEFINE f == Min(FreeFds(k))
           a == fd_alloc(k, what)
<1>1. f \in FreeFds(k) /\ f \in Fd /\ f \notin Stdio /\ k.fdtable[f] = "free"
  BY FreeFound DEF FreeFds
<1> HIDE DEF f
<1>2. /\ a.fdtable = [k.fdtable EXCEPT ![f] = what]
      /\ a.fd_list = k.fd_list /\ a.flash_fd = k.flash_fd /\ a.volume = k.volume
      /\ a \in KerType
  BY <1>1 DEF f, fd_alloc, KInv, KerType
<1>3. SlotsOf(a)
  BY <1>1, <1>2 DEF KInv, KerType, SlotsOf
<1> QED
  BY <1>1, <1>2, <1>3 DEF f, KInv

\* Opening a device: nothing changes, or a free entry is taken and, for the flash,
\* a slot with it.
LEMMA OpenDeviceInv ==
    ASSUME NEW k, KInv(k), NEW name
    PROVE  LET o == open_device(k, name)
           IN  \/ o = Failed(k)
               \/ /\ KInv(o.ker) /\ o.fd \in FreeFds(k) /\ name \in Devices
                  /\ o.ker.fdtable = [k.fdtable EXCEPT ![o.fd] = name]
                  /\ o.ker.flash_fd = k.flash_fd /\ o.ker.volume = k.volume
<1> DEFINE o == open_device(k, name)
           f == Min(FreeFds(k))
           s == Min(FreeSlots(k))
<1>1. CASE ~CanOpen(k, name)
  BY <1>1 DEF open_device
<1>2. CASE CanOpen(k, name) /\ name # "spiflash"
  <2>1. o.ker = fd_alloc(k, name) /\ o.fd = f
    BY <1>2 DEF open_device
  <2>2. FreeFds(k) # {} /\ name \in (Devices \cup {"file"}) \ {"spiflash"}
    BY <1>2 DEF CanOpen
  <2> QED
    BY <1>2, <2>1, <2>2, AllocInv DEF CanOpen
<1>3. CASE CanOpen(k, name) /\ name = "spiflash"
  <2>1. f \in FreeFds(k) /\ f \in Fd /\ f \notin Stdio /\ k.fdtable[f] = "free"
    BY <1>3, FreeFound DEF CanOpen, FreeFds
  <2>2. s \in Slots /\ k.fd_list[s] = 0
    BY <1>3, FreeFound DEF CanOpen
  <2>3. f # 0
    BY <2>1, FdFacts
  <2>4. FreeSlots(fd_alloc(k, name)) = FreeSlots(k)
    BY DEF fd_alloc, FreeSlots, KInv, KerType
  <2>5. o.ker = TakeSlot(fd_alloc(k, name), f) /\ o.fd = f
    BY <1>3 DEF open_device
  <2> HIDE DEF f, s
  <2>6. o.ker = [fd_alloc(k, name) EXCEPT !.fd_list[s] = f]
    BY <2>4, <2>5 DEF TakeSlot, s
  <2>7. /\ o.ker.fdtable = [k.fdtable EXCEPT ![f] = "spiflash"]
        /\ o.ker.fd_list = [k.fd_list EXCEPT ![s] = f]
        /\ o.ker.flash_fd = k.flash_fd /\ o.ker.volume = k.volume
        /\ o.ker \in KerType
    <3> DEFINE a == fd_alloc(k, name)
    <3>1. /\ a \in KerType /\ a.fdtable = [k.fdtable EXCEPT ![f] = "spiflash"]
          /\ a.fd_list = k.fd_list /\ a.flash_fd = k.flash_fd /\ a.volume = k.volume
      BY <1>3, <2>1 DEF fd_alloc, f, KInv, KerType, Devices
    <3> HIDE DEF a, o
    <3>2. o.ker = [a EXCEPT !.fd_list[s] = f]
      BY <2>6 DEF a
    <3> QED
      BY <2>1, <2>2, <3>1, <3>2 DEF KerType
  <2>8. SlotsOf(o.ker)
    <3> HIDE DEF o
    <3>1. \A i \in Slots : k.fd_list[i] # f
      BY <2>1, <2>3 DEF KInv, SlotsOf
    <3>2. \A g \in Stdio : o.ker.fdtable[g] = "console"
      BY <2>1, <2>7 DEF KInv, SlotsOf, KerType
    <3>3. \A i \in Slots : o.ker.fd_list[i] # 0 => o.ker.fdtable[o.ker.fd_list[i]] = "spiflash"
      BY <2>1, <2>2, <2>7, <3>1 DEF KInv, SlotsOf, KerType
    <3>4. \A i, j \in Slots : o.ker.fd_list[i] # 0 /\ o.ker.fd_list[i] = o.ker.fd_list[j] => i = j
      BY <2>2, <2>7, <3>1 DEF KInv, SlotsOf, KerType
    <3>5. \A g \in Fd : o.ker.fdtable[g] = "spiflash" => \E i \in Slots : o.ker.fd_list[i] = g
      <4> SUFFICES ASSUME NEW g \in Fd, o.ker.fdtable[g] = "spiflash"
                   PROVE  \E i \in Slots : o.ker.fd_list[i] = g
        OBVIOUS
      <4>1. CASE g = f
        BY <2>2, <2>7, <4>1 DEF KInv, KerType
      <4>2. CASE g # f
        <5>1. k.fdtable[g] = "spiflash"
          BY <2>7, <4>2 DEF KInv, KerType
        <5>2. PICK i \in Slots : k.fd_list[i] = g
          BY <5>1 DEF KInv, SlotsOf
        <5>3. g # 0
          BY <5>1, FdFacts DEF KInv, SlotsOf
        <5> QED
          BY <2>2, <2>7, <5>2, <5>3 DEF KInv, KerType
      <4> QED
        BY <4>1, <4>2
    <3> QED
      BY <3>2, <3>3, <3>4, <3>5 DEF SlotsOf
  <2> QED
    BY <1>3, <2>1, <2>5, <2>7, <2>8 DEF KInv, Devices
<1> QED
  BY <1>1, <1>2, <1>3

\* Giving back the entry of something else than the flash.
LEMMA DeallocInv ==
    ASSUME NEW k, KInv(k), NEW f \in Fd \ Stdio, k.fdtable[f] # "spiflash"
    PROVE  LET d == fd_dealloc(k, f)
           IN  /\ KInv(d) /\ d.fdtable = [k.fdtable EXCEPT ![f] = "free"]
               /\ d.flash_fd = k.flash_fd /\ d.volume = k.volume
<1> DEFINE d == fd_dealloc(k, f)
<1>1. /\ d \in KerType /\ d.fdtable = [k.fdtable EXCEPT ![f] = "free"]
      /\ d.fd_list = k.fd_list /\ d.flash_fd = k.flash_fd /\ d.volume = k.volume
  BY DEF fd_dealloc, KInv, KerType
<1>2. SlotsOf(d)
  BY <1>1 DEF KInv, KerType, SlotsOf
<1> QED
  BY <1>1, <1>2 DEF KInv

\* Closing a descriptor gives back its entry and, for the flash, its slot.
LEMMA CloseInv ==
    ASSUME NEW k, KInv(k), NEW f \in Fd
    PROVE  /\ KInv(close(k, f))
           /\ close(k, f).flash_fd = k.flash_fd /\ close(k, f).volume = k.volume
           /\ Closable(k, f) => close(k, f).fdtable = [k.fdtable EXCEPT ![f] = "free"]
<1> DEFINE c == close(k, f)
           held == {i \in DOMAIN k.fd_list : k.fd_list[i] = f}
<1>1. CASE ~Closable(k, f)
  BY <1>1 DEF close
<1>2. CASE Closable(k, f) /\ k.fdtable[f] # "spiflash"
  <2>1. c = fd_dealloc(k, f)
    BY <1>2 DEF close, CloseEntry, KInv, KerType
  <2> QED
    BY <1>2, <2>1, DeallocInv DEF Closable
<1>3. CASE Closable(k, f) /\ k.fdtable[f] = "spiflash"
  <2>1. held = {i \in Slots : k.fd_list[i] = f} /\ held \subseteq Nat
    BY FdFacts DEF KInv, KerType
  <2>2. held # {}
    BY <1>3, <2>1 DEF KInv, SlotsOf
  <2> DEFINE s == Min(held)
  <2>3. s \in Slots /\ k.fd_list[s] = f /\ f # 0
    BY <1>3, <2>1, <2>2, MinIs, FdFacts DEF Closable
  <2>4. c = fd_dealloc([k EXCEPT !.fd_list = [k.fd_list EXCEPT ![s] = 0]], f)
    BY <1>3, <2>2 DEF close, CloseEntry
  <2> HIDE DEF s, held
  <2>5. /\ c \in KerType /\ c.fdtable = [k.fdtable EXCEPT ![f] = "free"]
        /\ c.fd_list = [k.fd_list EXCEPT ![s] = 0]
        /\ c.flash_fd = k.flash_fd /\ c.volume = k.volume
    <3> DEFINE b == [k EXCEPT !.fd_list = [k.fd_list EXCEPT ![s] = 0]]
    <3>1. /\ b \in KerType /\ b.fdtable = k.fdtable /\ b.fd_list = [k.fd_list EXCEPT ![s] = 0]
          /\ b.flash_fd = k.flash_fd /\ b.volume = k.volume
      BY <2>3, FdFacts DEF KInv, KerType
    <3> HIDE DEF b, c
    <3>2. c = [b EXCEPT !.fdtable[f] = "free"]
      BY <2>4 DEF b, c, fd_dealloc
    <3> QED
      BY <3>1, <3>2 DEF KerType
  <2>6. \A i \in Slots : i # s => k.fd_list[i] # f
    BY <2>3 DEF KInv, SlotsOf
  <2>7. \A g \in Fd : g # f /\ k.fdtable[g] = "spiflash" => \E i \in Slots : c.fd_list[i] = g
    BY <2>3, <2>5 DEF KInv, KerType, SlotsOf
  <2>8. SlotsOf(c)
    BY <1>3, <2>3, <2>5, <2>6, <2>7 DEF Closable, KInv, KerType, SlotsOf
  <2> QED
    BY <2>5, <2>8 DEF KInv
<1> QED
  BY <1>1, <1>2, <1>3

-----------------------------------------------------------------------------
(* The volume. *)

\* The file system opens the flash unless it has it open, and otherwise leaves the
\* tables as they were.
LEMMA FlashInitInv ==
    ASSUME NEW k, KInv(k)
    PROVE  LET i == intflash_init(k)
           IN  /\ KInv(i) /\ i.volume = k.volume /\ Grown(k, i, -1)
               /\ FlashOf(k) => FlashOf(i)
<1> DEFINE i == intflash_init(k)
           o == open_device(k, "spiflash")
<1>0. k.flash_fd \in Fd \cup {-1} /\ k \in KerType
  BY DEF KInv, KerType
<1>1. CASE i = k
  BY <1>1 DEF Grown
<1>2. CASE k.flash_fd = -1
  <2>1. i = [o.ker EXCEPT !.flash_fd = o.fd]
    BY <1>2 DEF intflash_init
  <2>2. CASE o = Failed(k)
    BY <1>0, <1>1, <1>2, <2>1, <2>2 DEF Failed, KerType
  <2>3. CASE o # Failed(k)
    <3>1. /\ KInv(o.ker) /\ o.fd \in FreeFds(k)
          /\ o.ker.fdtable = [k.fdtable EXCEPT ![o.fd] = "spiflash"]
          /\ o.ker.flash_fd = k.flash_fd /\ o.ker.volume = k.volume
      BY <2>3, OpenDeviceInv
    <3> HIDE DEF o
    <3>2. o.fd \in Fd /\ o.fd \in FreeFds(k) /\ k.fdtable[o.fd] = "free"
      BY <3>1 DEF FreeFds
    <3>3. /\ i \in KerType /\ i.fdtable = o.ker.fdtable /\ i.fd_list = o.ker.fd_list
          /\ i.flash_fd = o.fd /\ i.volume = k.volume
      BY <2>1, <3>1, <3>2 DEF KInv, KerType
    <3> HIDE DEF i
    <3>4. KInv(i)
      BY <3>1, <3>3 DEF KInv, SlotsOf
    <3>5. Grown(k, i, -1)
      BY <1>0, <1>2, <3>1, <3>2, <3>3 DEF KerType, Grown
    <3>6. FlashOf(i)
      BY <1>0, <3>1, <3>2, <3>3, FdFacts DEF KerType, FlashOf
    <3> QED
      BY <3>3, <3>4, <3>5, <3>6 DEF i
  <2> QED
    BY <2>2, <2>3
<1>3. CASE k.flash_fd # -1
  <2>1. ~(k.flash_fd < 0)
    BY <1>0, <1>3, FdFacts
  <2> QED
    BY <1>1, <2>1 DEF intflash_init
<1> QED
  BY <1>2, <1>3

\* Whatever a mount comes to.
LEMMA MountInv ==
    ASSUME NEW k, KInv(k), NEW m \in mount_volume(k)
    PROVE  KInv(m) /\ Grown(k, m, -1) /\ (FlashOf(k) => FlashOf(m))
<1> DEFINE i == intflash_init(k)
           n == [i EXCEPT !.volume = "mounted"]
<1>1. KInv(i) /\ Grown(k, i, -1) /\ (FlashOf(k) => FlashOf(i))
  BY FlashInitInv
<1>2. Grown(k, k, -1)
  BY DEF Grown
<1>3. m \in {k, i} \/ (m = n /\ i.flash_fd > 0)
  BY DEF mount_volume
<1> HIDE DEF i
<1>4. /\ n \in KerType /\ n.fdtable = i.fdtable /\ n.fd_list = i.fd_list
      /\ n.flash_fd = i.flash_fd /\ n.volume = "mounted"
  BY <1>1 DEF KInv, KerType, Volumes
<1> HIDE DEF n
<1>5. KInv(n) /\ Grown(k, n, -1)
  BY <1>1, <1>4 DEF KInv, SlotsOf, Grown
<1>6. i.flash_fd > 0 => i.flash_fd # -1
  OBVIOUS
<1>7. FlashOf(k) /\ i.flash_fd > 0 => FlashOf(n)
  BY <1>1, <1>4, <1>6 DEF FlashOf
<1> QED
  BY <1>1, <1>2, <1>3, <1>5, <1>7

\* A file system that is unmounted closes its descriptor.
LEMMA ReleaseInv ==
    ASSUME NEW k, KInv(k)
    PROVE  LET r == intflash_release(k)
           IN  /\ KInv(r) /\ r.flash_fd = -1 /\ r.volume = k.volume
               /\ FlashOf(k) => \A g \in Fd : r.fdtable[g] = IF g = k.flash_fd THEN "free" ELSE k.fdtable[g]
<1> DEFINE r == intflash_release(k)
           c == IF k.flash_fd > 0 THEN close(k, k.flash_fd) ELSE k
<1>0. k.flash_fd \in Fd \cup {-1} /\ k \in KerType
  BY DEF KInv, KerType
<1>1. KInv(c) /\ c.volume = k.volume
  <2>1. CASE k.flash_fd > 0
    <3>1. k.flash_fd \in Fd
      BY <1>0, <2>1
    <3> QED
      BY <2>1, <3>1, CloseInv
  <2> QED
    BY <2>1
<1>2. FlashOf(k) => \A g \in Fd : c.fdtable[g] = IF g = k.flash_fd THEN "free" ELSE k.fdtable[g]
  <2> SUFFICES ASSUME FlashOf(k), NEW g \in Fd
               PROVE  c.fdtable[g] = IF g = k.flash_fd THEN "free" ELSE k.fdtable[g]
    OBVIOUS
  <2>1. CASE k.flash_fd = -1
    BY <2>1, FdFacts
  <2>2. CASE k.flash_fd # -1
    <3>1. k.flash_fd \in Fd /\ k.fdtable[k.flash_fd] = "spiflash" /\ k.flash_fd \notin Stdio
      BY <1>0, <2>2 DEF FlashOf, KInv, SlotsOf
    <3>2. k.flash_fd > 0 /\ Closable(k, k.flash_fd)
      BY <3>1, FdFacts DEF Closable
    <3>3. c.fdtable = [k.fdtable EXCEPT ![k.flash_fd] = "free"]
      BY <3>1, <3>2, CloseInv
    <3> QED
      BY <1>0, <3>1, <3>3 DEF KerType
  <2> QED
    BY <2>1, <2>2
<1>3. r = [c EXCEPT !.flash_fd = -1]
  BY DEF intflash_release
<1> HIDE DEF c, r
<1>4. /\ r \in KerType /\ r.fdtable = c.fdtable /\ r.fd_list = c.fd_list
      /\ r.flash_fd = -1 /\ r.volume = c.volume
  BY <1>1, <1>3 DEF KInv, KerType
<1>5. KInv(r)
  BY <1>1, <1>4 DEF KInv, SlotsOf
<1> QED
  BY <1>1, <1>2, <1>4, <1>5 DEF r

\* What opening a file, a device or something that is neither comes to: the
\* descriptor is a new one and is what was asked for.
LEMMA OpenInv ==
    ASSUME NEW k, KInv(k), NEW name, NEW o \in open(k, name)
    PROVE  /\ KInv(o.ker) /\ (FlashOf(k) => FlashOf(o.ker) /\ Grown(k, o.ker, o.fd))
           /\ o.fd = -1 \/ (o.fd \in FreeFds(k) /\ o.fd \in Fd /\ o.ker.fdtable[o.fd] = name
                            /\ name \in Devices \cup {"file"})
<1> USE DEF KInv, KerType
<1>1. CASE name # "file"
  <2>1. o = open_device(k, name)
    BY <1>1 DEF open
  <2>2. CASE o = Failed(k)
    BY <2>2 DEF Failed, Grown
  <2>3. CASE o # Failed(k)
    <3>1. /\ KInv(o.ker) /\ o.fd \in FreeFds(k) /\ name \in Devices
          /\ o.ker.fdtable = [k.fdtable EXCEPT ![o.fd] = name]
          /\ o.ker.flash_fd = k.flash_fd /\ o.ker.volume = k.volume
      BY <2>1, <2>3, OpenDeviceInv
    <3>2. o.fd \in Fd /\ k.fdtable[o.fd] = "free" /\ o.ker.fdtable[o.fd] = name /\ name # "free"
      BY <3>1 DEF FreeFds, Devices
    <3>3. FlashOf(k) => o.fd # k.flash_fd
      BY <3>2, FdFacts DEF FlashOf
    <3>4. FlashOf(k) => FlashOf(o.ker) /\ Grown(k, o.ker, o.fd)
      BY <3>1, <3>2, <3>3 DEF FlashOf, Grown
    <3> QED
      BY <3>1, <3>2, <3>4
  <2> QED
    BY <2>2, <2>3
<1>2. CASE name = "file"
  <2> DEFINE f == Min(FreeFds(k))
             a == fd_alloc(k, "file")
  <2>1. o \in fileio_open(k)
    BY <1>2 DEF open
  <2>2. CASE FreeFds(k) = {}
    BY <2>1, <2>2 DEF fileio_open, Failed, Grown
  <2>3. CASE FreeFds(k) # {}
    <3>1. /\ KInv(a) /\ f \in FreeFds(k) /\ f \in Fd /\ f \notin Stdio
          /\ a.fdtable = [k.fdtable EXCEPT ![f] = "file"]
          /\ a.flash_fd = k.flash_fd /\ a.volume = k.volume
      <4>1. "file" \in (Devices \cup {"file"}) \ {"spiflash"}
        OBVIOUS
      <4> QED
        BY <2>3, <4>1, AllocInv, FreeFound
    <3>2. k.fdtable[f] = "free"
      BY <3>1 DEF FreeFds
    <3>3. PICK m \in mount_volume(a) : \/ o = [ker |-> m, fd |-> f]
                                       \/ o = Failed(fd_dealloc(m, f))
      BY <2>1, <2>3 DEF fileio_open, Mounted
    <3> HIDE DEF f, a
    <3>4. KInv(m) /\ Grown(a, m, -1) /\ (FlashOf(a) => FlashOf(m))
      BY <3>1, MountInv
    <3>5. FlashOf(k) => FlashOf(a) /\ f # k.flash_fd
      BY <3>1, <3>2, FdFacts DEF FlashOf
    <3>6. m.fdtable[f] = "file"
      BY <3>1, <3>4 DEF Grown
    <3>7. FlashOf(k) => Grown(k, m, f)
      <4> SUFFICES ASSUME FlashOf(k) PROVE Grown(k, m, f)
        OBVIOUS
      <4>1. f # m.flash_fd
        BY <3>1, <3>4, <3>5 DEF Grown, FreeFds
      <4>2. m.flash_fd = k.flash_fd \/ (k.flash_fd = -1 /\ m.flash_fd \in FreeFds(k))
        BY <3>1, <3>4 DEF Grown, FreeFds
      <4>3. \A g \in Fd : k.fdtable[g] # "free" => m.fdtable[g] = k.fdtable[g]
        BY <3>1, <3>2, <3>4 DEF Grown
      <4>4. \A g \in Fd : k.fdtable[g] = "free" /\ m.fdtable[g] # "free" => g = f \/ g = m.flash_fd
        BY <3>1, <3>4, FdFacts DEF Grown
      <4> QED
        BY <3>1, <3>6, <4>1, <4>2, <4>3, <4>4 DEF Grown
    <3>8. CASE o = [ker |-> m, fd |-> f]
      BY <1>2, <3>1, <3>4, <3>5, <3>6, <3>7, <3>8
    <3>9. CASE o = Failed(fd_dealloc(m, f))
      <4> DEFINE d == fd_dealloc(m, f)
      <4>1. /\ KInv(d) /\ d.fdtable = [m.fdtable EXCEPT ![f] = "free"]
            /\ d.flash_fd = m.flash_fd /\ d.volume = m.volume
        BY <3>1, <3>4, <3>6, DeallocInv
      <4>2. o.ker = d /\ o.fd = -1
        BY <3>9 DEF Failed
      <4> HIDE DEF d
      <4>3. FlashOf(k) => Grown(k, d, -1)
        BY <3>1, <3>2, <3>4, <3>7, <4>1 DEF Grown
      <4>4. FlashOf(k) => FlashOf(d)
        BY <3>1, <3>4, <3>5, <3>6, <4>1 DEF FlashOf
      <4> QED
        BY <4>1, <4>2, <4>3, <4>4
    <3> QED
      BY <3>3, <3>8, <3>9
  <2> QED
    BY <2>2, <2>3
<1> QED
  BY <1>1, <1>2

\* Loading a program leaves no descriptor open but the file system's, and its own
\* if that is a console.
LEMMA LoadInv ==
    ASSUME NEW k, KInv(k), NEW name, NEW found, NEW l \in elf_load(k, name, found)
    PROVE  /\ KInv(l.ker) /\ l.lost \subseteq Fd
           /\ FlashOf(k) => FlashOf(l.ker)
           /\ FlashOf(k) => \/ l.lost = {} /\ Grown(k, l.ker, -1)
                            \/ \E f \in FreeFds(k) : l.lost = {f} /\ Grown(k, l.ker, f)
                                                     /\ l.ker.fdtable[f] = "console"
<1> USE DEF KInv, KerType
<1>1. PICK o \in open(k, name) :
         IF o.fd < 0 THEN l.ker = o.ker /\ l.lost = {}
         ELSE l.ker = close(o.ker, o.fd) /\ l.lost = {f \in {o.fd} : ~Closable(o.ker, f)}
  BY DEF elf_load
<1>2. /\ KInv(o.ker) /\ (FlashOf(k) => FlashOf(o.ker) /\ Grown(k, o.ker, o.fd))
      /\ o.fd = -1 \/ (o.fd \in FreeFds(k) /\ o.fd \in Fd /\ o.ker.fdtable[o.fd] = name
                       /\ name \in Devices \cup {"file"})
  BY OpenInv
<1>3. CASE o.fd = -1
  BY <1>1, <1>2, <1>3
<1>4. CASE o.fd # -1
  <2>1. o.fd \in FreeFds(k) /\ o.fd \in Fd /\ o.fd \notin Stdio /\ k.fdtable[o.fd] = "free"
    BY <1>2, <1>4, FreeFound DEF FreeFds
  <2>2. l.ker = close(o.ker, o.fd) /\ l.lost = {f \in {o.fd} : ~Closable(o.ker, f)}
    BY <1>1, <2>1, FdFacts
  <2>3. CASE Closable(o.ker, o.fd)
    <3>1. l.lost = {}
      BY <2>2, <2>3
    <3>4. /\ KInv(l.ker) /\ l.ker.fdtable = [o.ker.fdtable EXCEPT ![o.fd] = "free"]
          /\ l.ker.flash_fd = o.ker.flash_fd /\ l.ker.volume = o.ker.volume
      BY <1>2, <2>1, <2>2, <2>3, CloseInv
    <3>5. FlashOf(k) => o.fd # o.ker.flash_fd
      BY <1>2, <1>4 DEF Grown
    <3>6. FlashOf(k) => FlashOf(l.ker)
      BY <1>2, <3>4, <3>5 DEF FlashOf
    <3>7. FlashOf(k) => Grown(k, l.ker, -1)
      BY <1>2, <2>1, <3>4 DEF Grown
    <3> QED
      BY <3>1, <3>4, <3>6, <3>7
  <2>4. CASE ~Closable(o.ker, o.fd)
    <3>1. l.ker = o.ker /\ l.lost = {o.fd}
      BY <2>2, <2>4 DEF close
    <3>2. o.ker.fdtable[o.fd] = "console"
      BY <1>2, <1>4, <2>1, <2>4 DEF Closable, Devices
    <3> QED
      BY <1>2, <2>1, <3>1, <3>2
  <2> QED
    BY <2>3, <2>4
<1> QED
  BY <1>3, <1>4

-----------------------------------------------------------------------------
(* Whatever programs do. *)

SInv == DescTypeOK /\ KInv(ker)

LEMMA MatchFromInv == SInv => SlotsMatch
<1> SUFFICES ASSUME SInv PROVE SlotsMatch
  OBVIOUS
<1>1. ASSUME NEW f \in Fd, ker.fdtable[f] = "spiflash"
      PROVE  \E i \in Slots : ker.fd_list[i] = f /\ \A j \in Slots : ker.fd_list[j] = f => j = i
  <2>1. f # 0
    BY <1>1, FdFacts DEF SInv, KInv, SlotsOf
  <2> QED
    BY <1>1, <2>1 DEF SInv, KInv, SlotsOf
<1> QED
  BY <1>1 DEF SlotsMatch, SInv, KInv, SlotsOf, Slots

\* The types of what is not in the kernel's tables.
RestType ==
    /\ dhnd \in [1 .. MAX_DHND -> {"free", "open", "stale"}]
    /\ running \in {"init", "program", "supervisor"}
    /\ trapped \in {"none", "init", "program"}
    /\ own \subseteq Fd /\ left \subseteq Fd /\ lost \subseteq Fd

LEMMA RestOfType == DescTypeOK <=> ker \in KerType /\ RestType
BY DEF DescTypeOK, RestType, KerType, Slots, Volumes

\* Unmounting and registering the volume, as far as the tables go.
LEMMA SetVolumeInv ==
    ASSUME NEW k, KInv(k), NEW v \in Volumes
    PROVE  LET n == [k EXCEPT !.volume = v]
           IN  /\ KInv(n) /\ n.fdtable = k.fdtable /\ n.flash_fd = k.flash_fd
               /\ FlashOf(k) /\ v # "mounted" => FlashOf(n)
<1> DEFINE n == [k EXCEPT !.volume = v]
<1>1. /\ n \in KerType /\ n.fdtable = k.fdtable /\ n.fd_list = k.fd_list
      /\ n.flash_fd = k.flash_fd /\ n.volume = v
  BY DEF KInv, KerType
<1> HIDE DEF n
<1>2. KInv(n) /\ (FlashOf(k) /\ v # "mounted" => FlashOf(n))
  BY <1>1 DEF KInv, SlotsOf, FlashOf
<1> QED
  BY <1>1, <1>2 DEF n

LEMMA StaleType == RestType => Stale \in [1 .. MAX_DHND -> {"free", "open", "stale"}]
BY DEF RestType, Stale

LEMMA SlotsStep == SInv /\ [Next]_vars => SInv'
<1> SUFFICES ASSUME SInv, [Next]_vars PROVE SInv'
  OBVIOUS
<1>0. KInv(ker) /\ RestType
  BY RestOfType DEF SInv
<1> SUFFICES KInv(ker') /\ RestType'
  BY DEF SInv, DescTypeOK, RestType, KInv, KerType, Slots, Volumes
<1>1. ASSUME NEW name \in Names, SYS_open(name) PROVE KInv(ker') /\ RestType'
  <2>1. PICK o \in open(ker, name) : ker' = o.ker /\ own' = own \cup ({o.fd} \ {-1})
    BY <1>1 DEF SYS_open
  <2> QED
    BY <1>0, <1>1, <2>1, OpenInv DEF SYS_open, RestType
<1>2. ASSUME NEW f \in Fd, SYS_close(f) PROVE KInv(ker') /\ RestType'
  BY <1>0, <1>2, CloseInv DEF SYS_close, RestType
<1>3. CASE SYS_mount
  <2>1. KInv([ker EXCEPT !.volume = "registered"])
    BY <1>0, SetVolumeInv DEF Volumes
  <2> QED
    BY <1>0, <1>3, <2>1, MountInv, StaleType DEF SYS_mount, RestType
<1>4. ASSUME NEW t, SYS_umount(t) PROVE KInv(ker') /\ RestType'
  <2>1. KInv(f_unmount(ker))
    BY <1>0, SetVolumeInv DEF f_unmount, Volumes
  <2>2. KInv(intflash_release(f_unmount(ker)))
    BY <2>1, ReleaseInv
  <2> QED
    BY <1>0, <1>4, <2>1, <2>2, StaleType DEF SYS_umount, RestType
<1>5. CASE SYS_opendir
  <2> DEFINE free == {d \in DOMAIN dhnd : dhnd[d] = "free"}
  <2>1. free \subseteq 1 .. MAX_DHND /\ free \subseteq Nat /\ free # {}
    BY <1>0, <1>5, TablesAssumption DEF SYS_opendir, RestType
  <2>2. Min(free) \in 1 .. MAX_DHND
    BY <2>1, MinIs
  <2>3. ker' \in mount_volume(ker)
        /\ (dhnd' = dhnd \/ dhnd' = [dhnd EXCEPT ![Min(free)] = "open"])
    BY <1>5 DEF SYS_opendir, Mounted
  <2> HIDE DEF free
  <2>4. RestType'
    BY <1>0, <1>5, <2>2, <2>3 DEF SYS_opendir, RestType
  <2> QED
    BY <1>0, <2>3, <2>4, MountInv
<1>6. ASSUME NEW d \in 1 .. MAX_DHND, SYS_closedir(d) PROVE KInv(ker') /\ RestType'
  BY <1>0, <1>6 DEF SYS_closedir, RestType
<1>7. CASE PathCall
  BY <1>0, <1>7, MountInv DEF PathCall, RestType
<1>8. CASE SYS_exit
  <2>1. PICK l \in elf_load(ker, "spiflash", BootImages) :
           ker' = l.ker /\ lost' = lost \cup l.lost /\ Start(IF l.start THEN "init" ELSE "supervisor")
    BY <1>8 DEF SYS_exit, LoadInit
  <2>2. KInv(ker') /\ lost' \subseteq Fd
    BY <1>0, <2>1, LoadInv DEF RestType
  <2> QED
    BY <1>0, <1>8, <2>1, <2>2 DEF SYS_exit, Start, RestType
<1>9. CASE elf_run
  <2>1. PICK name \in Names : \E l \in elf_load(ker, name, BOOLEAN) :
           /\ ker' = l.ker /\ lost' = lost \cup l.lost
           /\ Start("program") \/ UNCHANGED <<running, trapped, own, left>>
    BY <1>9 DEF elf_run, LoadProgram
  <2>2. KInv(ker') /\ lost' \subseteq Fd
    BY <1>0, <2>1, LoadInv DEF RestType
  <2> QED
    BY <1>0, <1>9, <2>1, <2>2 DEF elf_run, Start, RestType
<1>10. CASE super_elf
  <2>1. PICK l \in elf_load(ker, "spiflash", BootImages) :
           /\ ker' = l.ker /\ lost' = lost \cup l.lost
           /\ Start("init") \/ UNCHANGED <<running, trapped, own, left>>
    BY <1>10 DEF super_elf, LoadInit
  <2>2. KInv(ker') /\ lost' \subseteq Fd
    BY <1>0, <2>1, LoadInv DEF RestType
  <2> QED
    BY <1>0, <1>10, <2>1, <2>2 DEF super_elf, Start, RestType
<1>11. CASE Trap \/ ShellReturn
  BY <1>0, <1>11 DEF Trap, ShellReturn, InUser, RestType
<1>12. CASE UNCHANGED vars
  BY <1>0, <1>12 DEF vars, RestType
<1> QED
  BY <1>1, <1>2, <1>3, <1>4, <1>5, <1>6, <1>7, <1>8, <1>9, <1>10, <1>11, <1>12 DEF Next, Syscall

LEMMA SlotsInit == Init => SInv
<1> SUFFICES ASSUME Init PROVE SInv
  OBVIOUS
<1>1. ker \in KerType
  <2>1. [f \in Fd |-> IF f \in Stdio THEN "console" ELSE "free"] \in [Fd -> Devices \cup {"free", "file"}]
    BY DEF Devices
  <2>2. [i \in 1 .. MAX_FLASH_FDS |-> 0] \in [Slots -> Fd]
    BY FdFacts DEF Slots
  <2> QED
    BY <2>1, <2>2 DEF Init, KerType, Volumes
<1>2. SlotsOf(ker)
  BY FdFacts DEF Init, SlotsOf, Slots
<1>3. RestType
  BY DEF Init, RestType
<1> QED
  BY <1>1, <1>2, <1>3, RestOfType DEF SInv, KInv

\* Whatever programs open, close, mount and load, also descriptors that are not
\* theirs, the descriptor table and the slots of the flash driver agree.
THEOREM SlotsAlwaysMatch == Spec => [](DescTypeOK /\ SlotsMatch)
<1>1. SInv => DescTypeOK /\ SlotsMatch
  BY MatchFromInv DEF SInv
<1> QED
  BY <1>1, SlotsInit, SlotsStep, PTL DEF Spec

-----------------------------------------------------------------------------
(* Programs that close only what they opened. *)

\* The file system's descriptor is the flash and no program's, and every open
\* descriptor has an owner.
CInv == FlashOf(ker) /\ ker.flash_fd \notin own \cup left \cup lost /\ Accounted

Kept == \A f \in own \cap own' : ker'.fdtable[f] = ker.fdtable[f]

\* A call that opened f, or nothing, for the running program, or for one that is
\* then left behind.
LEMMA GrownStep ==
    ASSUME SInv, CInv, NEW f, KInv(ker'), FlashOf(ker'), Grown(ker, ker', f),
           own' \subseteq own \cup {f}, lost' \subseteq lost \cup {f},
           f \in lost' => f # -1 /\ ker'.fdtable[f] = "console", own' \cup left' \cup lost' = own \cup left \cup lost \cup ({f} \ {-1})
    PROVE  CInv' /\ Kept
<1> USE DEF SInv, KInv, KerType
<1>1. own \cup left \cup lost \subseteq Fd /\ \A g \in own \cup left \cup lost : ker.fdtable[g] # "free"
  BY DEF DescTypeOK, CInv, Accounted
<1>2. f = -1 \/ (f \in Fd /\ ker.fdtable[f] = "free" /\ f # ker'.flash_fd /\ ker'.fdtable[f] # "free")
  BY DEF Grown, FreeFds
<1>3. ker'.flash_fd \notin own \cup left \cup lost
  BY <1>1, FdFacts DEF CInv, Grown, FreeFds
<1>4. ker'.flash_fd \notin own' \cup left' \cup lost'
  BY <1>2, <1>3
<1>5. ker'.flash_fd = -1 \/ (ker'.flash_fd \in Fd /\ ker'.fdtable[ker'.flash_fd] # "free")
  BY DEF FlashOf
<1>6. {g \in Fd : ker'.fdtable[g] # "free"}
         = Stdio \cup own' \cup left' \cup lost' \cup {g \in Fd : g = ker'.flash_fd}
  <2>1. ASSUME NEW g \in Fd, ker'.fdtable[g] # "free"
        PROVE  g \in Stdio \cup own' \cup left' \cup lost' \cup {h \in Fd : h = ker'.flash_fd}
    <3>1. CASE ker.fdtable[g] # "free"
      <4>1. g \in Stdio \cup own \cup left \cup lost \/ g = ker.flash_fd
        BY <3>1 DEF CInv, Accounted
      <4>2. g = ker.flash_fd => g = ker'.flash_fd
        BY FdFacts DEF Grown
      <4> QED
        BY <4>1, <4>2
    <3>2. CASE ker.fdtable[g] = "free"
      BY <2>1, <3>2, FdFacts DEF Grown
    <3> QED
      BY <3>1, <3>2
  <2>2. ASSUME NEW g \in Stdio \cup own' \cup left' \cup lost'
        PROVE  g \in Fd /\ ker'.fdtable[g] # "free"
    <3>1. CASE g \in Stdio
      BY <3>1, FdFacts DEF SlotsOf
    <3>2. CASE g \in own \cup left \cup lost
      BY <1>1, <3>2 DEF Grown
    <3>3. CASE g \in {f} \ {-1}
      BY <1>2, <3>3
    <3> QED
      BY <3>1, <3>2, <3>3
  <2>3. ASSUME NEW g \in Fd, g = ker'.flash_fd PROVE ker'.fdtable[g] # "free"
    BY <1>5, <2>3, FdFacts
  <2> QED
    BY <2>1, <2>2, <2>3
<1>7. Kept
  BY <1>1 DEF Kept, Grown
<1>8. \A g \in lost' : ker'.fdtable[g] = "console"
  <2> SUFFICES ASSUME NEW g \in lost, g # f PROVE ker'.fdtable[g] = "console"
    OBVIOUS
  <2>1. g \in Fd /\ ker.fdtable[g] = "console"
    BY DEF DescTypeOK, CInv, Accounted
  <2> QED
    BY <2>1 DEF Grown
<1> QED
  BY <1>4, <1>6, <1>7, <1>8 DEF CInv, Accounted

LEMMA CarefulStep == ASSUME Careful = TRUE, SInv, CInv, [Next]_vars PROVE CInv' /\ (Kept \/ UNCHANGED vars)
<1> USE DEF SInv
<1>0. SInv' /\ KInv(ker') /\ FlashOf(ker) /\ -1 \notin lost
  BY SlotsStep, FdFacts DEF CInv, DescTypeOK
<1>1. ASSUME NEW name \in Names, SYS_open(name) PROVE CInv' /\ Kept
  <2>1. PICK o \in open(ker, name) : ker' = o.ker /\ own' = own \cup ({o.fd} \ {-1})
    BY <1>1 DEF SYS_open
  <2>2. FlashOf(ker') /\ Grown(ker, ker', o.fd)
    BY <1>0, <2>1, OpenInv
  <2>3. o.fd \notin lost /\ lost' = lost /\ left' = left
    <3>1. \A f \in lost : f # -1 /\ f \notin FreeFds(ker)
      BY FdFacts DEF DescTypeOK, CInv, Accounted, FreeFds
    <3> QED
      BY <1>1, <2>2, <3>1 DEF Grown, SYS_open
  <2> QED
    BY <1>0, <2>1, <2>2, <2>3, GrownStep
<1>2. ASSUME NEW f \in Fd, SYS_close(f) PROVE CInv' /\ Kept
  <2>1. f \in own /\ f # ker.flash_fd /\ ker' = close(ker, f)
    BY <1>2 DEF SYS_close, CInv
  <2>2. CASE ~Closable(ker, f)
    <3>1. ker' = ker /\ own' = own /\ left' = left /\ lost' = lost
      BY <1>2, <2>1, <2>2 DEF SYS_close, close
    <3> QED
      BY <3>1 DEF CInv, Accounted, FlashOf, Kept
  <2>3. CASE Closable(ker, f)
    <3>1. /\ ker'.fdtable = [ker.fdtable EXCEPT ![f] = "free"]
          /\ ker'.flash_fd = ker.flash_fd /\ ker'.volume = ker.volume
          /\ own' = own \ {f} /\ left' = left \ {f} /\ lost' = lost /\ f \notin Stdio
          /\ f \notin lost
      BY <1>0, <1>2, <2>1, <2>3, CloseInv DEF SYS_close, Closable, CInv, Accounted
    <3>2. ker.fdtable \in [Fd -> Devices \cup {"free", "file"}] /\ own \cup left \cup lost \subseteq Fd
      BY DEF KInv, KerType, DescTypeOK
    <3>3. FlashOf(ker') /\ ker'.flash_fd \notin own' \cup left' \cup lost'
      BY <2>1, <3>1, <3>2 DEF CInv, FlashOf
    <3>4. Accounted'
      BY <2>1, <3>1, <3>2 DEF CInv, Accounted
    <3>5. Kept
      BY <3>1, <3>2 DEF Kept
    <3> QED
      BY <3>3, <3>4, <3>5 DEF CInv
  <2> QED
    BY <2>2, <2>3
<1>3. CASE SYS_mount
  <2> DEFINE k == [ker EXCEPT !.volume = "registered"]
  <2>1. KInv(k) /\ FlashOf(k) /\ k.fdtable = ker.fdtable /\ k.flash_fd = ker.flash_fd
    BY <1>0, SetVolumeInv DEF Volumes
  <2>2. ker' \in mount_volume(k)
    BY <1>3 DEF SYS_mount
  <2> HIDE DEF k
  <2>3. FlashOf(ker') /\ Grown(k, ker', -1)
    BY <2>1, <2>2, MountInv
  <2>4. Grown(ker, ker', -1)
    BY <2>1, <2>3 DEF Grown, FreeFds
  <2> QED
    BY <1>0, <1>3, <2>3, <2>4, GrownStep DEF SYS_mount
<1>4. ASSUME NEW t, SYS_umount(t) PROVE CInv' /\ Kept
  <2> DEFINE k == f_unmount(ker)
  <2>1. KInv(k) /\ FlashOf(k) /\ k.fdtable = ker.fdtable /\ k.flash_fd = ker.flash_fd
    BY <1>0, SetVolumeInv DEF f_unmount, Volumes
  <2>2. ker' \in {k, intflash_release(k)} /\ own' = own /\ left' = left /\ lost' = lost
    BY <1>4 DEF SYS_umount
  <2> HIDE DEF k
  <2>3. CASE ker' = k
    BY <2>1, <2>2, <2>3 DEF CInv, Accounted, FlashOf, Kept
  <2>4. CASE ker' = intflash_release(k)
    <3>1. /\ ker'.flash_fd = -1 /\ ker'.volume = k.volume
          /\ \A g \in Fd : ker'.fdtable[g] = IF g = ker.flash_fd THEN "free" ELSE ker.fdtable[g]
      BY <2>1, <2>4, ReleaseInv
    <3>2. own \cup left \cup lost \subseteq Fd /\ ker.flash_fd \notin own \cup left \cup lost
      BY DEF DescTypeOK, CInv
    <3>3. ker.flash_fd \notin Stdio
      BY FdFacts DEF KInv, SlotsOf, CInv, FlashOf
    <3>4. k.volume = "none"
      BY DEF k, f_unmount, KInv, KerType
    <3>5. FlashOf(ker')
      BY <3>1, <3>4 DEF FlashOf
    <3>6. {g \in Fd : g = ker'.flash_fd} = {}
      BY <3>1, FdFacts
    <3>7. {g \in Fd : ker'.fdtable[g] # "free"} = Stdio \cup own \cup left \cup lost
      BY <3>1, <3>2, <3>3 DEF CInv, Accounted
    <3>8. Accounted'
      <4>1. \A g \in lost : ker'.fdtable[g] = "console"
        BY <3>1, <3>2 DEF CInv, Accounted
      <4> QED
        BY <2>2, <3>6, <3>7, <4>1 DEF Accounted
    <3>9. Kept
      BY <2>2, <3>1, <3>2 DEF Kept
    <3> QED
      BY <2>2, <3>1, <3>2, <3>5, <3>8, <3>9, FdFacts DEF CInv
  <2> QED
    BY <2>2, <2>3, <2>4
<1>5. ASSUME ker' \in mount_volume(ker), UNCHANGED <<own, left, lost>> PROVE CInv' /\ Kept
  <2>1. FlashOf(ker') /\ Grown(ker, ker', -1)
    BY <1>0, <1>5, MountInv
  <2> QED
    BY <1>0, <1>5, <2>1, GrownStep
<1>6. CASE SYS_opendir \/ PathCall
  BY <1>5, <1>6 DEF SYS_opendir, PathCall, Mounted
<1>7. ASSUME UNCHANGED <<ker, own, left, lost>> PROVE CInv' /\ Kept
  BY <1>7 DEF CInv, Accounted, FlashOf, Kept
<1>8. CASE Trap \/ ShellReturn \/ \E d \in 1 .. MAX_DHND : SYS_closedir(d)
  BY <1>7, <1>8 DEF Trap, ShellReturn, SYS_closedir
<1>9. ASSUME NEW name, NEW found, NEW l \in elf_load(ker, name, found),
             ker' = l.ker, lost' = lost \cup l.lost,
             (own' = {} /\ left' = left \cup own) \/ UNCHANGED <<own, left>>
      PROVE  CInv' /\ Kept
  <2>1. /\ FlashOf(ker')
        /\ \/ l.lost = {} /\ Grown(ker, ker', -1)
           \/ \E f \in FreeFds(ker) : l.lost = {f} /\ Grown(ker, ker', f) /\ ker'.fdtable[f] = "console"
    BY <1>0, <1>9, LoadInv
  <2>2. CASE l.lost = {} /\ Grown(ker, ker', -1)
    <3>1. -1 \notin lost'
      BY <1>9, <2>2, FdFacts DEF DescTypeOK
    <3> QED
      BY <1>0, <1>9, <2>1, <2>2, <3>1, GrownStep
  <2>3. ASSUME NEW f \in FreeFds(ker), l.lost = {f}, Grown(ker, ker', f), ker'.fdtable[f] = "console"
        PROVE  CInv' /\ Kept
    <3>1. f # -1
      BY FdFacts DEF FreeFds
    <3> QED
      BY <1>0, <1>9, <2>1, <2>3, <3>1, GrownStep
  <2> QED
    BY <2>1, <2>2, <2>3
<1>10. CASE SYS_exit
  BY <1>9, <1>10 DEF SYS_exit, LoadInit, Start
<1>11. CASE elf_run
  BY <1>9, <1>11 DEF elf_run, LoadProgram, Start
<1>12. CASE super_elf
  BY <1>9, <1>12 DEF super_elf, LoadInit, Start
<1>13. CASE UNCHANGED vars
  BY <1>7, <1>13 DEF vars
<1> QED
  BY <1>1, <1>2, <1>3, <1>4, <1>6, <1>8, <1>10, <1>11, <1>12, <1>13 DEF Next, Syscall

LEMMA CarefulInit == Init => CInv
<1> SUFFICES ASSUME Init PROVE CInv
  OBVIOUS
<1>1. ker.flash_fd = -1 /\ ker.volume = "none" /\ own = {} /\ left = {} /\ lost = {}
      /\ \A f \in Fd : ker.fdtable[f] # "free" <=> f \in Stdio
  BY DEF Init
<1> QED
  BY <1>1, FdFacts DEF CInv, FlashOf, Accounted

LEMMA CarefulInvariant == ASSUME Careful = TRUE PROVE Spec => [](SInv /\ CInv)
<1>1. SInv /\ CInv /\ [Next]_vars => CInv'
  BY CarefulStep
<1> QED
  BY <1>1, SlotsInit, SlotsStep, CarefulInit, PTL DEF Spec

\* As long as programs close only what they opened, the kernel's tables agree with
\* each other after every call: the volume has its flash, and nobody else does.
THEOREM TablesAlwaysAgree == ASSUME Careful = TRUE PROVE Spec => []TablesAgree
<1>1. SInv /\ CInv => TablesAgree
  <2> SUFFICES ASSUME SInv, CInv PROVE TablesAgree
    OBVIOUS
  <2>1. ker.flash_fd > 0 => ker.flash_fd # -1
    OBVIOUS
  <2>2. ker.volume = "mounted" => ker.flash_fd > 0
    <3> SUFFICES ASSUME ker.volume = "mounted" PROVE ker.flash_fd > 0
      OBVIOUS
    <3>1. ker.flash_fd # -1 /\ ker.fdtable[ker.flash_fd] = "spiflash"
      BY DEF CInv, FlashOf
    <3>2. ker.flash_fd \in Fd /\ ker.flash_fd \notin Stdio
      BY <3>1 DEF SInv, KInv, KerType, SlotsOf
    <3> QED
      BY <3>2, FdFacts
  <2>3. VolumeHasFlash
    BY <2>1, <2>2 DEF VolumeHasFlash, CInv, FlashOf
  <2> QED
    BY <2>3, MatchFromInv DEF SInv, TablesAgree
<1> QED
  BY <1>1, CarefulInvariant, PTL

\* No call of the kernel leaks a descriptor, whether it fails, nests or loads a
\* program, but a console's that was run as a program.
THEOREM NoDescriptorLeaks == ASSUME Careful = TRUE PROVE Spec => []Accounted
<1>1. SInv /\ CInv => Accounted
  BY DEF CInv
<1> QED
  BY <1>1, CarefulInvariant, PTL

\* A program keeps what it has open until it closes it, whatever is mounted,
\* unmounted, opened or fails to load meanwhile.
THEOREM ProgramKeepsItsOwn == ASSUME Careful = TRUE PROVE Spec => OwnKept
<1>1. SInv /\ CInv /\ [Next]_vars
         => [\A f \in own \cap own' : ker'.fdtable[f] = ker.fdtable[f]]_vars
  BY CarefulStep DEF Kept
<1> QED
  BY <1>1, CarefulInvariant, PTL DEF Spec, OwnKept
=============================================================================
