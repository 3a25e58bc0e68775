----------------------------- MODULE FatVolume -----------------------------
(***************************************************************************)
(* The volume in the serial flash: FAT12, as FatFs (ff.c) keeps it.  The   *)
(* sectors of the chip, the flash driver's buffer of one erase block, the  *)
(* one sector window through which the FAT and the directories are         *)
(* changed, and the cluster chains.                                        *)
(*                                                                         *)
(* A function of ff.c is an operator on a call record c: the fields of     *)
(* FATFS, the FIL or DIR in hand (f), what the call returns (res, ret,     *)
(* got), the disk accesses and block writes made so far (n), the fault     *)
(* planned for the call and whether it came.  "error" fails one access.    *)
(* "power" stops everything from one access or block write on, so what a   *)
(* power failure leaves on the chip is what every order of writes in the   *)
(* code leaves; "cut" stops it in the middle of a block write.             *)
(***************************************************************************)
EXTENDS Integers, Sequences, FiniteSets, TLC

CONSTANTS
    n_fatent,   \* clusters are 2 .. n_fatent - 1
    Digit,      \* values of a digit: a FAT entry has three digits, a byte two (16 in the code)
    FatSs,      \* bytes in a sector of the FAT
    Ss,         \* bytes of a file, or directory entries, in a sector
    csize,      \* sectors in a cluster
    nrsv,       \* sectors before the FAT
    n_rootdir,  \* entries of the root directory
    BlockSects  \* sectors in an erase block (8 in the code)

\* No half written entry of the FAT passes for a cluster: its upper digit is still that
\* of the end of a chain.  The volume has at most 512 clusters, the bound is 3840.
ASSUME GeometryAssumption ==
    /\ n_fatent \in Nat /\ n_fatent > 3 /\ Digit \in Nat /\ n_fatent <= (Digit - 1) * Digit^2
    /\ FatSs \in Nat \ {0} /\ Ss \in Nat \ {0} /\ csize \in {1, 2, 4, 8}
    /\ nrsv \in Nat \ {0} /\ n_rootdir \in Nat \ {0} /\ n_rootdir % Ss = 0
    /\ BlockSects \in Nat \ {0}

\* Two copies of the FAT, the root directory, the clusters.
volbase == 0
fsize == ((3 * n_fatent + 1) \div 2 + FatSs - 1) \div FatSs
fatbase == volbase + nrsv
dirbase == fatbase + 2 * fsize
database == dirbase + n_rootdir \div Ss
Clusters == 2 .. n_fatent - 1
Sectors == volbase .. database + csize * (n_fatent - 2) - 1
EOC == Digit^3 - 1           \* 0xFFF
DiskErr == Digit^3           \* 0xFFFFFFFF: no FAT value
NoSect == -1                 \* the window holds no sector

-----------------------------------------------------------------------------
(* A sequence of calls. *)

\* Do with the value of x.
With(x, Do(_)) == Do(x)

\* if (res == FR_OK): go on from c, else return it as it is.
Then(c, Do(_)) == IF c.res = "OK" THEN Do(c) ELSE c

-----------------------------------------------------------------------------
(* diskio.c, flashdisc.c and spi_flashdev.c *)

\* The fault hits the next access or block write.
Hit(c, kinds) ==
    c.fault.kind \in kinds /\ (c.n + 1 = c.fault.at \/ (c.came /\ c.fault.kind # "error"))

Step(c, kinds) ==
    [c EXCEPT !.n = @ + 1, !.res = IF Hit(c, kinds) THEN "DISK_ERR" ELSE "OK",
              !.came = @ \/ Hit(c, kinds)]

Access(c) == Step(c, {"error", "power"} \cup (IF c.came THEN {"cut"} ELSE {}))

\* The block is erased and written.  It reports no error.
spiflash_writebuffer(c) ==
    IF c.writebuf = <<>> THEN [c EXCEPT !.res = "OK"]
    ELSE LET d == Step(c, {"power", "cut"}) IN
         CASE d.res = "OK" -> [d EXCEPT !.chip = c.writebuf @@ @, !.writebuf = <<>>]
           [] d.res # "OK" /\ c.fault.kind = "cut" -> [d EXCEPT !.cut = DOMAIN c.writebuf]
           [] OTHER -> d

\* The buffer takes the block of a sector.  There is memory for it: without, the write
\* would be lost and intflash_write would still report success.
spiflash_load_sector(c, sect) ==
    [c EXCEPT !.writebuf = [s \in {x \in Sectors : x \div BlockSects = sect \div BlockSects}
                               |-> c.chip[s]]]

\* The parts from sect on, as far as they go into the buffered block.
Filled(c, sect, parts) ==
    [c EXCEPT !.writebuf = [s \in DOMAIN @ |->
        IF s - sect + 1 \in DOMAIN parts THEN parts[s - sect + 1] ELSE @[s]]]

\* Sectors from sect on, block by block; a block goes to the chip when its end is
\* reached or another is needed.
RECURSIVE spiflash_write(_, _, _)
spiflash_write(c, sect, parts) ==
    IF parts = <<>> THEN c
    ELSE LET rest == BlockSects - (sect % BlockSects)
             k == IF Len(parts) > rest THEN rest ELSE Len(parts)
         IN Then(IF sect \in DOMAIN c.writebuf /\ Len(parts) <= rest THEN c
                 ELSE Then(spiflash_writebuffer(c), LAMBDA f : spiflash_load_sector(f, sect)), LAMBDA l :
            Then(IF k = rest THEN spiflash_writebuffer(Filled(l, sect, parts))
                 ELSE Filled(l, sect, parts), LAMBDA w :
            spiflash_write(w, sect + k, SubSeq(parts, k + 1, Len(parts)))))

disk_write(c, sect, parts) == Then(Access(c), LAMBDA d : spiflash_write(d, sect, parts))

\* Mutant: the buffer is not written before a read.
ReadsPast(c) == Access(c)

\* What is read is on the chip: the buffer goes first.
disk_read(c) == Then(Access(c), spiflash_writebuffer)

-----------------------------------------------------------------------------
(* The window. *)

InFat(sect) == sect - fatbase \in 0 .. fsize - 1

\* The write to the second FAT may fail unnoticed.
sync_window(c) ==
    IF ~c.wflag THEN [c EXCEPT !.res = "OK"]
    ELSE Then(disk_write(c, c.winsect, <<c.win>>), LAMBDA w :
         IF InFat(c.winsect)
         THEN [disk_write([w EXCEPT !.wflag = FALSE], c.winsect + fsize, <<c.win>>) EXCEPT !.res = "OK"]
         ELSE [w EXCEPT !.wflag = FALSE])

\* The window after the read r of a sector.
Moved(r, sect) == IF r.res = "OK" THEN [r EXCEPT !.win = r.chip[sect], !.winsect = sect]
                  ELSE [r EXCEPT !.winsect = NoSect]

move_window(c, sect) ==
    IF sect = c.winsect THEN [c EXCEPT !.res = "OK"]
    ELSE Then(sync_window(c), LAMBDA w : Moved(disk_read(w), sect))

\* Mutant: no CTRL_SYNC.
SyncWindowOnly(c) == sync_window(c)

\* There is no FSInfo to write; CTRL_SYNC empties the flash driver's buffer.
sync_fs(c) == Then(sync_window(c), spiflash_writebuffer)

-----------------------------------------------------------------------------
(* The FAT. *)

clst2sect(clst) == IF clst \in Clusters THEN database + csize * (clst - 2) ELSE 0

\* The first byte of an entry; the second may be in the next sector.
ByteOf(clst) == clst + clst \div 2
FatSect(bc) == fatbase + bc \div FatSs
IsOdd(clst) == clst % 2 = 1

\* The entry of clst from its two bytes, the first in the window of a, the second of b.
Entry(a, b, clst) ==
    LET bc == ByteOf(clst)
        wc == a.win[bc % FatSs] + Digit^2 * b.win[(bc + 1) % FatSs]
    IN [b EXCEPT !.ret = CASE b.res # "OK" -> DiskErr
                           [] b.res = "OK" /\ IsOdd(clst) -> wc \div Digit
                           [] OTHER -> wc % Digit^3]

SecondByte(a, clst) ==
    Entry(a, Then(a, LAMBDA x : move_window(x, FatSect(ByteOf(clst) + 1))), clst)

get_fat(c, clst) ==
    IF clst \notin Clusters THEN [c EXCEPT !.ret = 1]
    ELSE SecondByte(move_window(c, FatSect(ByteOf(clst))), clst)

put_fat(c, clst, val) ==
    IF clst \notin Clusters THEN [c EXCEPT !.res = "INT_ERR"]
    ELSE LET bc == ByteOf(clst)
             first(b) == IF IsOdd(clst) THEN (b % Digit) + Digit * (val % Digit) ELSE val % Digit^2
             second(b) == IF IsOdd(clst) THEN val \div Digit
                          ELSE Digit * (b \div Digit) + val \div Digit^2
         IN Then(move_window(c, FatSect(bc)), LAMBDA a :
            Then(move_window([a EXCEPT !.win[bc % FatSs] = first(@), !.wflag = TRUE],
                             FatSect(bc + 1)), LAMBDA b :
            [b EXCEPT !.win[(bc + 1) % FatSs] = second(@), !.wflag = TRUE]))

RECURSIVE FreeFrom(_, _)
FreeFrom(c, clst) == With(get_fat(c, clst), LAMBDA g :
    CASE g.ret = 0 -> [g EXCEPT !.res = "OK"]
      [] g.ret = 1 -> [g EXCEPT !.res = "INT_ERR"]
      [] g.ret = DiskErr -> [g EXCEPT !.res = "DISK_ERR"]
      [] OTHER -> Then(put_fat(g, clst, 0), LAMBDA p :
                  IF g.ret < n_fatent THEN FreeFrom(p, g.ret) ELSE p))

\* Every caller removes a whole chain (pclst = 0).
remove_chain(c, clst) ==
    IF clst \notin Clusters THEN [c EXCEPT !.res = "INT_ERR"] ELSE FreeFrom(c, clst)

\* The free cluster after prev, round to scl; ret is 0 if there is none.
RECURSIVE FindFree(_, _, _)
FindFree(c, prev, scl) ==
    LET wraps == prev + 1 >= n_fatent
        ncl == IF wraps THEN 2 ELSE prev + 1
    IN IF wraps /\ 2 > scl THEN [c EXCEPT !.ret = 0]
       ELSE With(get_fat(c, ncl), LAMBDA g :
            CASE g.ret = 0 -> [g EXCEPT !.ret = ncl]
              [] g.ret \in {1, DiskErr} -> g
              [] g.ret \notin {0, 1, DiskErr} /\ ncl = scl -> [g EXCEPT !.ret = 0]
              [] OTHER -> FindFree(g, ncl, scl))

\* Where the search for a new cluster starts when the next one is not free.
Suggested(c, default) == IF c.last_clst \in Clusters THEN c.last_clst ELSE default

\* A free cluster to put after clst: the next one if it can be had.
NewCluster(c, clst) ==
    IF clst = 0
    THEN LET scl == IF c.last_clst \in 1 .. n_fatent - 1 THEN c.last_clst ELSE 1
         IN FindFree(c, scl, scl)
    ELSE LET ncl == IF clst + 1 >= n_fatent THEN 2 ELSE clst + 1
         IN With(get_fat(c, ncl), LAMBDA g :
            CASE g.ret \in {1, DiskErr} -> g
              [] g.ret = 0 -> [g EXCEPT !.ret = ncl]
              [] OTHER -> FindFree(g, Suggested(g, clst), Suggested(g, clst)))

\* Mark ncl as the end of a chain and link it from clst.
LinkNew(c, clst, ncl) ==
    With(Then(put_fat(c, ncl, EOC),
              LAMBDA e : IF clst # 0 THEN put_fat(e, clst, ncl) ELSE e), LAMBDA l :
    IF l.res = "OK"
    THEN [l EXCEPT !.last_clst = ncl, !.ret = ncl]
    ELSE [l EXCEPT !.ret = IF l.res = "DISK_ERR" THEN DiskErr ELSE 1])

\* The entry of clst in ret: the end of a chain when there is no chain yet.
ChainAt(c, clst) == IF clst = 0 THEN [c EXCEPT !.ret = EOC] ELSE get_fat(c, clst)

\* A new cluster after clst, linked.  free_clst is never known: nothing counts.
Stretch(c, clst) == With(NewCluster(c, clst), LAMBDA w :
    IF w.ret \in {0, 1, DiskErr} THEN w ELSE LinkNew(w, clst, w.ret))

\* Mutant: a new cluster even where the chain goes on.
AlwaysNew(c, clst) == With(ChainAt(c, clst), LAMBDA g :
    CASE g.ret < 2 -> [g EXCEPT !.ret = 1]
      [] g.ret = DiskErr -> g
      [] OTHER -> Stretch(g, clst))

\* ret: the cluster after clst, new if need be; 0 none free, 1 insane, DiskErr.
create_chain(c, clst) == With(ChainAt(c, clst), LAMBDA g :
    CASE g.ret < 2 -> [g EXCEPT !.ret = 1]
      [] g.ret = DiskErr \/ g.ret \in 2 .. n_fatent - 1 -> g
      [] OTHER -> Stretch(g, clst))

-----------------------------------------------------------------------------
(* A cleared directory cluster. *)

RECURSIVE ClearFrom(_, _, _)
ClearFrom(c, sect, n) ==
    IF n = csize THEN c
    ELSE Then(disk_write(c, sect + n, <<c.win>>), LAMBDA w : ClearFrom(w, sect, n + 1))

\* Every entry becomes unused; the window is left on the first sector.
dir_clear(c, clst, unused) == Then(sync_window(c), LAMBDA w :
    ClearFrom([w EXCEPT !.winsect = clst2sect(clst), !.win = [i \in 0 .. Ss - 1 |-> unused]],
              clst2sect(clst), 0))

-----------------------------------------------------------------------------
(* Mounting: what mount_volume reads of a FAT12 volume. *)

\* The boot sector is valid and stays in the window; no fault is planned for a mount.
mount_volume(d) ==
    [chip |-> d, writebuf |-> <<>>, win |-> d[volbase], winsect |-> volbase, wflag |-> FALSE,
     last_clst |-> DiskErr]

-----------------------------------------------------------------------------
(* What is on a disk d. *)

\* The disk through the buffer.
Buffered(c) == c.writebuf @@ c.chip

\* The disk through the window.
Through(c) == IF c.wflag THEN [Buffered(c) EXCEPT ![c.winsect] = c.win] ELSE Buffered(c)

FatByte(d, bc) == d[FatSect(bc)][bc % FatSs]

FatOf(d) == [k \in Clusters |->
    LET wc == FatByte(d, ByteOf(k)) + Digit^2 * FatByte(d, ByteOf(k) + 1)
    IN IF IsOdd(k) THEN wc \div Digit ELSE wc % Digit^3]

\* A chain as a sequence; a broken one ends where it leaves the clusters or comes back.
ChainOf(fat, first) ==
    LET chain[n \in 1 .. n_fatent] ==
            IF n = 1 THEN <<first>>
            ELSE LET c == chain[n - 1] IN
                 IF c[Len(c)] \in Clusters THEN Append(c, fat[c[Len(c)]]) ELSE c
    IN SelectSeq(chain[n_fatent], LAMBDA k : k \in Clusters)

Allocated(fat, first) == {ChainOf(fat, first)[i] : i \in DOMAIN ChainOf(fat, first)}

\* The sectors of clusters and of their FAT entries.
SectorsOfChain(chain) ==
    UNION {{FatSect(ByteOf(k)), FatSect(ByteOf(k) + 1)} : k \in chain}
    \cup UNION {clst2sect(k) .. clst2sect(k) + csize - 1 : k \in chain}

\* A FAT with these values, as the bytes of one of its sectors.
FatSector(fat, s) ==
    LET digit(i) == IF i \div 3 \in DOMAIN fat
                    THEN (fat[i \div 3] \div Digit^(i % 3)) % Digit ELSE 0
    IN [i \in 0 .. FatSs - 1 |->
          LET b == ((s - fatbase) % fsize) * FatSs + i IN digit(2 * b) + Digit * digit(2 * b + 1)]
=============================================================================
