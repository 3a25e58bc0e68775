------------------------------ MODULE FatFiles ------------------------------
(***************************************************************************)
(* Files on the flash volume as file.c and file_ops.c use them: open with  *)
(* and without truncation, read, write, seek, close, unlink and mkdir in   *)
(* the root directory, unmount and mount, disk errors and power failures   *)
(* at any disk access and block write.                                     *)
(*                                                                         *)
(* FF_FS_LOCK is 0: a program must not open a file twice, nor unlink or    *)
(* truncate an open file (ffconf.h).  The actions keep to that.            *)
(***************************************************************************)
EXTENDS FatVolume

CONSTANTS
    Names,      \* files
    DirNames,   \* directories
    Handles,    \* FIL objects
    WriteLens, ReadLens, Seeks,   \* what the calls are given
    MaxSize,    \* bound on the size of a file
    MaxCalls,   \* bound on the calls in a behaviour
    MaxFaults   \* bound on faults and remounts in a behaviour

ASSUME NamesAssumption == Ss > 1

VARIABLES
    vol,     \* FATFS, the flash driver's buffer and the chip
    fil,     \* fhnd: the FIL of each handle
    id,      \* Fsid
    calls,   \* calls so far
    faults,  \* faults and remounts so far
    exact,   \* no fault or remount yet
    want,    \* what each name should hold, by the calls that returned
    saved,   \* what a power failure may not take
    cut,     \* the sectors of a block whose write a power failure has cut short
    agree    \* what the last call returned agrees with want

vars == <<vol, fil, id, calls, faults, exact, want, saved, cut, agree>>

End == ""                    \* first byte of a never used entry
DDEM == "deleted"
NoFault == [kind |-> "none", at |-> 0]
Slots == 0 .. n_rootdir - 1
SubSlots == 0 .. Ss * csize - 1
Byte(b) == [byte |-> b]      \* a cell of a sector is a byte or a directory entry
FreeSlot(name) == [name |-> name, dir |-> FALSE, clust |-> 0, size |-> 0]
Unused == FreeSlot(End)

NoFil == [open |-> FALSE, id |-> 0, name |-> End, flag |-> {}, err |-> FALSE, sect |-> 0,
          fptr |-> 0, clust |-> 0, sclust |-> 0, objsize |-> 0, dsect |-> 0, dptr |-> 0,
          buf |-> [i \in 0 .. Ss - 1 |-> Byte(0)]]

\* A call begins with the volume, a FIL and a planned fault.
Call(f, fault) ==
    vol @@ [f |-> f, fault |-> fault, n |-> 0, came |-> FALSE, cut |-> {}, res |-> "OK",
            ret |-> 0, got |-> <<>>]

VolumeOf(c) == [field \in DOMAIN vol |-> c[field]]

-----------------------------------------------------------------------------
(* The root directory: short names in a table that does not grow. *)

SlotSect(i) == dirbase + i \div Ss
Slot(c, i) == c.win[i % Ss]

\* ret: the entry found; the window holds its sector.
RECURSIVE FindFrom(_, _, _)
FindFrom(c, i, name) ==
    IF i \notin Slots THEN [c EXCEPT !.res = "NO_FILE"]
    ELSE Then(move_window(c, SlotSect(i)), LAMBDA m :
         CASE Slot(m, i).name = End -> [m EXCEPT !.res = "NO_FILE"]
           [] Slot(m, i).name = name -> [m EXCEPT !.ret = i]
           [] OTHER -> FindFrom(m, i + 1, name))

dir_find(c, name) == FindFrom(c, 0, name)

RECURSIVE AllocFrom(_, _)
AllocFrom(c, i) ==
    IF i \notin Slots THEN [c EXCEPT !.res = "DENIED"]
    ELSE Then(move_window(c, SlotSect(i)), LAMBDA m :
         IF Slot(m, i).name \in {End, DDEM} THEN [m EXCEPT !.ret = i] ELSE AllocFrom(m, i + 1))

SetSlot(c, i, s) == [c EXCEPT !.win[i % Ss] = s, !.wflag = TRUE]

dir_register(c, name) == Then(AllocFrom(c, 0), LAMBDA a : SetSlot(a, a.ret, FreeSlot(name)))

dir_remove(c, i) == Then(move_window(c, SlotSect(i)), LAMBDA m :
    SetSlot(m, i, [Slot(m, i) EXCEPT !.name = DDEM]))

-----------------------------------------------------------------------------
(* Opening. *)

Emptied(c, i) == SetSlot(c, i, FreeSlot(Slot(c, i).name))

\* Mutant: the chain is freed first.
FreeThenEmpty(c, i) == LET cl == Slot(c, i).clust IN
    IF cl = 0 THEN Emptied(c, i)
    ELSE Then(remove_chain(c, cl), LAMBDA r :
         Then(move_window(r, c.winsect), LAMBDA m : [Emptied(m, i) EXCEPT !.last_clst = cl - 1]))

\* The entry is emptied before its chain is freed.
Truncate(c, i) == LET cl == Slot(c, i).clust IN
    IF cl = 0 THEN Emptied(c, i)
    ELSE Then(remove_chain(Emptied(c, i), cl), LAMBDA r :
         [move_window(r, c.winsect) EXCEPT !.last_clst = cl - 1])

Modified(c) == [c EXCEPT !.f.flag = @ \cup {"MODIFIED"}]

\* The entry found or made for the mode, truncated if it was.  ret: the entry.
OpenEntry(c, name, mode) ==
    LET truncated(e) == [Modified(Then(e, LAMBDA x : Truncate(x, x.ret))) EXCEPT !.ret = e.ret]
    IN With(dir_find(c, name), LAMBDA f :
       CASE mode # "open" /\ f.res = "NO_FILE" -> With(dir_register(f, name), truncated)
         [] mode = "create" /\ f.res = "OK" -> truncated(f)
         [] OTHER -> f)

\* The cluster that holds offset ofs - 1 of the chain; ret is it, what is left of ofs in got.
RECURSIVE FollowTo(_, _, _)
FollowTo(c, clst, ofs) ==
    IF ofs <= csize * Ss THEN [c EXCEPT !.ret = clst, !.got = <<ofs>>, !.res = "OK"]
    ELSE With(get_fat(c, clst), LAMBDA g :
         CASE g.ret <= 1 -> [g EXCEPT !.res = "INT_ERR"]
           [] g.ret = DiskErr -> [g EXCEPT !.res = "DISK_ERR"]
           [] OTHER -> FollowTo(g, g.ret, ofs - csize * Ss))

Load(c, sect) == Then(disk_read(c), LAMBDA r : [r EXCEPT !.f.buf = r.chip[sect]])

\* FA_SEEKEND
SeekEnd(c) == Then(FollowTo(c, c.f.sclust, c.f.objsize), LAMBDA w :
    LET sc == clst2sect(w.ret) + w.got[1] \div Ss IN
    With([w EXCEPT !.f.fptr = c.f.objsize, !.f.clust = w.ret], LAMBDA d :
    IF w.got[1] % Ss = 0 THEN d ELSE [Load(d, sc) EXCEPT !.f.sect = sc]))

f_open(c, name, acc, mode) ==
    Then(OpenEntry([c EXCEPT !.f = [NoFil EXCEPT !.flag = acc]], name, mode), LAMBDA e :
    With([e EXCEPT !.f.open = TRUE, !.f.id = id, !.f.name = name,
                   !.f.dsect = e.winsect, !.f.dptr = e.ret % Ss,
                   !.f.sclust = Slot(e, e.ret).clust, !.f.objsize = Slot(e, e.ret).size],
    LAMBDA o : IF mode = "append" /\ o.f.objsize > 0 THEN SeekEnd(o) ELSE o))

-----------------------------------------------------------------------------
(* Reading, writing and seeking.  fp->err keeps a file from all but closing. *)

ABORT(c, res) == [c EXCEPT !.res = res, !.f.err = TRUE]

OrAbort(c) == IF c.res = "OK" THEN c ELSE ABORT(c, "DISK_ERR")

csect(c) == (c.f.fptr \div Ss) % csize
Ofs(c) == c.f.fptr % Ss
OnSector(c) == Ofs(c) = 0
OnCluster(c) == OnSector(c) /\ csect(c) = 0

\* The sector of the file pointer.
SectAt(c) == clst2sect(c.f.clust) + csect(c)

\* A cluster number that a transfer cannot use.
BadCluster(c) == IF c.ret = DiskErr THEN ABORT(c, "DISK_ERR") ELSE ABORT(c, "INT_ERR")

\* Write back a dirty sector buffer.
Flush(c) ==
    IF "DIRTY" \notin c.f.flag THEN [c EXCEPT !.res = "OK"]
    ELSE Then(disk_write(c, c.f.sect, <<c.f.buf>>), LAMBDA w : [w EXCEPT !.f.flag = @ \ {"DIRTY"}])

\* Mutant: chains taken to be contiguous.
NextNumber(c) == [c EXCEPT !.ret = IF c.f.fptr = 0 THEN c.f.sclust ELSE c.f.clust + 1]

\* The cluster of the file pointer, when a transfer reaches a new one.
ReadCluster(c) ==
    IF c.f.fptr = 0 THEN [c EXCEPT !.ret = c.f.sclust] ELSE get_fat(c, c.f.clust)

WriteCluster(c) ==
    IF c.f.fptr = 0 /\ c.f.sclust # 0 THEN [c EXCEPT !.ret = c.f.sclust]
    ELSE create_chain(c, IF c.f.fptr = 0 THEN 0 ELSE c.f.clust)

\* Whole sectors from the file pointer on, at most to the end of the cluster.
RunLength(c, bytes) == LET cc == bytes \div Ss IN
    IF csect(c) + cc > csize THEN csize - csect(c) ELSE cc

\* The part of a sector from the file pointer on that a transfer of bytes uses.
PartLength(c, bytes) == LET rest == Ss - Ofs(c) IN IF rest > bytes THEN bytes ELSE rest

\* The bytes of cc whole sectors; a dirty buffer is newer than the disk.
RunBytes(c, cc) ==
    LET sector(j) == IF "DIRTY" \in c.f.flag /\ c.f.sect = SectAt(c) + j
                     THEN c.f.buf ELSE c.chip[SectAt(c) + j]
    IN [i \in 1 .. cc * Ss |-> sector((i - 1) \div Ss)[(i - 1) % Ss]]

ReadRun(c, cc) == Then(OrAbort(disk_read(c)), LAMBDA r :
    [r EXCEPT !.f.fptr = @ + cc * Ss, !.got = @ \o RunBytes(r, cc)])

ReadPart(c, rcnt) ==
    [c EXCEPT !.f.fptr = @ + rcnt, !.got = @ \o [i \in 1 .. rcnt |-> c.f.buf[Ofs(c) + i - 1]]]

\* The buffer takes the sector of the file pointer.
ReadSector(c) == LET sect == SectAt(c) IN
    IF c.f.sect = sect THEN [c EXCEPT !.res = "OK"]
    ELSE Then(OrAbort(Then(Flush(c), LAMBDA w : Load(w, sect))), LAMBDA l :
         [l EXCEPT !.f.sect = sect])

\* One turn of the loop: up to the end of a cluster or of a sector.
ReadTurn(c, btr) ==
    IF ~OnSector(c) THEN ReadPart(c, PartLength(c, btr))
    ELSE With(IF OnCluster(c) THEN ReadCluster(c) ELSE [c EXCEPT !.ret = c.f.clust], LAMBDA k :
         IF k.ret \notin Clusters THEN BadCluster(k)
         ELSE With([k EXCEPT !.f.clust = k.ret], LAMBDA m :
              IF btr >= Ss THEN ReadRun(m, RunLength(m, btr))
              ELSE Then(ReadSector(m), LAMBDA s : ReadPart(s, PartLength(s, btr)))))

RECURSIVE ReadLoop(_, _)
ReadLoop(c, btr) ==
    IF btr = 0 THEN [c EXCEPT !.res = "OK"]
    ELSE Then(ReadTurn(c, btr), LAMBDA t : ReadLoop(t, btr - (t.f.fptr - c.f.fptr)))

\* got: the bytes read.
f_read(c, count) ==
    LET remain == c.f.objsize - c.f.fptr
        btr == IF count > remain THEN remain ELSE count
    IN ReadLoop([c EXCEPT !.got = <<>>], btr)

\* The bytes of data from the j-th whole sector on.
SectorOf(data, j) == [i \in 0 .. Ss - 1 |-> data[j * Ss + i + 1]]

Advance(c, wcnt) == LET p == c.f.fptr + wcnt IN
    [c EXCEPT !.f.fptr = p, !.f.objsize = IF p > @ THEN p ELSE @]

\* A transfer past the buffer refills it if it holds one of the sectors.
WriteRun(c, data, cc) == LET sect == SectAt(c) IN
    Then(OrAbort(disk_write(c, sect, [j \in 1 .. cc |-> SectorOf(data, j - 1)])), LAMBDA r :
    Advance(IF r.f.sect - sect \in 0 .. cc - 1
            THEN [r EXCEPT !.f.buf = SectorOf(data, r.f.sect - sect), !.f.flag = @ \ {"DIRTY"}]
            ELSE r, cc * Ss))

WritePart(c, data, wcnt) == LET ofs == Ofs(c) IN
    Advance([c EXCEPT !.f.flag = @ \cup {"DIRTY"},
                      !.f.buf = [i \in 0 .. Ss - 1 |->
                          IF i - ofs \in 0 .. wcnt - 1 THEN data[i - ofs + 1] ELSE @[i]]], wcnt)

\* The buffer moves to the sector of the file pointer; a new sector is not loaded.
WriteSector(c) == LET sect == SectAt(c) IN
    Then(OrAbort(IF c.f.sect # sect /\ c.f.fptr < c.f.objsize THEN Load(c, sect) ELSE c),
         LAMBDA l : [l EXCEPT !.f.sect = sect])

\* One turn of the loop, in the cluster k.ret.
WriteTurn(k, data) == LET btw == Len(data) IN
    CASE ~OnSector(k) -> WritePart(k, data, PartLength(k, btw))
      [] OnSector(k) /\ k.ret \notin Clusters -> BadCluster(k)
      [] OTHER ->
         Then(OrAbort(Flush([k EXCEPT !.f.clust = k.ret,
                                      !.f.sclust = IF @ = 0 THEN k.ret ELSE @])), LAMBDA w :
         IF btw >= Ss THEN WriteRun(w, data, RunLength(w, btw))
         ELSE Then(WriteSector(w), LAMBDA s : WritePart(s, data, PartLength(s, btw))))

\* got: the bytes left to write when the disk is full.
RECURSIVE WriteLoop(_, _)
WriteLoop(c, data) ==
    IF data = <<>> THEN [c EXCEPT !.res = "OK", !.got = <<>>]
    ELSE With(IF OnCluster(c) THEN WriteCluster(c) ELSE [c EXCEPT !.ret = c.f.clust], LAMBDA k :
         IF k.ret = 0 THEN [k EXCEPT !.res = "OK", !.got = data]
         ELSE Then(WriteTurn(k, data), LAMBDA t :
              WriteLoop(t, SubSeq(data, t.f.fptr - c.f.fptr + 1, Len(data)))))

f_write(c, data) == Then(WriteLoop(c, data), Modified)

\* The first cluster of a seek, and the rest of the way from its start.
SeekFrom(c, ofs) ==
    LET bcs == csize * Ss
        start == ((c.f.fptr - 1) \div bcs) * bcs
        top == [c EXCEPT !.f.fptr = 0, !.got = <<ofs>>]
    IN IF c.f.fptr > 0 /\ (ofs - 1) \div bcs >= (c.f.fptr - 1) \div bcs
       THEN [c EXCEPT !.f.fptr = start, !.ret = c.f.clust, !.got = <<ofs - start>>]
       ELSE With(IF c.f.sclust = 0 THEN create_chain(top, 0)
                 ELSE [top EXCEPT !.ret = c.f.sclust], LAMBDA n :
            IF n.ret \in {1, DiskErr} THEN BadCluster(n)
            ELSE [n EXCEPT !.f.clust = n.ret, !.f.sclust = n.ret])

\* ret: the cluster reached; got: the offset in it, 0 if the disk got full on the way.
RECURSIVE SeekLoop(_, _, _)
SeekLoop(c, clst, ofs) ==
    IF ofs <= csize * Ss THEN [c EXCEPT !.ret = clst, !.got = <<ofs>>, !.res = "OK"]
    ELSE With([c EXCEPT !.f.fptr = @ + csize * Ss], LAMBDA a :
         With(IF "W" \in c.f.flag THEN create_chain(a, clst) ELSE get_fat(a, clst), LAMBDA k :
         CASE k.ret = 0 /\ "W" \in c.f.flag -> [k EXCEPT !.got = <<0>>, !.res = "OK"]
           [] k.ret \in Clusters ->
                 SeekLoop([k EXCEPT !.f.clust = k.ret], k.ret, ofs - csize * Ss)
           [] OTHER -> BadCluster(k)))

\* The file grows to the pointer.
Grown(c) == IF c.f.fptr > c.f.objsize THEN Modified([c EXCEPT !.f.objsize = c.f.fptr]) ELSE c

\* Load the pointer's sector if it is inside one.
Arrive(c, nsect) ==
    IF OnSector(c) \/ nsect = c.f.sect THEN [c EXCEPT !.res = "OK"]
    ELSE Then(OrAbort(Then(Flush(c), LAMBDA w : Load(w, nsect))), LAMBDA l :
         [l EXCEPT !.f.sect = nsect])

f_lseek(c, target) ==
    LET ofs == IF target > c.f.objsize /\ "W" \notin c.f.flag THEN c.f.objsize ELSE target
    IN IF ofs = 0 THEN [c EXCEPT !.f.fptr = 0, !.res = "OK"]
       ELSE With(SeekFrom(c, ofs), LAMBDA b :
            CASE b.ret \in {1, DiskErr} -> b
              [] b.ret = 0 -> [b EXCEPT !.res = "OK"]
              [] OTHER -> Then(SeekLoop(b, b.ret, b.got[1]), LAMBDA k :
                          Arrive(Grown([k EXCEPT !.f.fptr = @ + k.got[1]]),
                                 clst2sect(k.ret) + k.got[1] \div Ss)))

\* The entry, in the window, takes the file's first cluster and size.
SetEntry(c) == SetSlot(c, c.f.dptr, [Slot(c, c.f.dptr) EXCEPT !.clust = c.f.sclust,
                                                              !.size = c.f.objsize])

\* Mutant: the entry is left in the window.
SyncToWindow(c) ==
    IF "MODIFIED" \notin c.f.flag THEN [c EXCEPT !.res = "OK"]
    ELSE Then(Flush(c), LAMBDA w : Then(move_window(w, c.f.dsect), LAMBDA m :
         [SetEntry(m) EXCEPT !.f.flag = @ \ {"MODIFIED"}]))

\* The change flag is cleared whether or not the entry reached the disk.
f_sync(c) ==
    IF "MODIFIED" \notin c.f.flag THEN [c EXCEPT !.res = "OK"]
    ELSE Then(Flush(c), LAMBDA w : Then(move_window(w, c.f.dsect), LAMBDA m :
         [sync_fs(SetEntry(m)) EXCEPT !.f.flag = @ \ {"MODIFIED"}]))

-----------------------------------------------------------------------------
(* Removing and making directories. *)

\* dir_next at the end of a table of one cluster.
EndOfTable(c, clst) == With(get_fat(c, clst), LAMBDA g :
    [g EXCEPT !.res = IF g.ret = DiskErr THEN "DISK_ERR" ELSE "NO_FILE"])

\* dir_read from the top of a directory: is there anything but the dots?
RECURSIVE FirstEntry(_, _, _)
FirstEntry(c, clst, i) ==
    IF i \notin SubSlots THEN EndOfTable(c, clst)
    ELSE Then(move_window(c, clst2sect(clst) + i \div Ss), LAMBDA m :
         CASE Slot(m, i).name = End -> [m EXCEPT !.res = "NO_FILE"]
           [] Slot(m, i).name \in {DDEM, ".", ".."} -> FirstEntry(m, clst, i + 1)
           [] OTHER -> m)

\* The entry goes before its chain.
f_unlink(c, name) == Then(dir_find(c, name), LAMBDA f : With(Slot(f, f.ret), LAMBDA s :
    With(IF s.dir THEN FirstEntry(f, s.clust, 0) ELSE [f EXCEPT !.res = "NO_FILE"], LAMBDA e :
    CASE e.res = "OK" -> [e EXCEPT !.res = "DENIED"]
      [] e.res \notin {"OK", "NO_FILE"} -> e
      [] OTHER -> Then(dir_remove(e, f.ret), LAMBDA d :
                  Then(IF s.clust # 0 THEN remove_chain(d, s.clust) ELSE d, sync_fs)))))

Dot(name, clust) == [FreeSlot(name) EXCEPT !.dir = TRUE, !.clust = clust]

\* A new directory's cluster with its dots, then its entry.
MakeDir(c, name, dcl) ==
    Then(Then(dir_clear(c, dcl, Unused), LAMBDA z :
              dir_register(SetSlot(SetSlot(z, 0, Dot(".", dcl)), 1, Dot("..", 0)), name)),
         LAMBDA r : SetSlot(r, r.ret, Dot(name, dcl)))

\* The cluster is allocated and cleared before the entry, and given back if it fails.
f_mkdir(c, name) == With(dir_find(c, name), LAMBDA f :
    CASE f.res = "OK" -> [f EXCEPT !.res = "EXIST"]
      [] f.res = "DISK_ERR" -> f
      [] OTHER -> With(create_chain(f, 0), LAMBDA k :
         CASE k.ret = 0 -> [k EXCEPT !.res = "DENIED"]
           [] k.ret = 1 -> [k EXCEPT !.res = "INT_ERR"]
           [] k.ret = DiskErr -> [k EXCEPT !.res = "DISK_ERR"]
           [] OTHER -> With(MakeDir(k, name, k.ret), LAMBDA m :
                 IF m.res = "OK" THEN sync_fs(m)
                 ELSE [remove_chain(m, k.ret) EXCEPT !.res = m.res])))

-----------------------------------------------------------------------------
(* What is on a disk, and what should be. *)

\* A name is absent, a directory, a file with known bytes, or not known after a fault.
\* AnyByte stands for a byte no call has defined.
AnyByte == Byte(-1)
Absent == [is |-> "absent", data |-> <<>>]
Unknown == [is |-> "unknown", data |-> <<>>]
Directory == [is |-> "directory", data |-> <<>>]
Known(data) == [is |-> "file", data |-> data]

Agrees(got, due) == Len(got) = Len(due)
                    /\ \A i \in DOMAIN got : due[i] = AnyByte \/ got[i] = due[i]

EntryAt(d, i) == d[SlotSect(i)][i % Ss]
Entries(d) == {EntryAt(d, i) : i \in {j \in Slots : \A k \in 0 .. j : EntryAt(d, k).name # End}}
              \ {e \in {EntryAt(d, i) : i \in Slots} : e.name = DDEM}

OnDisk(d, name) ==
    LET es == {e \in Entries(d) : e.name = name}
        e == CHOOSE x \in es : TRUE
        ch == ChainOf(FatOf(d), e.clust)
        byte(i) == d[clst2sect(ch[i \div (Ss * csize) + 1]) + ((i \div Ss) % csize)][i % Ss]
    IN CASE es = {} -> Absent
         [] es # {} /\ e.dir -> Directory
         [] OTHER -> Known([i \in 1 .. e.size |-> byte(i - 1)])

-----------------------------------------------------------------------------
(* The calls. *)

\* What a call may come to: a fault may hit any of its accesses and block writes.
Runs(Do(_)) == With(Do(NoFault), LAMBDA c : {c} \cup
    IF faults < MaxFaults THEN {Do(fault) : fault \in [kind : {"error", "power", "cut"}, at : 1 .. c.n]}
    ELSE {})

Remounted(d, lost) ==
    /\ vol' = mount_volume(d)
    /\ id' = id + 1
    /\ faults' = faults + 1
    /\ exact' = FALSE
    /\ saved' = [x \in DOMAIN saved |->
                   IF x \in lost \/ saved[x] = Unknown THEN OnDisk(d, x) ELSE saved[x]]
    /\ want' = saved'
    /\ agree' = TRUE

\* The buffer is gone, and with a cut the block that was being written.
PowerFailure(c, lost) ==
    /\ c.fault.kind \in {"power", "cut"} /\ c.came
    /\ fil' = [h \in Handles |-> NoFil]
    /\ cut' = c.cut
    /\ Remounted(c.chip, lost)

Return(c) ==
    /\ c.fault = NoFault \/ (c.fault.kind = "error" /\ c.came)
    /\ vol' = VolumeOf(c)
    /\ faults' = faults + (IF c.fault = NoFault THEN 0 ELSE 1)
    /\ exact' = (exact /\ c.fault = NoFault)
    /\ UNCHANGED <<id, cut>>

validate(f) == f.open /\ f.id = id
InUse(name) == \E h \in Handles : validate(fil[h]) /\ fil[h].name = name
NoneFree(c) == \A k \in Clusters : FatOf(Through(c))[k] # 0
RootFull == \A i \in Slots : EntryAt(Through(vol), i).name \notin {End, DDEM}

\* fileio_open
Open(h, name, acc, mode) ==
    LET makes == mode = "create" \/ (mode = "append" /\ want[name] = Absent)
    IN /\ ~fil[h].open /\ ~InUse(name)
       /\ \A g \in Handles : g < h => fil[g].open      \* fd_alloc takes the first free one
       /\ \E c \in Runs(LAMBDA fault : f_open(Call(NoFil, fault), name, acc, mode)) :
          \/ PowerFailure(c, IF makes THEN {name} ELSE {})
          \/ /\ Return(c)
             /\ fil' = [fil EXCEPT ![h] = IF c.res = "OK" THEN c.f ELSE NoFil]
             /\ want' = [want EXCEPT ![name] =
                   CASE ~makes \/ c.res = "DENIED" -> @
                     [] makes /\ c.res = "OK" -> Known(<<>>)
                     [] OTHER -> Unknown]
             /\ saved' = [saved EXCEPT ![name] =
                             IF makes /\ c.res # "DENIED" THEN Unknown ELSE @]
             /\ agree' = \/ c.fault # NoFault \/ want[name] = Unknown
                         \/ (c.res = "OK") =
                               (want[name] # Absent \/ (makes /\ ~RootFull))

\* fileio_read
Read(h, n) ==
    LET f == fil[h]
        w == want[f.name].data
    IN /\ validate(f) /\ ~f.err /\ "R" \in f.flag
       /\ \E c \in Runs(LAMBDA fault : f_read(Call(f, fault), n)) :
          \/ PowerFailure(c, {})
          \/ /\ Return(c)
             /\ fil' = [fil EXCEPT ![h] = c.f]
             /\ agree' = (c.res = "OK" /\ want[f.name] # Unknown =>
                             Agrees(c.got, SubSeq(w, f.fptr + 1,
                                 IF f.fptr + n < Len(w) THEN f.fptr + n ELSE Len(w))))
             /\ UNCHANGED <<want, saved>>

\* Bytes put at p, over what was there.
Put(w, p, data) == [i \in 1 .. (IF p + Len(data) > Len(w) THEN p + Len(data) ELSE Len(w)) |->
                       IF i - p \in DOMAIN data THEN data[i - p] ELSE w[i]]

\* fileio_write.  A short count means that the disk is full.
Write(h, n) ==
    LET f == fil[h]
        data == [i \in 1 .. n |-> Byte(i)]
    IN /\ validate(f) /\ ~f.err /\ "W" \in f.flag /\ f.fptr + n <= MaxSize
       /\ \E c \in Runs(LAMBDA fault : f_write(Call(f, fault), data)) :
          \/ PowerFailure(c, {f.name})
          \/ /\ Return(c)
             /\ fil' = [fil EXCEPT ![h] = c.f]
             /\ want' = [want EXCEPT ![f.name] =
                   IF c.res = "OK" /\ @ # Unknown THEN Known(Put(@.data, f.fptr, SubSeq(data, 1, n - Len(c.got))))
                   ELSE Unknown]
             /\ saved' = [saved EXCEPT ![f.name] = Unknown]
             /\ agree' = (c.res = "OK" /\ c.got # <<>> /\ exact => NoneFree(c))

\* fileio_lseek.  A file open for writing grows to the target.
Seek(h, ofs) ==
    LET f == fil[h]
        grown(c) == c.f.objsize - f.objsize
    IN /\ validate(f) /\ ~f.err /\ ofs <= MaxSize
       /\ \E c \in Runs(LAMBDA fault : f_lseek(Call(f, fault), ofs)) :
          \/ PowerFailure(c, IF "W" \in f.flag /\ ofs > f.objsize THEN {f.name} ELSE {})
          \/ /\ Return(c)
             /\ fil' = [fil EXCEPT ![h] = c.f]
             /\ want' = [want EXCEPT ![f.name] =
                   IF c.res = "OK" /\ @ # Unknown
                   THEN IF grown(c) > 0
                        THEN Known(@.data \o [i \in 1 .. grown(c) |-> AnyByte]) ELSE @
                   ELSE Unknown]
             /\ saved' = [saved EXCEPT ![f.name] =
                             IF grown(c) > 0 \/ c.res # "OK" THEN Unknown ELSE @]
             /\ agree' = (c.res = "OK" /\ exact =>
                             \/ c.f.fptr = ofs
                             \/ "W" \notin f.flag /\ c.f.fptr = f.objsize
                             \/ NoneFree(c))

\* fileio_close: the descriptor goes whatever f_close returns.
Close(h) ==
    LET f == fil[h]
        changed == "MODIFIED" \in f.flag
    IN /\ f.open
       /\ \/ /\ ~validate(f)
             /\ fil' = [fil EXCEPT ![h] = NoFil]
             /\ UNCHANGED <<vol, id, faults, exact, want, saved, cut, agree>>
          \/ /\ validate(f)
             /\ \E c \in Runs(LAMBDA fault : f_sync(Call(f, fault))) :
                \/ PowerFailure(c, IF changed THEN {f.name} ELSE {})
                \/ /\ Return(c)
                   /\ fil' = [fil EXCEPT ![h] = NoFil]
                   /\ want' = [want EXCEPT ![f.name] = IF c.res = "OK" THEN @ ELSE Unknown]
                   /\ saved' = [saved EXCEPT ![f.name] =
                         CASE c.res # "OK" -> Unknown
                           [] c.res = "OK" /\ changed -> want[f.name]
                           [] OTHER -> @]
                   /\ agree' = TRUE

\* SYS_unlink
Unlink(name) ==
    /\ ~InUse(name)
    /\ \E c \in Runs(LAMBDA fault : f_unlink(Call(NoFil, fault), name)) :
       \/ PowerFailure(c, {name})
       \/ /\ Return(c)
          /\ LET now == CASE c.res = "OK" -> Absent [] c.res = "NO_FILE" -> want[name]
                           [] OTHER -> Unknown
             IN /\ want' = [want EXCEPT ![name] = now]
                /\ saved' = [saved EXCEPT ![name] =
                                IF c.res = "NO_FILE" THEN @ ELSE now]
          /\ agree' = \/ c.fault # NoFault \/ want[name] = Unknown
                      \/ (c.res = "OK") = (want[name] # Absent)
          /\ UNCHANGED fil

\* SYS_mkdir
Mkdir(name) == \E c \in Runs(LAMBDA fault : f_mkdir(Call(NoFil, fault), name)) :
    \/ PowerFailure(c, {name})
    \/ /\ Return(c)
       /\ LET now(old) == CASE c.res = "OK" -> Directory [] c.res = "DISK_ERR" -> Unknown
                            [] OTHER -> old
          IN want' = [want EXCEPT ![name] = now(@)] /\ saved' = [saved EXCEPT ![name] = now(@)]
       /\ agree' = (c.res = "DENIED" /\ exact => NoneFree(c) \/ RootFull)
       /\ UNCHANGED fil

\* SYS_umount and SYS_mount: the flash is closed with its buffer written, the window
\* is dropped, open files go stale.
Remount ==
    /\ faults < MaxFaults
    /\ Remounted(Buffered(vol), {})
    /\ UNCHANGED <<fil, cut>>

\* A volume after formatting, or after old was closed with one byte more than a
\* cluster holds, in the clusters 3 and 5.
Formatted(old) ==
    LET fat == [k \in Clusters |-> CASE old = {} -> 0 [] old # {} /\ k = 3 -> 5
                                     [] old # {} /\ k = 5 -> EOC [] OTHER -> 0]
        bytes == csize * Ss + 1
        entry(name) == [FreeSlot(name) EXCEPT !.clust = 3, !.size = bytes]
        byte(k, i) == IF old = {} THEN Byte(0)
                      ELSE IF k = 3 THEN Byte(i + 1)
                      ELSE IF k = 5 /\ i = 0 THEN Byte(bytes) ELSE Byte(0)
    IN [s \in Sectors |->
          CASE s < fatbase -> <<>>
            [] s \in fatbase .. dirbase - 1 -> FatSector(fat, s)
            [] s \in dirbase .. database - 1 ->
                  [i \in 0 .. Ss - 1 |-> IF i = 0 /\ s = dirbase /\ old # {}
                                         THEN entry(CHOOSE x \in old : TRUE) ELSE Unused]
            [] OTHER -> [i \in 0 .. Ss - 1 |->
                  byte(2 + (s - database) \div csize, ((s - database) % csize) * Ss + i)]]

Init == \E old \in {{}} \cup {{x} : x \in Names} :
    /\ vol = mount_volume(Formatted(old))
    /\ fil = [h \in Handles |-> NoFil]
    /\ id = 1 /\ calls = 0 /\ faults = 0 /\ exact = TRUE /\ cut = {} /\ agree = TRUE
    /\ want = [x \in Names \cup DirNames |-> IF x \in old THEN OnDisk(vol.chip, x) ELSE Absent]
    /\ saved = want

\* What happens to a volume that has lost a block is not followed.
Next == calls < MaxCalls /\ cut = {} /\ calls' = calls + 1 /\
    \/ \E h \in Handles :
          \/ \E name \in Names : \/ \E acc \in {{"R"}, {"R", "W"}} : Open(h, name, acc, "open")
                                 \/ Open(h, name, {"R", "W"}, "create")
                                 \/ Open(h, name, {"W"}, "append")
          \/ \E n \in ReadLens : Read(h, n)
          \/ \E n \in WriteLens : Write(h, n)
          \/ \E ofs \in Seeks : Seek(h, ofs)
          \/ Close(h)
    \/ \E name \in Names \cup DirNames : Unlink(name)
    \/ \E name \in DirNames : Mkdir(name)
    \/ Remount

Spec == Init /\ [][Next]_vars

-----------------------------------------------------------------------------
\* On the chip as it is, so after a power failure at any moment, every entry's chain
\* exists, is long enough and shares no cluster with another: remove_chain,
\* create_chain and f_sync change the FAT and the entries in a safe order, also where
\* put_fat writes an entry of the FAT in two sectors.  A failure in the middle of a
\* block write (cut) is excepted: it may take a block of the FAT.
DiskConsistent == cut = {} =>
    LET fat == FatOf(vol.chip)
        es == Entries(vol.chip)
    IN /\ \A e \in es :
            /\ e.clust # 0 => \A k \in Allocated(fat, e.clust) : fat[k] # 0
            /\ e.clust # 0 => e.clust \in Clusters
            /\ e.size <= Ss * csize * (IF e.clust = 0 THEN 0 ELSE Len(ChainOf(fat, e.clust)))
       /\ \A e, g \in es : e # g /\ e.clust # 0 /\ g.clust # 0 =>
            Allocated(fat, e.clust) \cap Allocated(fat, g.clust) = {}

\* The sectors that hold a name: the root directory, its part of the FAT, its data.
SectorsOf(d, name) ==
    LET chain == UNION {Allocated(FatOf(d), e.clust) : e \in
                          {x \in Entries(d) : x.name = name /\ x.clust # 0}}
    IN (dirbase .. database - 1) \cup SectorsOfChain(chain)

\* What a call has closed, removed or made stays on the chip, byte for byte, whatever
\* other calls do and fail at: f_close, f_unlink and f_mkdir have synced it, through
\* the window and the flash driver's buffer.  A power failure in the middle of a block
\* write takes what has a sector in that block and nothing else.
SavedIsOnDisk ==
    \A x \in DOMAIN saved : saved[x] # Unknown /\ SectorsOf(vol.chip, x) \cap cut = {} =>
        LET d == OnDisk(vol.chip, x) IN
        d.is = saved[x].is /\ Agrees(d.data, saved[x].data)

\* What a call returns is right: f_read gives the bytes last written, through the
\* sector buffers and direct transfers of f_read and f_write and the flash driver's
\* buffer; an open finds what exists and makes what does not while the root directory
\* has room; a write or a seek falls short only when no cluster is free.
CallsAgree == agree

\* Without faults no cluster is lost: each one in use belongs to one entry, open file
\* or directory.
ClustersAccounted == exact =>
    LET d == Through(vol)
        fat == FatOf(d)
        heads == {e.clust : e \in Entries(d)}
                 \cup {fil[h].sclust : h \in {i \in Handles : fil[i].open}}
    IN {k \in Clusters : fat[k] # 0} = UNION {Allocated(fat, k) : k \in heads \ {0}}
=============================================================================
