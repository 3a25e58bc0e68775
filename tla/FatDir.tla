------------------------------- MODULE FatDir -------------------------------
(***************************************************************************)
(* Directories of the flash volume (ff.c) as file_ops.c, directory.c and   *)
(* file.c use them: long and short names, a root directory of fixed size,  *)
(* other tables that grow by clusters, paths, the current directory, a     *)
(* directory scan during changes, and a power failure at any disk access   *)
(* or block write.                                                         *)
(*                                                                         *)
(* Files are empty: their data are FatFiles' concern.  A file is created   *)
(* by an open that finds none and is written out by its close.             *)
(***************************************************************************)
EXTENDS FatVolume, FatNames

CONSTANTS
    Paths,       \* [text: characters, abs: from the root?, segs: the names it means]
    CreatePaths, MkdirPaths, UnlinkPaths, ChdirPaths, OpendirPaths, StatPaths,
    UsedFiles,   \* the files, in order, that a used volume may have at the start
    MaxCalls,    \* bound on the calls in a behaviour
    MaxFaults,   \* bound on power failures and remounts
    FaultCalls   \* only the first calls may meet one

ASSUME PathsAssumption ==
    CreatePaths \cup MkdirPaths \cup UnlinkPaths \cup ChdirPaths \cup OpendirPaths
        \cup StatPaths \subseteq Paths

VARIABLES
    vol,     \* FATFS, the flash driver's buffer and the chip
    cdir,    \* FATFS.cdir
    id,      \* Fsid
    dhnd,    \* one directory handle of directory.c
    fhnd,    \* one file handle of file.c
    calls, faults,
    names,   \* the directories that should exist, by cluster, and what they hold
    seen,    \* the names the scan has shown
    stay,    \* the names that were there when the scan began and still are
    torn,    \* a power failure has come while a table grew
    cut,     \* the sectors of a block whose write a power failure has cut short
    agree    \* what the last call did agrees with names

vars == <<vol, cdir, id, dhnd, fhnd, calls, faults, names, seen, stay, torn, cut, agree>>

-----------------------------------------------------------------------------
(* Entries. *)

Unused == [kind |-> "end"]
Deleted == [kind |-> "del"]
Short(fn, nt, dir, clust) ==
    [kind |-> "sfn", fn |-> fn, nt |-> nt, dir |-> dir, clust |-> clust]

\* What a free cluster may hold: old data that reads as an entry.
Junk == Short(Padded(<<74, 85, 78, 75>>, 11), {}, FALSE, 0)

NoBlk == -1
NoSum == 255
NoOrd == 255

\* A DIR: its table, the entry it is at, the start of the entry's long name, a name.
NoDir == [sclust |-> 0, dptr |-> 0, clust |-> 0, sect |-> 0, blk |-> NoBlk,
          fn |-> Padded(<<>>, 11), flags |-> {}]

NoFault == [kind |-> "none", at |-> 0]

Call(v, cd, fault) ==
    v @@ [cdir |-> cd, dp |-> NoDir, lfnbuf |-> <<>>, fault |-> fault, n |-> 0, came |-> FALSE,
          cut |-> {}, res |-> "OK", ret |-> 0, grew |-> FALSE, ord |-> NoOrd, sum |-> NoSum]

VolumeOf(c) == [field \in {"chip", "writebuf", "win", "winsect", "wflag", "last_clst"}
                   |-> c[field]]

Dir(c) == c.win[c.dp.dptr % Ss]
SetDir(c, e) == [c EXCEPT !.win[c.dp.dptr % Ss] = e, !.wflag = TRUE]

-----------------------------------------------------------------------------
(* Moving in a table. *)

RECURSIVE SdiFrom(_, _, _)
SdiFrom(c, clst, ofs) ==
    IF ofs < csize * Ss
    THEN [c EXCEPT !.dp.clust = clst, !.dp.sect = clst2sect(clst) + ofs \div Ss, !.res = "OK"]
    ELSE With(get_fat(c, clst), LAMBDA g :
         CASE g.ret = DiskErr -> [g EXCEPT !.res = "DISK_ERR"]
           [] g.ret \in Clusters -> SdiFrom(g, g.ret, ofs - csize * Ss)
           [] OTHER -> [g EXCEPT !.res = "INT_ERR"])

\* Cluster 0 is the root directory, a table of fixed size.
dir_sdi(c, ofs) == With([c EXCEPT !.dp.dptr = ofs], LAMBDA d :
    CASE c.dp.sclust # 0 -> SdiFrom(d, c.dp.sclust, ofs)
      [] c.dp.sclust = 0 /\ ofs >= n_rootdir -> [d EXCEPT !.res = "INT_ERR"]
      [] OTHER -> [d EXCEPT !.dp.clust = 0, !.dp.sect = dirbase + ofs \div Ss, !.res = "OK"])

\* What a failed create_chain means.
NoChain(c) == [c EXCEPT !.res = CASE c.ret = 0 -> "DENIED" [] c.ret = 1 -> "INT_ERR"
                                  [] OTHER -> "DISK_ERR"]

\* The table goes on in clst.
GoTo(c, clst) == [c EXCEPT !.dp.clust = clst, !.dp.sect = clst2sect(clst), !.res = "OK"]

\* A new cluster at the end of the table, linked before it is cleared.
Grow(c) == With(create_chain(c, c.dp.clust), LAMBDA k :
    IF k.ret \notin Clusters THEN NoChain(k)
    ELSE Then(dir_clear([k EXCEPT !.grew = TRUE], k.ret, Unused), LAMBDA z : GoTo(z, k.ret)))

\* The table has no more entries.
TableEnd(c) == [c EXCEPT !.dp.sect = 0, !.res = "NO_FILE"]

\* The next cluster of the table, a new one if the table may grow.
NextCluster(c, stretch) == With(get_fat(c, c.dp.clust), LAMBDA g :
    CASE g.ret <= 1 -> [g EXCEPT !.res = "INT_ERR"]
      [] g.ret = DiskErr -> [g EXCEPT !.res = "DISK_ERR"]
      [] g.ret \in Clusters -> GoTo(g, g.ret)
      [] OTHER -> IF stretch THEN Grow(g) ELSE TableEnd(g))

\* The next sector of the table that entry ofs begins.
NextSector(c, ofs, stretch) ==
    CASE c.dp.clust = 0 /\ ofs >= n_rootdir -> TableEnd(c)
      [] c.dp.clust # 0 /\ (ofs \div Ss) % csize = 0 -> NextCluster(c, stretch)
      [] OTHER -> [c EXCEPT !.dp.sect = @ + 1, !.res = "OK"]

dir_next(c, stretch) == LET ofs == c.dp.dptr + 1 IN
    IF c.dp.sect = 0 THEN [c EXCEPT !.res = "NO_FILE"]
    ELSE Then(IF ofs % Ss = 0 THEN NextSector(c, ofs, stretch) ELSE [c EXCEPT !.res = "OK"],
              LAMBDA s : [s EXCEPT !.dp.dptr = ofs])

IsFree(e) == e.kind \in {"del", "end"}

\* dir_alloc knows no missing file.
Denied(c) == IF c.res = "NO_FILE" THEN [c EXCEPT !.res = "DENIED"] ELSE c

\* Mutant: a run of free entries goes on over an entry in use.
RECURSIVE AnyFree(_, _)
AnyFree(c, n) == Then(move_window(c, c.dp.sect), LAMBDA m :
    LET k == IF IsFree(Dir(m)) THEN n - 1 ELSE n IN
    IF k = 0 THEN m ELSE Then(dir_next(m, TRUE), LAMBDA x : AnyFree(x, k)))

NoRestart(c, n_ent) == Denied(Then(dir_sdi(c, 0), LAMBDA s : AnyFree(s, n_ent)))

RECURSIVE AllocFrom(_, _, _)
AllocFrom(c, n, n_ent) == Then(move_window(c, c.dp.sect), LAMBDA m :
    LET k == IF IsFree(Dir(m)) THEN n + 1 ELSE 0 IN
    IF k = n_ent THEN m ELSE Then(dir_next(m, TRUE), LAMBDA x : AllocFrom(x, k, n_ent)))

\* n_ent free entries in a row; the DIR is at the last.
dir_alloc(c, n_ent) == Denied(Then(dir_sdi(c, 0), LAMBDA s : AllocFrom(s, 0, n_ent)))

-----------------------------------------------------------------------------
(* Finding and reading entries. *)

\* The order and checksum that an entry of a long name should have, the last piece
\* being the first met.
DueOrd(e, ord) == IF e.last THEN e.ord ELSE ord
DueSum(e, sum) == IF e.last THEN e.sum ELSE sum
InOrder(e, ord, sum) == e.ord = DueOrd(e, ord) /\ e.sum = DueSum(e, sum)

\* One entry of a search: the match is in ord and sum; ret is 1 when it is the one.
FindStep(c, ord, sum) == Then(move_window(c, c.dp.sect), LAMBDA m : With(Dir(m), LAMBDA e :
    LET look(blk, o, s) == [m EXCEPT !.dp.blk = blk, !.ord = o, !.sum = s, !.ret = 0]
    IN CASE e.kind = "end" -> [m EXCEPT !.res = "NO_FILE"]
         [] e.kind = "del" -> look(NoBlk, NoOrd, sum)
         [] e.kind = "lfn" ->
               IF "NOLFN" \in c.dp.flags THEN look(c.dp.blk, ord, sum)
               ELSE look(IF e.last THEN c.dp.dptr ELSE c.dp.blk,
                         IF InOrder(e, ord, sum) /\ cmp_lfn(c.lfnbuf, e)
                         THEN DueOrd(e, ord) - 1 ELSE NoOrd, DueSum(e, sum))
         [] OTHER ->
               IF \/ ord = 0 /\ sum = sum_sfn(e.fn)
                  \/ "LOSS" \notin c.dp.flags /\ e.fn = c.dp.fn
               THEN [m EXCEPT !.ret = 1] ELSE look(NoBlk, NoOrd, sum)))

RECURSIVE FindFrom(_)
FindFrom(c) == Then(FindStep(c, c.ord, c.sum), LAMBDA m :
    IF m.ret = 1 THEN m ELSE Then(dir_next(m, FALSE), FindFrom))

\* The entry whose long name is in lfnbuf, or whose short name is the DIR's.
dir_find(c) == Then(dir_sdi(c, 0), LAMBDA s :
    FindFrom([s EXCEPT !.dp.blk = NoBlk, !.ord = NoOrd, !.sum = NoSum]))

\* A piece of a long name goes to its place in lfnbuf: pieces come last first.
pick_lfn(lfnbuf, e) ==
    SubSeq(e.chars, 1, PieceLength(e)) \o (IF e.last THEN <<>> ELSE lfnbuf)

IsDot(e) == e.fn[1] = Period

\* One entry of a scan; ret is 1 when it is an object.
ReadStep(c, ord, sum) == Then(move_window(c, c.dp.sect), LAMBDA m : With(Dir(m), LAMBDA e :
    CASE e.kind = "end" -> [m EXCEPT !.res = "NO_FILE"]
      [] e.kind = "lfn" ->
            [m EXCEPT !.dp.blk = IF e.last THEN c.dp.dptr ELSE @, !.ret = 0,
                      !.lfnbuf = IF InOrder(e, ord, sum) THEN pick_lfn(@, e) ELSE @,
                      !.ord = IF InOrder(e, ord, sum) THEN DueOrd(e, ord) - 1 ELSE NoOrd,
                      !.sum = DueSum(e, sum)]
      [] e.kind = "del" \/ (e.kind = "sfn" /\ IsDot(e)) -> [m EXCEPT !.ord = NoOrd, !.ret = 0]
      [] OTHER -> [m EXCEPT !.dp.blk = IF ord # 0 \/ sum # sum_sfn(e.fn) THEN NoBlk ELSE @,
                            !.ret = 1]))

RECURSIVE ReadFrom(_)
ReadFrom(c) == Then(ReadStep(c, c.ord, c.sum), LAMBDA m :
    IF m.ret = 1 THEN m ELSE Then(dir_next(m, FALSE), ReadFrom))

\* The next object from the DIR's entry on; the DIR ends where the scan fails.
dir_read(c) ==
    IF c.dp.sect = 0 THEN [c EXCEPT !.res = "NO_FILE"]
    ELSE With(ReadFrom([c EXCEPT !.ord = NoOrd, !.sum = NoSum]), LAMBDA r :
         IF r.res = "OK" THEN r ELSE [r EXCEPT !.dp.sect = 0])

\* The name shown, its short form and what it is.
get_fileinfo(c) == With(Dir(c), LAMBDA e :
    [name |-> IF c.dp.blk # NoBlk THEN c.lfnbuf ELSE ShownShort(e.fn, e.nt),
     fn |-> e.fn, dir |-> e.dir, clust |-> e.clust])

-----------------------------------------------------------------------------
(* Registering and removing. *)

RECURSIVE NumberFrom(_, _, _)
NumberFrom(c, sn, n) ==
    IF n = 100 THEN [c EXCEPT !.res = "DENIED"]
    ELSE Then(dir_find([c EXCEPT !.dp.fn = gen_numname(sn, c.lfnbuf, n)]), LAMBDA f :
         NumberFrom(f, sn, n + 1))

\* Mutant: the first number is taken unseen.
NumberOne(c) ==
    IF "LOSS" \notin c.dp.flags THEN [c EXCEPT !.res = "NO_FILE"]
    ELSE [c EXCEPT !.dp.fn = gen_numname(c.dp.fn, c.lfnbuf, 1), !.res = "NO_FILE"]

\* A short name that no entry has; NO_FILE is success.
ShortName(c) ==
    IF "LOSS" \notin c.dp.flags THEN [c EXCEPT !.res = "NO_FILE"]
    ELSE [NumberFrom([c EXCEPT !.dp.flags = {"NOLFN"}], c.dp.fn, 1) EXCEPT
             !.dp.flags = c.dp.flags]

RECURSIVE PutPieces(_, _, _)
PutPieces(c, ord, sum) ==
    IF ord = 0 THEN c
    ELSE Then(move_window(c, c.dp.sect), LAMBDA m :
         Then(dir_next(SetDir(m, put_lfn(c.lfnbuf, ord, sum)), FALSE), LAMBDA x :
         PutPieces(x, ord - 1, sum)))

\* The pieces of the long name, last first, then the short name.
dir_register(c) ==
    LET n == IF "LFN" \in c.dp.flags THEN Pieces(Len(c.lfnbuf)) ELSE 0
        pieces(a) == IF n = 0 THEN a
                     ELSE Then(dir_sdi(a, a.dp.dptr - n), LAMBDA b :
                          PutPieces(b, n, sum_sfn(a.dp.fn)))
    IN IF c.dp.flags \cap {"DOT", "NONAME"} # {} THEN [c EXCEPT !.res = "INVALID_NAME"]
       ELSE With(ShortName(c), LAMBDA s :
            IF s.res # "NO_FILE" THEN s
            ELSE Then(Then(dir_alloc(s, n + 1), pieces), LAMBDA p :
                 Then(move_window(p, p.dp.sect), LAMBDA m :
                 SetDir(m, Short(p.dp.fn, c.dp.flags \cap {"BODY", "EXT"}, FALSE, 0)))))

RECURSIVE RemoveTo(_, _)
RemoveTo(c, last) == Then(move_window(c, c.dp.sect), LAMBDA m :
    IF c.dp.dptr >= last THEN SetDir(m, Deleted)
    ELSE Then(dir_next(SetDir(m, Deleted), FALSE), LAMBDA x : RemoveTo(x, last)))

\* From the first piece of the long name to the short name.
dir_remove(c) ==
    Then(IF c.dp.blk = NoBlk THEN [c EXCEPT !.res = "OK"] ELSE dir_sdi(c, c.dp.blk), LAMBDA s :
    With(RemoveTo(s, c.dp.dptr), LAMBDA r :
    IF r.res = "NO_FILE" THEN [r EXCEPT !.res = "INT_ERR"] ELSE r))

-----------------------------------------------------------------------------
(* Paths. *)

RECURSIVE FollowFrom(_, _)
FollowFrom(c, path) == With(create_name(path), LAMBDA k :
    LET last == "LAST" \in k.flags
        missing(f) ==
            CASE "DOT" \notin k.flags -> [f EXCEPT !.res = IF last THEN "NO_FILE" ELSE "NO_PATH"]
              [] "DOT" \in k.flags /\ last -> [f EXCEPT !.dp.flags = {"NONAME"}, !.res = "OK"]
              [] OTHER -> FollowFrom(f, k.rest)
        enter(f) == IF Dir(f).dir THEN FollowFrom([f EXCEPT !.dp.sclust = Dir(f).clust], k.rest)
                    ELSE [f EXCEPT !.res = "NO_PATH"]
    IN IF ~k.ok THEN [c EXCEPT !.res = "INVALID_NAME"]
       ELSE With(dir_find([c EXCEPT !.dp.fn = k.fn, !.dp.flags = k.flags, !.lfnbuf = k.lfn]),
            LAMBDA f : CASE f.res = "NO_FILE" -> missing(f)
                         [] f.res = "OK" /\ ~last -> enter(f)
                         [] OTHER -> f))

\* mount_volume takes the drive off the path first.
follow_path(c, text) ==
    LET local == AfterDrive(text)
        abs == local # <<>> /\ IsSeparator(local[1])
        path == IF abs THEN AfterSegment(local) ELSE local
        d == [c EXCEPT !.dp.sclust = IF abs THEN 0 ELSE c.cdir]
    IN CASE get_ldnumber(text) < 0 -> [c EXCEPT !.res = "INVALID_DRIVE"]
         [] get_ldnumber(text) >= 0 /\ path = <<>> ->
               dir_sdi([d EXCEPT !.dp.flags = {"NONAME"}], 0)
         [] OTHER -> FollowFrom(d, path)

Origin(c) == "NONAME" \in c.dp.flags
NoPath(c) == IF c.res = "NO_FILE" THEN [c EXCEPT !.res = "NO_PATH"] ELSE c

-----------------------------------------------------------------------------
(* The calls of ff.h. *)

\* FA_OPEN_APPEND: what exists is opened, else an entry is made.  ret is 1 for a new one.
f_open(c, text) == With(follow_path(c, text), LAMBDA f :
    CASE f.res = "OK" /\ Origin(f) -> [f EXCEPT !.res = "INVALID_NAME"]
      [] f.res = "OK" /\ ~Origin(f) /\ Dir(f).dir -> [f EXCEPT !.res = "DENIED"]
      [] f.res = "NO_FILE" -> [dir_register(f) EXCEPT !.ret = 1]
      [] OTHER -> [f EXCEPT !.ret = 0])

\* The entry of a new file is written again, without a change, and synced.
f_close(c, sect) == Then(move_window(c, sect), LAMBDA m : sync_fs([m EXCEPT !.wflag = TRUE]))

\* NO_FILE if the directory with this first cluster is empty, OK if it is not.
AnyIn(c, clust) ==
    Then(dir_sdi([c EXCEPT !.dp = [NoDir EXCEPT !.sclust = clust]], 0), dir_read)

\* The object that the DIR is at goes: its entries, then its chain.
Remove(c, clust) == Then(dir_remove(c), LAMBDA d :
    Then(IF clust # 0 THEN remove_chain(d, clust) ELSE d, sync_fs))

RemoveDir(f) == LET clust == Dir(f).clust IN
    With(AnyIn(f, clust), LAMBDA sub :
    CASE sub.res = "OK" -> [sub EXCEPT !.res = "DENIED"]
      [] sub.res = "NO_FILE" -> Remove([sub EXCEPT !.dp = f.dp], clust)
      [] OTHER -> sub)

\* Mutant: any empty directory may go.
UnlinkAny(c, text) == Then(follow_path(c, text), LAMBDA f :
    CASE f.dp.flags \cap {"DOT", "NONAME"} # {} -> [f EXCEPT !.res = "INVALID_NAME"]
      [] f.dp.flags \cap {"DOT", "NONAME"} = {} /\ Dir(f).dir -> RemoveDir(f)
      [] OTHER -> Remove(f, Dir(f).clust))

\* A directory must be empty and not the current one.
f_unlink(c, text) == Then(follow_path(c, text), LAMBDA f :
    CASE f.dp.flags \cap {"DOT", "NONAME"} # {} -> [f EXCEPT !.res = "INVALID_NAME"]
      [] f.dp.flags \cap {"DOT", "NONAME"} = {} /\ Dir(f).dir ->
            IF Dir(f).clust = c.cdir THEN [f EXCEPT !.res = "DENIED"] ELSE RemoveDir(f)
      [] OTHER -> Remove(f, Dir(f).clust))

DotEntry(dots, clust) == Short(Padded(dots, 11), {}, TRUE, clust)

\* A new directory's cluster with its dots, then its entry in the directory up.
MakeDir(c, dcl, up) ==
    Then(Then(dir_clear(c, dcl, Unused), LAMBDA z :
              dir_register([z EXCEPT !.win[0] = DotEntry(<<Period>>, dcl),
                                     !.win[1] = DotEntry(<<Period, Period>>, up),
                                     !.wflag = TRUE])),
         LAMBDA r : SetDir(r, Short(r.dp.fn, Dir(r).nt, TRUE, dcl)))

\* Mutant: the entry is left in the window.
MkdirUnsynced(c, text) == With(follow_path(c, text), LAMBDA f :
    CASE f.res = "OK" -> [f EXCEPT !.res = "EXIST"]
      [] f.res \notin {"OK", "NO_FILE"} -> f
      [] OTHER -> With(create_chain(f, 0), LAMBDA k :
         IF k.ret \notin Clusters THEN NoChain(k)
         ELSE With(MakeDir(k, k.ret, f.dp.sclust), LAMBDA m :
              IF m.res = "OK" THEN [m EXCEPT !.ret = k.ret]
              ELSE [remove_chain(m, k.ret) EXCEPT !.res = m.res])))

\* The cluster is made a directory before its entry is registered, freed if that fails.
\* ret: the new cluster.
f_mkdir(c, text) == With(follow_path(c, text), LAMBDA f :
    CASE f.res = "OK" -> [f EXCEPT !.res = "EXIST"]
      [] f.res \notin {"OK", "NO_FILE"} -> f
      [] OTHER -> With(create_chain(f, 0), LAMBDA k :
         IF k.ret \notin Clusters THEN NoChain(k)
         ELSE With(MakeDir(k, k.ret, f.dp.sclust), LAMBDA m :
              IF m.res = "OK" THEN [sync_fs(m) EXCEPT !.ret = k.ret]
              ELSE [remove_chain(m, k.ret) EXCEPT !.res = m.res])))

f_chdir(c, text) == Then(NoPath(follow_path(c, text)), LAMBDA f :
    CASE Origin(f) -> [f EXCEPT !.cdir = f.dp.sclust]
      [] ~Origin(f) /\ Dir(f).dir -> [f EXCEPT !.cdir = Dir(f).clust]
      [] OTHER -> [f EXCEPT !.res = "NO_PATH"])

f_stat(c, text) == Then(follow_path(c, text), LAMBDA f :
    IF Origin(f) THEN [f EXCEPT !.res = "INVALID_NAME"] ELSE f)

f_opendir(c, text) == Then(NoPath(follow_path(c, text)), LAMBDA f :
    CASE Origin(f) -> dir_sdi(f, 0)
      [] ~Origin(f) /\ Dir(f).dir -> dir_sdi([f EXCEPT !.dp.sclust = Dir(f).clust], 0)
      [] OTHER -> [f EXCEPT !.res = "NO_PATH"])

\* An object and the DIR moved past it; no object at the end of the table.
f_readdir(c) ==
    LET ok(y) == IF y.res = "NO_FILE" THEN [y EXCEPT !.res = "OK"] ELSE y
    IN With(dir_read(c), LAMBDA r :
       CASE r.res = "NO_FILE" -> [end |-> TRUE, info |-> <<>>, c |-> ok(r)]
         [] r.res = "OK" ->
               [end |-> FALSE, info |-> <<get_fileinfo(r)>>, c |-> ok(dir_next(r, FALSE))]
         [] OTHER -> [end |-> FALSE, info |-> <<>>, c |-> r])

-----------------------------------------------------------------------------
(* What should be: a tree of directories known by their clusters. *)

RangeOf(s) == {s[i] : i \in DOMAIN s}

Matches(ents, seg) ==
    {e \in ents : UpperName(seg) \in {UpperName(e.name), ShownShort(e.fn, {})}}

Dots == {<<Period>>, <<Period, Period>>}
NoWhere == -1

\* The directory that seg leads to from dir.
Enter(dir, seg) ==
    LET subs == {e \in Matches(names[dir].ents, seg) : e.dir} IN
    CASE dir = NoWhere -> NoWhere
      [] dir # NoWhere /\ seg = <<Period>> -> dir
      [] dir # NoWhere /\ seg = <<Period, Period>> -> names[dir].up
      [] OTHER -> IF subs = {} THEN NoWhere ELSE (CHOOSE e \in subs : TRUE).clust

\* What a path means: is it nopath, origin, dots, missing or found; in which directory.
Meaning(p) ==
    LET k == Len(p.segs)
        at[i \in 0 .. k] == IF i = 0 THEN (IF p.abs THEN 0 ELSE cdir)
                            ELSE Enter(at[i - 1], p.segs[i])
        dir == at[k - 1]
        found == Matches(names[dir].ents, p.segs[k])
    IN CASE k = 0 -> [is |-> "origin", dir |-> at[0], ents |-> {}]
         [] k > 0 /\ dir = NoWhere -> [is |-> "nopath", dir |-> NoWhere, ents |-> {}]
         [] k > 0 /\ dir # NoWhere /\ p.segs[k] \in Dots ->
               [is |-> IF dir = 0 THEN "origin" ELSE "dots", dir |-> at[k], ents |-> {}]
         [] OTHER -> [is |-> IF found = {} THEN "missing" ELSE "found", dir |-> dir,
                      ents |-> found]

FoundDir(m) == m.is = "found" /\ \E e \in m.ents : e.dir
\* The directory a path means, if it means one.
DirOf(m) == CASE m.is \in {"origin", "dots"} -> m.dir
              [] FoundDir(m) -> (CHOOSE e \in m.ents : TRUE).clust
              [] OTHER -> NoWhere

FreeClusters(v) == {k \in Clusters : get_fat(Call(v, 0, NoFault), k).ret = 0}

\* The objects that a scan of a directory from its top shows.
RECURSIVE ListFrom(_)
ListFrom(c) == With(f_readdir(c), LAMBDA r :
    IF r.info = <<>> THEN <<>> ELSE r.info \o ListFrom(r.c))

Listing(v, dir) == ListFrom(dir_sdi([Call(v, 0, NoFault) EXCEPT !.dp.sclust = dir], 0))

-----------------------------------------------------------------------------
(* The system calls. *)

NoDirHandle == [open |-> FALSE, id |-> 0, dp |-> NoDir, done |-> FALSE]
NoFile == [open |-> FALSE, id |-> 0, sect |-> 0, new |-> FALSE, dir |-> 0, fn |-> <<>>]

\* What a call may come to: a fault may hit any of its accesses and block writes.
Runs(Do(_)) == With(Do(NoFault), LAMBDA c : {c} \cup
    IF faults < MaxFaults /\ calls < FaultCalls THEN {Do(fault) : fault \in [kind : {"power", "cut"}, at : 1 .. c.n]}
    ELSE {})

ValidDir == dhnd.open /\ dhnd.id = id
ValidFile == fhnd.open /\ fhnd.id = id

\* The entries that a loss of the window may take: that of a new open file.
Unsaved == [dir \in DOMAIN names |->
    IF ValidFile /\ fhnd.new /\ fhnd.dir = dir
    THEN {e \in names[dir].ents : e.fn = fhnd.fn} ELSE {}]

\* The volume is mounted again from the disk d; the entries in lost[dir] may be
\* gone, and only entries of these short names, and old data if grew, may be new.
Mounted(d, lost, shorts, grew) ==
    LET kept(dir) == names[dir].ents \ lost[dir] IN
    \E v \in {mount_volume(d)} :
    \E extra \in {[dir \in DOMAIN names |-> RangeOf(Listing(v, dir)) \ kept(dir)]} :
    LET dropped == {e.clust : e \in UNION {{x \in lost[dir] : x.dir} : dir \in DOMAIN names}}
        subs == UNION {{<<dir, e>> : e \in {x \in extra[dir] : x.dir}} : dir \in DOMAIN names}
        live == (DOMAIN names \ dropped) \cup {x[2].clust : x \in subs}
    IN /\ vol' = v /\ id' = id + 1 /\ faults' = faults + 1 /\ cdir' = 0
       /\ names' = [dir \in live |->
             IF dir \in DOMAIN names
             THEN [up |-> names[dir].up, ents |-> kept(dir) \cup extra[dir]]
             ELSE [up |-> (CHOOSE x \in subs : x[2].clust = dir)[1], ents |-> {}]]
       /\ torn' = (torn \/ grew)
       /\ agree' = (torn' \/ cut' # {} \/ \A dir \in DOMAIN names : \A e \in extra[dir] : e.fn \in shorts)
       /\ seen' = <<>> /\ stay' = {}

PowerFailure(c, lost, shorts) ==
    /\ c.fault # NoFault /\ c.came
    /\ cut' = c.cut
    /\ Mounted(c.chip, lost, shorts \cup (IF ValidFile THEN {fhnd.fn} ELSE {}), c.grew)
    /\ dhnd' = NoDirHandle /\ fhnd' = NoFile

Return(c) ==
    /\ c.fault = NoFault
    /\ vol' = VolumeOf(c)
    /\ UNCHANGED <<id, faults, torn, cut>>

\* A new entry in dir.  After an interrupted registration its short name may show the
\* long name that was left in front of it; after an interrupted growth of the table it
\* may be out of reach, behind an unused entry and old data.
Added(c, dir) == {e \in RangeOf(Listing(VolumeOf(c), dir)) : e.fn = c.dp.fn}

\* The root directory has no n free entries in a row.
RootFull(n) ==
    LET free(i) == IsFree(Through(vol)[dirbase + i \div Ss][i % Ss])
    IN ~\E i \in 0 .. n_rootdir - n : \A k \in 0 .. n - 1 : free(i + k)

\* A table cannot take the entries of a name: the root directory has no place, another
\* no cluster to grow by when the call has taken some.
NoRoom(c, dir, taken) ==
    IF dir = 0 THEN RootFull(1 + (IF "LFN" \in c.dp.flags THEN Pieces(Len(c.lfnbuf)) ELSE 0))
    ELSE Cardinality(FreeClusters(vol)) <= taken

\* fileio_open with _FAPPEND
Create(p) == ~fhnd.open /\ \E m \in {Meaning(p)} :
    \E c \in Runs(LAMBDA fault : f_open(Call(vol, cdir, fault), p.text)) :
       \/ PowerFailure(c, Unsaved, {c.dp.fn})
       \/ LET made == c.res = "OK" /\ c.ret = 1
          IN /\ Return(c)
             /\ fhnd' = IF c.res # "OK" THEN NoFile
                        ELSE [open |-> TRUE, id |-> id, sect |-> c.winsect, new |-> c.ret = 1,
                              dir |-> m.dir, fn |-> Dir(c).fn]
             /\ \E new \in {IF made THEN Added(c, m.dir) ELSE {}} :
                /\ names' = IF made THEN [names EXCEPT ![m.dir].ents = @ \cup new] ELSE names
                /\ agree' = CASE torn -> TRUE
                              [] m.is = "found" /\ ~FoundDir(m) -> c.res = "OK" /\ ~made
                              [] m.is = "missing" ->
                                    \/ made /\ \E e \in new :
                                          faults = 0 => e.name = p.segs[Len(p.segs)]
                                    \/ c.res = "DENIED" /\ NoRoom(c, m.dir, 0)
                              [] m.is = "nopath" -> c.res = "NO_PATH"
                              [] m.is = "origin" -> c.res = "INVALID_NAME"
                              [] OTHER -> c.res = "DENIED"
             /\ UNCHANGED <<cdir, dhnd, seen, stay>>

\* fileio_close
Close ==
    /\ fhnd.open
    /\ \/ /\ ValidFile /\ fhnd.new
          /\ \E c \in Runs(LAMBDA fault : f_close(Call(vol, cdir, fault), fhnd.sect)) :
             \/ PowerFailure(c, Unsaved, {})
             \/ /\ Return(c)
                /\ fhnd' = NoFile /\ agree' = (c.res = "OK")
                /\ UNCHANGED <<cdir, dhnd, names, seen, stay>>
       \/ /\ ~(ValidFile /\ fhnd.new)
          /\ fhnd' = NoFile
          /\ UNCHANGED <<vol, id, faults, cdir, dhnd, names, seen, stay, torn, cut, agree>>

\* SYS_mkdir
Mkdir(p) == \E m \in {Meaning(p)} :
    \E c \in Runs(LAMBDA fault : f_mkdir(Call(vol, cdir, fault), p.text)) :
       \/ PowerFailure(c, Unsaved, {c.dp.fn})
       \/ LET made == c.res = "OK"
          IN /\ Return(c)
             /\ \E new \in {IF made THEN Added(c, m.dir) ELSE {}} :
                /\ names' = IF made
                            THEN (IF new = {} THEN <<>> ELSE c.ret :> [up |-> m.dir, ents |-> {}])
                                 @@ [names EXCEPT ![m.dir].ents = @ \cup new]
                            ELSE names
                /\ agree' = CASE torn -> TRUE
                              [] m.is = "missing" ->
                                   \/ /\ made
                                      /\ \E e \in new :
                                            /\ e.dir /\ e.clust = c.ret
                                            /\ faults = 0 => e.name = p.segs[Len(p.segs)]
                                   \/ c.res = "DENIED"
                                      /\ (NoRoom(c, m.dir, 1) \/ FreeClusters(vol) = {})
                              [] m.is = "nopath" -> c.res = "NO_PATH"
                              [] OTHER -> c.res = "EXIST"
             /\ fhnd' = IF made THEN [fhnd EXCEPT !.new = FALSE] ELSE fhnd
             /\ UNCHANGED <<cdir, dhnd, seen, stay>>

\* SYS_unlink, of nothing that is open
Unlink(p) == \E m \in {Meaning(p)} :
    LET gone(dir) == IF dir = m.dir THEN m.ents ELSE {}
        sub == DirOf(m)
    IN /\ ~(ValidFile /\ \E e \in m.ents : fhnd.dir = m.dir /\ fhnd.fn = e.fn)
       /\ ~(ValidDir /\ FoundDir(m) /\ dhnd.dp.sclust = sub)
       /\ \E c \in Runs(LAMBDA fault : f_unlink(Call(vol, cdir, fault), p.text)) :
          \/ PowerFailure(c, [dir \in DOMAIN names |-> gone(dir) \cup Unsaved[dir]],
                          {e.fn : e \in m.ents})
          \/ /\ Return(c)
             /\ names' = IF c.res # "OK" THEN names
                         ELSE [dir \in DOMAIN names \ (IF FoundDir(m) THEN {sub} ELSE {}) |->
                                 [names[dir] EXCEPT !.ents = @ \ gone(dir)]]
             /\ fhnd' = IF c.res = "OK" THEN [fhnd EXCEPT !.new = FALSE] ELSE fhnd
             /\ stay' = IF c.res = "OK" /\ dhnd.dp.sclust = m.dir THEN stay \ m.ents ELSE stay
             /\ agree' = CASE torn -> TRUE
                           [] m.is \in {"origin", "dots"} -> c.res = "INVALID_NAME"
                           [] m.is = "missing" -> c.res = "NO_FILE"
                           [] m.is = "nopath" -> c.res = "NO_PATH"
                           [] FoundDir(m) ->
                                 c.res = IF sub = cdir \/ names[sub].ents # {}
                                         THEN "DENIED" ELSE "OK"
                           [] OTHER -> c.res = "OK"
             /\ UNCHANGED <<cdir, dhnd, seen>>

\* SYS_chdir
Chdir(p) == \E to \in {DirOf(Meaning(p))}, c \in {f_chdir(Call(vol, cdir, NoFault), p.text)} :
    /\ Return(c)
    /\ cdir' = c.cdir
    /\ agree' = (c.res = (IF to = NoWhere THEN "NO_PATH" ELSE "OK")
                 /\ (to # NoWhere => c.cdir = to))
    /\ UNCHANGED <<dhnd, fhnd, names, seen, stay>>

\* SYS_stat
Stat(p) == \E m \in {Meaning(p)}, c \in {f_stat(Call(vol, cdir, NoFault), p.text)} :
    /\ Return(c)
    /\ agree' = CASE m.is = "found" -> c.res = "OK" /\ (Dir(c).dir <=> FoundDir(m))
                                       /\ \E e \in m.ents : e.fn = Dir(c).fn
                  [] m.is = "missing" -> c.res = "NO_FILE"
                  [] m.is = "nopath" -> c.res = "NO_PATH"
                  [] m.is = "origin" -> c.res = "INVALID_NAME"
                  [] OTHER -> c.res = "OK"
    /\ UNCHANGED <<cdir, dhnd, fhnd, names, seen, stay>>

\* SYS_opendir
Opendir(p) == ~dhnd.open /\
    \E to \in {DirOf(Meaning(p))}, c \in {f_opendir(Call(vol, cdir, NoFault), p.text)} :
       /\ Return(c)
       /\ dhnd' = IF c.res = "OK" THEN [open |-> TRUE, id |-> id, dp |-> c.dp, done |-> FALSE]
                  ELSE dhnd
       /\ seen' = <<>>
       /\ stay' = IF to = NoWhere THEN {} ELSE names[to].ents
       /\ agree' = (c.res = IF to = NoWhere THEN "NO_PATH" ELSE "OK")
       /\ UNCHANGED <<cdir, fhnd, names>>

\* Mutant: the position is not kept.
ReadAgain == ValidDir /\ ~dhnd.done /\
    \E r \in {f_readdir([Call(vol, cdir, NoFault) EXCEPT !.dp = dhnd.dp])} :
       /\ Return(r.c)
       /\ dhnd' = [dhnd EXCEPT !.done = r.end]
       /\ seen' = seen \o r.info
       /\ UNCHANGED <<cdir, fhnd, names, stay, agree>>

\* SYS_readdir
Readdir == ValidDir /\ ~dhnd.done /\
    \E r \in {f_readdir([Call(vol, cdir, NoFault) EXCEPT !.dp = dhnd.dp])} :
       /\ Return(r.c)
       /\ dhnd' = [dhnd EXCEPT !.dp = r.c.dp, !.done = r.end]
       /\ seen' = seen \o r.info
       /\ agree' = (r.c.res = "OK" /\ \A i \in DOMAIN r.info :
                       \E e \in names[dhnd.dp.sclust].ents : e.fn = r.info[i].fn)
       /\ UNCHANGED <<cdir, fhnd, names, stay>>

\* SYS_closedir: a handle from before a remount stays open.
Closedir ==
    /\ ValidDir
    /\ dhnd' = NoDirHandle /\ seen' = <<>> /\ stay' = {}
    /\ UNCHANGED <<vol, cdir, id, fhnd, faults, names, torn, cut, agree>>

\* SYS_umount and SYS_mount: the flash is closed with its buffer written, the window
\* is dropped, what is open goes stale.
Remount ==
    /\ faults < MaxFaults /\ calls < FaultCalls
    /\ UNCHANGED <<dhnd, fhnd, cut>>
    /\ Mounted(Buffered(vol), Unsaved, IF ValidFile THEN {fhnd.fn} ELSE {}, FALSE)

\* A formatted volume; free clusters hold old data.
Formatted ==
    [s \in Sectors |->
        CASE s < fatbase -> <<>>
          [] s \in fatbase .. dirbase - 1 -> FatSector(<<>>, s)
          [] s \in dirbase .. database - 1 -> [i \in 0 .. Ss - 1 |-> Unused]
          [] OTHER -> [i \in 0 .. Ss - 1 |-> Junk]]

\* A volume as the calls leave it: these files and a directory.
Again(c) == Call(VolumeOf(c), 0, NoFault)

RECURSIVE Made(_, _)
Made(c, files) == IF files = <<>> THEN c
    ELSE With(f_open(c, Head(files).text), LAMBDA o :
             Made(Again(f_close(Again(o), o.winsect)), Tail(files)))

Used(files, d) == VolumeOf(f_mkdir(Made(Again(mount_volume(Formatted)), files), d.text))

InitVolume(v) == \E top \in {RangeOf(Listing(v, 0))} :
    /\ vol = v
    /\ names = [dir \in {0} \cup {e.clust : e \in {x \in top : x.dir}} |->
                  [up |-> 0, ents |-> IF dir = 0 THEN top ELSE {}]]

Init ==
    /\ \/ InitVolume(mount_volume(Formatted))
       \/ \E files \in UsedFiles, d \in MkdirPaths : InitVolume(Used(files, d))
    /\ cdir = 0 /\ id = 1
    /\ dhnd = NoDirHandle /\ fhnd = NoFile
    /\ calls = 0 /\ faults = 0
    /\ seen = <<>> /\ stay = {} /\ torn = FALSE /\ cut = {} /\ agree = TRUE

\* What happens to a volume that has lost a block is not followed.
\* One more call, on a volume that has lost no block.
Counted == calls < MaxCalls /\ cut = {} /\ calls' = calls + 1

Next ==
    \/ Counted /\ \E p \in CreatePaths : Create(p)
    \/ Counted /\ Close
    \/ Counted /\ \E p \in MkdirPaths : Mkdir(p)
    \/ Counted /\ \E p \in UnlinkPaths : Unlink(p)
    \/ Counted /\ \E p \in ChdirPaths : Chdir(p)
    \/ Counted /\ \E p \in StatPaths : Stat(p)
    \/ Counted /\ \E p \in OpendirPaths : Opendir(p)
    \/ Counted /\ Readdir
    \/ Counted /\ Closedir
    \/ Counted /\ Remount

Spec == Init /\ [][Next]_vars

-----------------------------------------------------------------------------
\* A scan of any directory shows what the calls have put there and not removed, each
\* once and under the name it was given: dir_register, dir_remove and dir_alloc never
\* damage another entry's pieces, and dir_read ties each long name to its own entry.
\* A power failure between the linking and the clearing of a table's new cluster in
\* dir_next (torn) breaks this: old data then pass for entries; so does one in the middle
\* of a block write (cut).
NamesListed ==
    cut = {} /\ ~torn => \A dir \in DOMAIN names : \E l \in {Listing(vol, dir)} :
        RangeOf(l) = names[dir].ents /\ Len(l) = Cardinality(names[dir].ents)

\* The sectors that a directory's table is in.
SectorsOf(dir) == IF dir = 0 THEN dirbase .. database - 1
                  ELSE SectorsOfChain(Allocated(FatOf(vol.chip), dir))

\* What a close, mkdir or unlink has returned from is on the chip, whatever is lost with
\* the window and the flash driver's buffer, and even when old data have become part of
\* a table; a power failure in the middle of a block write takes no table that has no
\* sector in the block.
NamesSaved ==
    \A dir \in DOMAIN names : SectorsOf(dir) \cap cut = {} =>
        names[dir].ents \ Unsaved[dir] \subseteq RangeOf(Listing(mount_volume(vol.chip), dir))

\* A path means one object in every call: by its long or its short name, in either
\* case, through dots and the current directory; a call fails only as it should, for
\* want of room when the root directory has no place for the name or no cluster is free
\* for another table; and a power failure adds no name but the one it interrupted.
PathsAgree == agree

\* A scan shows an entry that is there from its start to its end once, whatever is
\* created and removed meanwhile.
ScanComplete ==
    ValidDir => \A e \in stay :
        LET times == Cardinality({i \in DOMAIN seen : seen[i] = e}) IN
        times <= 1 /\ (dhnd.done => times = 1)

\* The current directory and a directory being scanned exist.
DirsLive == cdir \in DOMAIN names /\ (ValidDir => dhnd.dp.sclust \in DOMAIN names)

\* No two entries of a directory have the same short name.
ShortNamesUnique ==
    cut = {} /\ ~torn => \A dir \in DOMAIN names : \E l \in {Listing(vol, dir)} :
        \A i, k \in DOMAIN l : l[i].fn = l[k].fn => i = k

\* A directory is what the calls have made it: its names, their short forms, and the
\* directories that programs stand in or scan.
DirectoriesIntact == NamesListed /\ ShortNamesUnique /\ DirsLive
=============================================================================
