---------------------------- MODULE Descriptors ----------------------------
(***************************************************************************)
(* Who holds which descriptor: the table of fd.c, the devices of           *)
(* dev_open.c, the flash slots of spi_flashdev.c, the files and directory  *)
(* handles on FatFs, the descriptor the file system itself keeps on the    *)
(* flash (flashdisc.c), and the loading of programs, which opens and       *)
(* closes one (elfload.c, exit.c, super_shell.c).                          *)
(*                                                                         *)
(* One program runs at a time and a system call is not interrupted by      *)
(* another, so a call is one action.  Calls nest, though: opening a file   *)
(* may mount the volume, and that opens the flash.  What a call makes of   *)
(* the kernel's tables is therefore an operator on them.                   *)
(***************************************************************************)
EXTENDS Naturals, Integers, FiniteSetsExt

CONSTANTS
    MAX_FILE_DESCRIPTORS,
    MAX_FLASH_FDS,
    MAX_DHND,
    BootImages,  \* whether elf_load_fd can find init in the flash
    Careful      \* programs close only what they opened

ASSUME TablesAssumption ==
    /\ MAX_FILE_DESCRIPTORS \in Nat /\ MAX_FILE_DESCRIPTORS > 3
    /\ {MAX_FLASH_FDS, MAX_DHND} \subseteq Nat \ {0}
    /\ BootImages \subseteq BOOLEAN /\ Careful \in BOOLEAN

Fd == 0 .. MAX_FILE_DESCRIPTORS - 1
Stdio == 0 .. 2
Devices == {"console", "rgbled", "spiflash", "econet"}

VARIABLES
    ker,      \* fdtable: what is open; fd_list: the flash slots, 0 when free;
              \* flash_fd: the file system's descriptor; volume: FatFs[0]
    dhnd,     \* directory handles; "stale" when open on a volume that is gone
    running,
    trapped,  \* the program "ret" of the supervisor shell returns to
    own,      \* descriptors the program opened and did not close
    left,     \* descriptors of programs that are gone
    lost      \* consoles that were run as programs and cannot be closed

vars == <<ker, dhnd, running, trapped, own, left, lost>>

\* Types: fd_alloc and new_fd hand out only entries inside their tables.
DescTypeOK ==
    /\ ker \in [fdtable  : [Fd -> Devices \cup {"free", "file"}],
                fd_list  : [1 .. MAX_FLASH_FDS -> Fd],
                flash_fd : Fd \cup {-1},
                volume   : {"none", "registered", "mounted"}]
    /\ dhnd \in [1 .. MAX_DHND -> {"free", "open", "stale"}]
    /\ running \in {"init", "program", "supervisor"}
    /\ trapped \in {"none", "init", "program"}
    /\ own \subseteq Fd /\ left \subseteq Fd /\ lost \subseteq Fd

\* fd_init, spiflash_init, init_dirs, and elf_boot, which opens and closes the flash.
Init ==
    /\ ker = [fdtable  |-> [f \in Fd |-> IF f \in Stdio THEN "console" ELSE "free"],
              fd_list  |-> [i \in 1 .. MAX_FLASH_FDS |-> 0],
              flash_fd |-> -1,
              volume   |-> "none"]
    /\ dhnd = [d \in 1 .. MAX_DHND |-> "free"]
    /\ running \in {IF found THEN "init" ELSE "supervisor" : found \in BootImages}
    /\ trapped = "none" /\ own = {} /\ left = {} /\ lost = {}

-----------------------------------------------------------------------------
(* open and close *)

\* Mutant: fd_alloc looks one entry too far.
FreeToMax(k) == {f \in Fd : k.fdtable[f] = "free"} \cup {MAX_FILE_DESCRIPTORS}

FreeFds(k) == {f \in Fd : k.fdtable[f] = "free"}
FreeSlots(k) == {i \in DOMAIN k.fd_list : k.fd_list[i] = 0}

fd_alloc(k, what) == [k EXCEPT !.fdtable[Min(FreeFds(k))] = what]
fd_dealloc(k, f) == [k EXCEPT !.fdtable[f] = "free"]

\* new_fd
TakeSlot(k, f) == [k EXCEPT !.fd_list[Min(FreeSlots(k))] = f]

Failed(k) == [ker |-> k, fd |-> -1]

\* open_device_impl fails for the flash only, and the entry is given back; so it is
\* when there is no such device.
CanOpen(k, name) ==
    /\ FreeFds(k) # {} /\ name \in Devices
    /\ name = "spiflash" => FreeSlots(k) # {}

open_device(k, name) ==
    LET f == Min(FreeFds(k))
        a == fd_alloc(k, name)
    IN  IF ~CanOpen(k, name) THEN Failed(k)
        ELSE [ker |-> IF name = "spiflash" THEN TakeSlot(a, f) ELSE a, fd |-> f]

\* Mutant: the slot of the flash is not given back.
EntryOnly(k, f) == fd_dealloc(k, f)

\* spiflash_close and fd_dealloc.  The other devices keep nothing here.
CloseEntry(k, f) ==
    LET held == {i \in DOMAIN k.fd_list : k.fd_list[i] = f}
        slots == IF k.fdtable[f] = "spiflash" /\ held # {}
                 THEN [k.fd_list EXCEPT ![Min(held)] = 0] ELSE k.fd_list
    IN  fd_dealloc([k EXCEPT !.fd_list = slots], f)

\* Standard input and output stay, and the console has no fd_close at all.
Closable(k, f) == f \notin Stdio /\ k.fdtable[f] \notin {"free", "console"}

close(k, f) == IF Closable(k, f) THEN CloseEntry(k, f) ELSE k

-----------------------------------------------------------------------------
(* The volume *)

\* Mutant: the flash is opened for every mount.
InitAgain(k) ==
    LET o == open_device(k, "spiflash") IN [o.ker EXCEPT !.flash_fd = o.fd]

intflash_init(k) ==
    LET o == open_device(k, "spiflash")
    IN  IF k.flash_fd < 0 THEN [o.ker EXCEPT !.flash_fd = o.fd] ELSE k

\* Mutant: the number of the closed descriptor is kept.
ReleaseKeepsFd(k) == IF k.flash_fd > 0 THEN close(k, k.flash_fd) ELSE k

intflash_release(k) ==
    [IF k.flash_fd > 0 THEN close(k, k.flash_fd) ELSE k EXCEPT !.flash_fd = -1]

\* mount_volume of FatFs, with which every function on a path begins: what it may
\* leave, where there may be no file system on the flash.
mount_volume(k) ==
    LET i == intflash_init(k)
    IN  CASE k.volume # "registered" -> {k}
          [] k.volume = "registered" /\ i.flash_fd > 0 -> {i, [i EXCEPT !.volume = "mounted"]}
          [] OTHER -> {i}

Mounted(k) == {m \in mount_volume(k) : m.volume = "mounted"}

\* The entry is taken before f_open, and given back if that fails.
fileio_open(k) ==
    LET f == Min(FreeFds(k))
        a == fd_alloc(k, "file")
    IN  IF FreeFds(k) = {} THEN {Failed(k)}
        ELSE {[ker |-> m, fd |-> f] : m \in Mounted(a)}
             \cup {Failed(fd_dealloc(m, f)) : m \in mount_volume(a)}

open(k, name) == IF name = "file" THEN fileio_open(k) ELSE {open_device(k, name)}

-----------------------------------------------------------------------------
(* Programs *)

\* elf_load: the tables it leaves, whether there is a start address, and the
\* descriptor it opened if SYS_close refuses it.  Any name is opened.
elf_load(k, name, found) ==
    UNION {IF o.fd < 0 THEN {[ker |-> o.ker, start |-> FALSE, lost |-> {}]}
           ELSE {[ker |-> close(o.ker, o.fd), start |-> b,
                  lost |-> {f \in {o.fd} : ~Closable(o.ker, f)}] : b \in found} : o \in open(k, name)}

Names == Devices \cup {"file", "nodev"}

LoadInit == elf_load(ker, "spiflash", BootImages)
LoadProgram == UNION {elf_load(ker, name, BOOLEAN) : name \in Names}

InUser == running \in {"init", "program"}

\* The next program starts; nobody closes what the last one had open.
Start(next) ==
    /\ running' = next /\ trapped' = "none"
    /\ left' = left \cup own /\ own' = {}

SYS_exit ==
    /\ InUser
    /\ \E l \in LoadInit :
          ker' = l.ker /\ lost' = lost \cup l.lost /\ Start(IF l.start THEN "init" ELSE "supervisor")
    /\ UNCHANGED dhnd

\* The exec system call and the shell's "run": elf_run.
elf_run ==
    /\ \E l \in LoadProgram :
          /\ ker' = l.ker /\ lost' = lost \cup l.lost
          /\ IF l.start THEN Start("program") ELSE UNCHANGED <<running, trapped, own, left>>
    /\ UNCHANGED dhnd

\* ebreak_handler, illegal_handler, memaccess_handler
Trap ==
    /\ InUser
    /\ trapped' = running /\ running' = "supervisor"
    /\ UNCHANGED <<ker, dhnd, own, left, lost>>

\* "boot" and "ret" of the supervisor shell.
super_elf ==
    /\ running = "supervisor"
    /\ \E l \in LoadInit :
          /\ ker' = l.ker /\ lost' = lost \cup l.lost
          /\ IF l.start THEN Start("init") ELSE UNCHANGED <<running, trapped, own, left>>
    /\ UNCHANGED dhnd

ShellReturn ==
    /\ running = "supervisor" /\ trapped # "none"
    /\ running' = trapped /\ trapped' = "none"
    /\ UNCHANGED <<ker, dhnd, own, left, lost>>

-----------------------------------------------------------------------------
(* The other system calls of the running program *)

SYS_open(name) ==
    /\ InUser
    /\ \E o \in open(ker, name) :
          ker' = o.ker /\ own' = own \cup ({o.fd} \ {-1})
    /\ UNCHANGED <<dhnd, running, trapped, left, lost>>

SYS_close(f) ==
    /\ InUser
    /\ Careful => f \in own
    /\ ker' = close(ker, f)
    /\ own' = {g \in own : g # f \/ ~Closable(ker, f)}
    /\ left' = {g \in left : g # f \/ ~Closable(ker, f)}
    /\ UNCHANGED <<dhnd, running, trapped, lost>>

\* What was open on the volume is no longer valid.
Stale == [d \in DOMAIN dhnd |-> IF dhnd[d] = "open" THEN "stale" ELSE dhnd[d]]

\* f_mount with the option to mount at once.  There is one volume: "sd" and "flash"
\* are both mounted from the flash.
SYS_mount ==
    /\ InUser
    /\ ker' \in mount_volume([ker EXCEPT !.volume = "registered"])
    /\ dhnd' = Stale
    /\ UNCHANGED <<running, trapped, own, left, lost>>

\* Mutant: the volume stays registered.
KeepVolume(k) == k

f_unmount(k) == [k EXCEPT !.volume = "none"]

\* Other names of the volume than "0" leave the flash open.
SYS_umount(target) ==
    /\ InUser
    /\ ker' = IF target = "0" THEN intflash_release(f_unmount(ker)) ELSE f_unmount(ker)
    /\ dhnd' = Stale
    /\ UNCHANGED <<running, trapped, own, left, lost>>

SYS_opendir ==
    LET free == {d \in DOMAIN dhnd : dhnd[d] = "free"}
    IN  /\ InUser /\ free # {}
        /\ \/ ker' \in Mounted(ker) /\ dhnd' = [dhnd EXCEPT ![Min(free)] = "open"]
           \/ ker' \in mount_volume(ker) /\ UNCHANGED dhnd
        /\ UNCHANGED <<running, trapped, own, left, lost>>

\* f_closedir refuses a handle of a volume that is gone, and it stays open.
SYS_closedir(d) ==
    /\ InUser /\ dhnd[d] = "open"
    /\ dhnd' = [dhnd EXCEPT ![d] = "free"]
    /\ UNCHANGED <<ker, running, trapped, own, left, lost>>

\* SYS_unlink, SYS_mkdir, SYS_chdir, SYS_stat
PathCall ==
    /\ InUser /\ ker' \in mount_volume(ker)
    /\ UNCHANGED <<dhnd, running, trapped, own, left, lost>>

-----------------------------------------------------------------------------
Syscall ==
    \/ \E name \in Names : SYS_open(name)
    \/ \E f \in Fd : SYS_close(f)
    \/ SYS_mount
    \/ \E t \in {"0", "0:"} : SYS_umount(t)
    \/ SYS_opendir
    \/ \E d \in 1 .. MAX_DHND : SYS_closedir(d)
    \/ PathCall

Next == Syscall \/ SYS_exit \/ elf_run \/ Trap \/ super_elf \/ ShellReturn

Spec == Init /\ [][Next]_vars

-----------------------------------------------------------------------------
(* Properties. *)

\* The flash driver's slots and the descriptor table agree: every slot in use is
\* that of an open flash descriptor, and every flash descriptor has one slot.
SlotsMatch ==
    /\ \A i \in 1 .. MAX_FLASH_FDS :
          ker.fd_list[i] # 0 => ker.fdtable[ker.fd_list[i]] = "spiflash"
    /\ \A f \in Fd : ker.fdtable[f] = "spiflash" =>
          \E i \in 1 .. MAX_FLASH_FDS :
             ker.fd_list[i] = f /\ \A j \in 1 .. MAX_FLASH_FDS : ker.fd_list[j] = f => j = i

\* As long as programs close only their own descriptors, the file system reads and
\* writes the flash: its descriptor is open, is the flash and is nobody else's, and
\* a mounted volume has one.
VolumeHasFlash ==
    /\ ker.flash_fd > 0 => ker.fdtable[ker.flash_fd] = "spiflash"
                           /\ ker.flash_fd \notin own \cup left \cup lost
    /\ ker.volume = "mounted" => ker.flash_fd > 0

\* No call of the kernel leaks a descriptor, whether it fails, nests or loads a
\* program, but a console's that was run as a program: what is open is standard
\* input and output, the file system's, or was opened by a program.
Accounted ==
    /\ {f \in Fd : ker.fdtable[f] # "free"}
          = Stdio \cup own \cup left \cup lost \cup {f \in Fd : f = ker.flash_fd}
    /\ \A f \in lost : ker.fdtable[f] = "console"

\* A program keeps what it has open until it closes it, whatever is mounted,
\* unmounted, opened or fails to load meanwhile.
OwnKept ==
    [][\A f \in own \cap own' : ker'.fdtable[f] = ker.fdtable[f]]_vars

\* The kernel's tables agree with each other at the end of every call, also of those
\* that failed half way.
TablesAgree == DescTypeOK /\ SlotsMatch /\ VolumeHasFlash
=============================================================================
