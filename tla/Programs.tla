------------------------------ MODULE Programs ------------------------------
(***************************************************************************)
(* One user program at a time: how elfload.c puts its image, its arguments *)
(* and its stack into user memory, how brk.c, lib/sbrk.c and lib/malloc.c  *)
(* hand out what is left, and how exec, exit, the supervisor shell and a   *)
(* failed load pass from one program to the next.                          *)
(*                                                                         *)
(* A memory cell holds a number: 0 is a NUL byte, Blank a space, larger    *)
(* ones are letters, bytes of an image or addresses.  A pointer takes one  *)
(* cell, so that MAXARGS pointers and argc are a multiple of Align as they *)
(* are in the code (7 and 1 words, 16 bytes).                              *)
(***************************************************************************)
EXTENDS Ranks, Sequences, FiniteSetsExt, SequencesExt

CONSTANTS
    USRMEM_START, USER_SP,  \* user memory is USRMEM_START .. USER_SP - 1
    StackMargin,            \* what brk keeps free below the stack (1024)
    DefaultGap,             \* where malloc wants the break, below MEMTOP (2048)
    GP_SPACE,               \* what is kept free above the global pointer
    MAXARGS, Align,
    Files,                  \* function from file names to ELF images
    Flashes,                \* what the flash may hold in the place of init
    Lines,                  \* command lines programs and the operator give
    Warm, Cold,             \* the command lines "init warm" and "init cold"
    Depths,                 \* how far below its first value sp may be
    Increments,             \* arguments of sbrk
    MinPool,                \* what tlsf takes of a pool for itself
    MixHeaps,               \* may a program use sbrk and then malloc?
    MaxSteps                \* calls a program makes between two loads

Blank == 1
NULL == 0
Garbage == 9

Addresses == USRMEM_START .. USER_SP - 1

ASSUME LayoutAssumption ==
    /\ USRMEM_START \in Nat /\ USER_SP \in Nat /\ USER_SP > USRMEM_START
    /\ USRMEM_START > Garbage
    /\ Align \in Nat \ {0} /\ MAXARGS \in Nat /\ (MAXARGS + 1) % Align = 0
    /\ USER_SP % Align = 0
    /\ {StackMargin, DefaultGap, GP_SPACE, MinPool} \subseteq Nat

(* Program headers and files, as far as the loader looks at them: fields   *)
(* are unsigned, and have is how many bytes of a segment the file has.     *)
Headers == [load : BOOLEAN, paddr : Nat, filesz : Nat, memsz : Nat, have : Nat]
Images == [id : Nat, elf : BOOLEAN, phdr : Seq(Headers), entry : Nat, gp : Nat]

ASSUME InputAssumption ==
    /\ Flashes \subseteq Images /\ \A n \in DOMAIN Files : Files[n] \in Images
    /\ Lines \cup {Warm, Cold} \subseteq Seq(Nat)
    /\ Depths \subseteq Nat /\ Increments \subseteq Int

VARIABLES
    mem,            \* user memory
    image,          \* the image of the program in memory
    line,           \* the command line it was started with
    start,          \* the stack pointer it was started with
    sp,             \* its stack pointer now
    fresh,          \* it has made no call yet
    mode,           \* "reset", "user" or "shell"
    resumes,        \* the shell was entered by a trap and can return
    min_brk, program_brk,
    memptr,         \* lib/sbrk.c
    mempool,        \* lib/malloc.c
    granted,        \* addresses the two allocators gave the program
    twice,          \* some of them were already its own
    failed,         \* where the arguments begin of a run that just failed for its
                    \* file or its headers, or NULL
    steps

control == <<image, line, start, sp, fresh, mode, resumes>>
breaks == <<min_brk, program_brk>>
heap == <<memptr, mempool, granted, twice>>
vars == <<mem, control, breaks, heap, failed, steps>>

-----------------------------------------------------------------------------
(* Arguments *)

(* The string in memory m that begins at address a. *)
StringAt(m, a) ==
    LET end == Min({x \in a .. USER_SP - 1 : m[x] = NULL})
    IN  [k \in 1 .. end - a |-> m[a + k - 1]]

RoundUp(n) == IF n % Align = 0 THEN n ELSE n - (n % Align) + Align

(* One call of strtok_r at place s of a string with a blank as delimiter:  *)
(* the token, where the next call goes on, and the string with the token   *)
(* ended.  At NULL there is nothing to go on with.                         *)
strtok_r(str, s) ==
    LET tok == Min({x \in s .. Len(str) : x # NULL /\ str[x] # Blank})
        end == Min({x \in tok .. Len(str) : str[x] \in {NULL, Blank}})
    IN  IF s = NULL \/ str[tok] = NULL
        THEN [tok |-> NULL, last |-> NULL, str |-> str]
        ELSE [tok |-> tok, last |-> IF str[end] = NULL THEN NULL ELSE end + 1,
              str |-> ReplaceAt(str, end, NULL)]

(* The calls of strtok: one more than there are argument slots, because    *)
(* the loop calls it once more before it looks at argc.                    *)
Called(t) ==
    LET r == strtok_r(t.str, t.last)
    IN  [toks |-> Append(t.toks, r.tok), last |-> r.last, str |-> r.str]
Tokens(str) ==
    LET after[k \in 0 .. MAXARGS + 1] ==
            IF k = 0 THEN [toks |-> <<>>, last |-> 1, str |-> str] ELSE Called(after[k-1])
    IN  after[MAXARGS + 1]

Zeros(n) == [k \in 1 .. n |-> NULL]

(* The characters, the pointers below them and argc below those. *)
setup_stack_args(m, chars, top) ==
    LET argbytes == RoundUp(Len(chars) + 1)
        base == top - argbytes
        t == Tokens(chars \o Zeros(argbytes - Len(chars)))
        args == [k \in 1 .. MAXARGS |-> IF t.toks[k] = NULL THEN NULL ELSE base + t.toks[k] - 1]
        argc == Cardinality({k \in 1 .. MAXARGS : t.toks[k] # NULL})
        stack == <<argc>> \o args \o t.str
        stackptr == base - MAXARGS - 1
    IN  [mem |-> [a \in Addresses |-> IF a \in stackptr .. top - 1
                                      THEN stack[a - stackptr + 1] ELSE m[a]],
         sp |-> stackptr, filename |-> base]

-----------------------------------------------------------------------------
(* Loading *)

elf_read_ehdr(img) == img.elf
elf_validate_phdr(img) ==
    \A i \in DOMAIN img.phdr : img.phdr[i].load => img.phdr[i].paddr >= USRMEM_START

(* Byte j of segment i in the file. *)
Byte(img, i, j) == img.id * 1000 + i * 100 + j

(* What SYS_read stores of segment i: a short file gives fewer bytes, and  *)
(* nobody looks.                                                           *)
Loaded(m, img, i) ==
    LET p == img.phdr[i]
    IN  [a \in Addresses |-> IF a \in p.paddr .. p.paddr + Min({p.filesz, p.have}) - 1
                             THEN Byte(img, i, a - p.paddr) ELSE m[a]]

Segments(m, img) ==
    LET after[k \in 0 .. Len(img.phdr)] ==
            IF k = 0 THEN m
            ELSE IF img.phdr[k].load THEN Loaded(after[k-1], img, k) ELSE after[k-1]
    IN  after[Len(img.phdr)]

Cleared(m, top) == [a \in Addresses |-> IF a < top THEN 0 ELSE m[a]]

(* Mutants: memory that is not cleared, and memory cleared up to its end.  *)
NoClear(m, img, stack) == Segments(m, img)
ClearAll(m, img, stack) == Segments(Cleared(m, USER_SP), img)

(* The second half of elf_load_fd: clear memory below the stack, read the  *)
(* segments in the order of their headers.                                 *)
LoadSegments(m, img, stack) == Segments(Cleared(m, stack), img)

(* Mutant: memory is cleared before the program headers are validated.     *)
ClearFirst(m, img, stack) ==
    IF elf_read_ehdr(img)
    THEN IF elf_validate_phdr(img)
         THEN [ok |-> img.entry # 0, mem |-> LoadSegments(m, img, stack)]
         ELSE [ok |-> FALSE, mem |-> Cleared(m, stack)]
    ELSE [ok |-> FALSE, mem |-> m]

(* Nothing is changed unless both headers are valid.  The result is the    *)
(* entry address, which the callers take for a failure when it is 0.       *)
elf_load_fd(m, img, stack) ==
    IF elf_read_ehdr(img) /\ elf_validate_phdr(img)
    THEN [ok |-> img.entry # 0, mem |-> LoadSegments(m, img, stack)]
    ELSE [ok |-> FALSE, mem |-> m]

NoProgram == [id |-> 0, elf |-> FALSE, phdr |-> <<>>, entry |-> 0, gp |-> 0]

(* A file that cannot be opened is loaded as little as one that is no ELF. *)
File(name) == IF name \in DOMAIN Files THEN Files[name] ELSE NoProgram
elf_load(m, name, stack) == elf_load_fd(m, File(name), stack)

(* Mutant: the break behind what is in the file, not behind the bss.       *)
BreakAtFile(img) ==
    LET loads == {i \in DOMAIN img.phdr : img.phdr[i].load}
    IN  IF loads = {} THEN min_brk
        ELSE img.phdr[Max(loads)].paddr + img.phdr[Max(loads)].filesz

(* set_min_brk, called for every segment: the last one stays. *)
set_min_brk(img) ==
    LET loads == {i \in DOMAIN img.phdr : img.phdr[i].load}
    IN  IF loads = {} THEN min_brk
        ELSE img.phdr[Max(loads)].paddr + img.phdr[Max(loads)].memsz

(* What is in memory after a load that went through: nothing is allocated  *)
(* (memptr and mempool are in the bss, which was cleared).                 *)
Replaces(img) ==
    /\ image' = img
    /\ min_brk' = set_min_brk(img) /\ program_brk' = set_min_brk(img)
    /\ memptr' = NULL /\ mempool' = NULL /\ granted' = {} /\ twice' = FALSE

(* init_user and init_user_with_sp. *)
Starts(img, chars, m, stack) ==
    /\ mem' = m /\ line' = chars
    /\ start' = stack /\ sp' = stack /\ fresh' = TRUE /\ mode' = "user"
    /\ resumes' = FALSE
    /\ Replaces(img)
    /\ failed' = NULL /\ steps' = 0

(* A load that failed: a program without a start address is in memory all  *)
(* the same, and whoever asked for it goes on there with its own registers.*)
Fails(img) ==
    \/ elf_read_ehdr(img) /\ elf_validate_phdr(img) /\ Replaces([img EXCEPT !.gp = image.gp])
    \/ /\ ~(elf_read_ehdr(img) /\ elf_validate_phdr(img))
       /\ UNCHANGED <<image, breaks, heap>>

FailedAt(img, stack) ==
    failed' = IF elf_read_ehdr(img) /\ elf_validate_phdr(img) THEN NULL ELSE stack

Init ==
    /\ mem = [a \in Addresses |-> Garbage]
    /\ image = NoProgram /\ line = <<>> /\ start = USER_SP /\ sp = USER_SP
    /\ fresh = FALSE /\ mode = "reset" /\ resumes = FALSE
    /\ min_brk = USRMEM_START /\ program_brk = USRMEM_START
    /\ memptr = NULL /\ mempool = NULL /\ granted = {} /\ twice = FALSE
    /\ failed = NULL /\ steps = 0

Bounded == steps < MaxSteps /\ steps' = steps + 1

ToShell(m, img) ==
    /\ mode' = "shell" /\ mem' = m /\ fresh' = FALSE
    /\ resumes' = (mode = "shell" /\ resumes)
    /\ Fails(img)
    /\ UNCHANGED <<line, start, sp>>

(* Reset: init is loaded with the whole of user memory below the stack     *)
(* pointer, its arguments are set up after that.                           *)
elf_boot ==
    /\ mode = "reset"
    /\ \E flash \in Flashes :
         LET l == elf_load_fd(mem, flash, USER_SP)
             args == setup_stack_args(l.mem, Cold, USER_SP)
         IN  \/ l.ok /\ Starts(flash, Cold, args.mem, args.sp)
             \/ /\ ~l.ok /\ ToShell(l.mem, flash)
                /\ UNCHANGED <<failed, steps>>

(* exit, and the shell's boot: the arguments go to the top of user memory  *)
(* before the load, which fails when the flash cannot be opened or holds   *)
(* no program.                                                             *)
LoadInit ==
    LET args == setup_stack_args(mem, Warm, USER_SP)
    IN  \E flash \in Flashes \cup {NoProgram} :
           LET l == elf_load_fd(args.mem, flash, args.sp)
           IN  \/ l.ok /\ Starts(flash, Warm, l.mem, args.sp)
               \/ ~l.ok /\ ToShell(l.mem, flash) /\ FailedAt(flash, args.sp) /\ Bounded

SYS_exit == mode = "user" /\ LoadInit
super_boot == mode = "shell" /\ LoadInit

(* A run by a program or from the shell.  The line is copied first, so     *)
(* that it can be read while the old stack is overwritten; without kernel  *)
(* memory for the copy nothing happens.  The file is named by what is at   *)
(* the start of the new line.  The shell passes one word.                  *)
elf_run(chars) ==
    LET args == setup_stack_args(mem, chars, USER_SP)
        name == StringAt(args.mem, args.filename)
        l == elf_load(args.mem, name, args.sp)
    IN  /\ \/ mode = "user"
           \/ mode = "shell" /\ \A k \in DOMAIN chars : chars[k] # Blank
        /\ \/ /\ l.ok
              /\ Starts(File(name), chars, l.mem, args.sp)
           \/ /\ ~l.ok
              /\ mem' = l.mem /\ Fails(File(name))
              /\ fresh' = FALSE /\ FailedAt(File(name), args.sp) /\ Bounded
              /\ UNCHANGED <<line, start, sp, mode, resumes>>

(* A trap enters the shell, whose "ret" goes on with the program. *)
Trap ==
    /\ mode = "user" /\ mode' = "shell" /\ resumes' = TRUE /\ fresh' = FALSE
    /\ failed' = NULL /\ Bounded
    /\ UNCHANGED <<mem, image, line, start, sp, breaks, heap>>

ShellReturn ==
    /\ mode = "shell" /\ resumes /\ mode' = "user" /\ resumes' = FALSE
    /\ failed' = NULL
    /\ UNCHANGED <<mem, image, line, start, sp, fresh, breaks, heap, steps>>

-----------------------------------------------------------------------------
(* The heap *)

(* The program calls and returns. *)
MoveStack(d) ==
    /\ mode = "user" /\ sp' = start - d /\ sp' # sp /\ fresh' = FALSE
    /\ failed' = NULL /\ Bounded
    /\ UNCHANGED <<mem, image, line, start, mode, resumes, breaks, heap>>

Raise(b, floor) == IF b < floor THEN floor ELSE b

(* SYS_brk: its result is the break after the call. *)
SYS_brk(addr, brk) ==
    LET min == Raise(brk.min, image.gp + GP_SPACE)
        cur == Raise(brk.cur, min)
    IN  [min |-> min, cur |-> IF addr > sp - StackMargin \/ addr < min THEN cur ELSE addr]

Brk == [min |-> min_brk, cur |-> program_brk]

Grant(lo, hi) ==
    /\ granted' = granted \cup (lo .. hi - 1)
    /\ twice' = (twice \/ granted \cap (lo .. hi - 1) # {})

(* lib/sbrk.c: a break that stays where memptr is counts as a refusal, any *)
(* other answer as memory.                                                 *)
sbrk(incr) ==
    LET first == IF memptr = NULL THEN SYS_brk(0, Brk) ELSE Brk
        at == IF memptr = NULL THEN first.cur ELSE memptr
        asked == SYS_brk(at + incr, first)
    IN  /\ mode = "user" /\ fresh' = FALSE
        /\ min_brk' = asked.min /\ program_brk' = asked.cur
        /\ memptr' = asked.cur
        /\ \/ incr > 0 /\ asked.cur # at /\ Grant(at, at + incr)
           \/ /\ incr < 0 \/ asked.cur = at
              /\ granted' = {a \in granted : a < asked.cur \/ a >= at}
              /\ UNCHANGED twice
        /\ failed' = NULL /\ Bounded
        /\ UNCHANGED <<mem, image, line, start, sp, mode, resumes, mempool>>

(* lib/malloc.c, the first allocation: all up to the default break becomes *)
(* the pool of the allocator, or there is none: the break is where it was, *)
(* or sys_malloc_init finds the pool too small.                            *)
setup_malloc ==
    LET first == SYS_brk(0, Brk)
        asked == SYS_brk(USER_SP - DefaultGap, first)
        pool == asked.cur > first.cur /\ asked.cur - first.cur >= MinPool
    IN  /\ mode = "user" /\ mempool = NULL /\ fresh' = FALSE
        /\ MixHeaps \/ memptr = NULL
        /\ min_brk' = asked.min /\ program_brk' = asked.cur
        /\ \/ pool /\ mempool' = first.cur /\ Grant(first.cur, asked.cur)
           \/ ~pool /\ UNCHANGED <<mempool, granted, twice>>
        /\ failed' = NULL /\ Bounded
        /\ UNCHANGED <<mem, image, line, start, sp, mode, resumes, memptr>>

Next ==
    \/ elf_boot \/ SYS_exit \/ super_boot \/ Trap \/ ShellReturn \/ setup_malloc
    \/ \E l \in Lines : elf_run(l)
    \/ \E d \in Depths : MoveStack(d)
    \/ \E i \in Increments : sbrk(i)

Spec == Init /\ [][Next]_vars

-----------------------------------------------------------------------------
(* Properties *)

(* The fields of a line, by the places where a letter follows a blank.     *)
Begins(chars) == {i \in DOMAIN chars : chars[i] # Blank /\ (i = 1 \/ chars[i-1] = Blank)}
Stops(chars, i) == Min({j \in i .. Len(chars) : j = Len(chars) \/ chars[j+1] = Blank})
Fields(chars) ==
    [k \in 1 .. Cardinality(Begins(chars)) |->
        LET i == Nth(Begins(chars), k) IN SubSeq(chars, i, Stops(chars, i))]

(* Command lines are C strings, for which there is room below USER_SP (in  *)
(* the code they are also shorter than 64 K, what argbytes can count).     *)
Strings == Seq(Nat \ {NULL})
Base(chars) == USER_SP - RoundUp(Len(chars) + 1)
StackPtr(chars) == Base(chars) - MAXARGS - 1
Fits(chars) == chars \in Strings /\ StackPtr(chars) >= USRMEM_START
LinesFit == \A chars \in Lines \cup {Warm, Cold} : Fits(chars)

Loads(img) == {i \in DOMAIN img.phdr : img.phdr[i].load}
Extent(p) == p.paddr .. p.paddr + p.memsz - 1

(* Images a linker makes: segments that ascend without overlapping, below  *)
(* the stack the program gets, in a file that is complete.                 *)
Proper(img, stack) ==
    /\ \A i \in Loads(img) : /\ img.phdr[i].paddr + img.phdr[i].memsz <= stack
                             /\ img.phdr[i].have >= img.phdr[i].filesz
                             /\ img.phdr[i].filesz <= img.phdr[i].memsz
    /\ \A i, j \in Loads(img) :
           i < j => img.phdr[i].paddr + img.phdr[i].memsz <= img.phdr[j].paddr

(* A program that starts finds argc and, through its argument pointers,    *)
(* the first MAXARGS fields of its line, and an aligned stack: the load    *)
(* between setup_stack_args and the start has left them alone.             *)
ArgsDelivered ==
    fresh /\ Proper(image, start) =>
        LET n == Min({Len(Fields(line)), MAXARGS})
        IN  /\ start % Align = 0
            /\ mem[start] = n
            /\ \A k \in 1 .. n : StringAt(mem, mem[start + k]) = Fields(line)[k]
            /\ \A k \in n + 1 .. MAXARGS : mem[start + k] = NULL

(* A program that starts finds every segment as in its file, its bss and   *)
(* all the rest of memory below its stack zero, whatever ran before it.    *)
ImageLoaded ==
    fresh /\ Proper(image, start) =>
        \A a \in USRMEM_START .. start - 1 :
            mem[a] = IF \E i \in Loads(image) : a \in image.phdr[i].paddr ..
                            image.phdr[i].paddr + image.phdr[i].filesz - 1
                     THEN LET i == CHOOSE i \in Loads(image) : a \in Extent(image.phdr[i])
                          IN  Byte(image, i, a - image.phdr[i].paddr)
                     ELSE 0

(* A program starts as its file and its command line say. *)
StartsAsAsked == ArgsDelivered /\ ImageLoaded

(* What the allocators give a program is no part of its image, is below    *)
(* the break and is not given out twice.                                   *)
HeapOwned ==
    mode = "user" /\ Proper(image, start) =>
        /\ ~twice
        /\ \A a \in granted : /\ a < program_brk
                              /\ \A i \in Loads(image) : a \notin Extent(image.phdr[i])
        /\ program_brk >= min_brk

(* A run that fails, for want of the file or for its headers, changes      *)
(* nothing below the arguments it had set up: the program that called it   *)
(* has its image, heap and most of its stack.  (Not so a run that is given *)
(* up for a start address of 0, after memory was cleared: see Fails.)      *)
FailedRunSpares ==
    [][failed' # NULL => /\ \A a \in Addresses : a < failed' => mem'[a] = mem[a]
                         /\ UNCHANGED <<breaks, heap>>]_vars
=============================================================================
