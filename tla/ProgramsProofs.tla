--------------------------- MODULE ProgramsProofs ---------------------------
(***************************************************************************)
(* Theorems about loading programs, their arguments and their heap, for    *)
(* every size of user memory, all files and all command lines.             *)
(***************************************************************************)
EXTENDS Programs, OrderProofs, SequenceTheorems

-----------------------------------------------------------------------------
(* The inductive invariant of the heap *)

HeapTypes ==
    /\ image \in Images
    /\ start \in Int /\ sp \in Int
    /\ min_brk \in Nat \ {0} /\ program_brk \in Nat
    /\ memptr \in Int /\ granted \in SUBSET Int

(* The break never falls behind the program's segments. *)
Behind ==
    Proper(image, start) =>
        \A i \in Loads(image) : image.phdr[i].paddr + image.phdr[i].memsz <= min_brk

(* What was granted lies between them and the break. *)
Between ==
    /\ min_brk <= program_brk
    /\ \A a \in granted : a < program_brk
    /\ Proper(image, start) =>
        \A a \in granted : \A i \in Loads(image) :
            image.phdr[i].paddr + image.phdr[i].memsz <= a
    /\ ~twice

(* The library's idea of the break is the kernel's. *)
SameBreak == memptr # NULL => memptr = program_brk /\ min_brk >= image.gp + GP_SPACE

(* A first allocation, which may lower the break, finds nothing granted. *)
NothingYet == memptr = NULL /\ mempool = NULL => granted = {}

HeapInv == HeapTypes /\ Behind /\ Between /\ SameBreak /\ NothingYet

-----------------------------------------------------------------------------
(* The operators *)

\* Where setup_stack_args leaves the stack pointer, and that it writes
\* nothing below it.
LEMMA ArgsAbove ==
    ASSUME NEW m, NEW chars \in Seq(Nat)
    PROVE  /\ setup_stack_args(m, chars, USER_SP).sp \in Int
           /\ \A a \in Addresses : a < setup_stack_args(m, chars, USER_SP).sp =>
                  setup_stack_args(m, chars, USER_SP).mem[a] = m[a]
<1> DEFINE argbytes == RoundUp(Len(chars) + 1)
           stackptr == USER_SP - argbytes - MAXARGS - 1
<1>1. argbytes \in Int /\ MAXARGS \in Int /\ USER_SP \in Int /\ USRMEM_START \in Int
  BY LayoutAssumption DEF RoundUp
<1> HIDE DEF argbytes
<1>2. PICK f : setup_stack_args(m, chars, USER_SP)
               = [mem |-> [a \in Addresses |-> IF a \in stackptr .. USER_SP - 1
                                               THEN f[a - stackptr + 1] ELSE m[a]],
                  sp |-> stackptr, filename |-> USER_SP - argbytes]
  BY DEF setup_stack_args, argbytes
<1>3. stackptr \in Int /\ \A a \in Addresses : a \in Int
  BY <1>1 DEF Addresses
<1> HIDE DEF stackptr
<1>4. \A a \in Addresses : a < stackptr => a \notin stackptr .. USER_SP - 1
  BY <1>1, <1>3
<1> QED
  BY <1>2, <1>3, <1>4

\* A load that fails for the headers leaves memory alone.
LEMMA FailedLoad ==
    ASSUME NEW m, NEW img, NEW stack, ~(elf_read_ehdr(img) /\ elf_validate_phdr(img))
    PROVE  elf_load_fd(m, img, stack).mem = m
BY DEF elf_load_fd

\* The break is set behind every segment of a proper program.
LEMMA BreakBehind ==
    ASSUME NEW img \in Images, NEW stack, Proper(img, stack), min_brk \in Nat
    PROVE  \A i \in Loads(img) : img.phdr[i].paddr + img.phdr[i].memsz <= set_min_brk(img)
<1>1. img.phdr \in Seq(Headers) /\ Len(img.phdr) \in Nat /\ DOMAIN img.phdr = 1 .. Len(img.phdr)
  BY DEF Images
<1>2. Loads(img) \in SUBSET (1 .. Len(img.phdr))
  BY <1>1 DEF Loads
<1> SUFFICES ASSUME NEW i \in Loads(img)
             PROVE  img.phdr[i].paddr + img.phdr[i].memsz <= set_min_brk(img)
  OBVIOUS
<1> DEFINE j == Max(Loads(img))
<1>3. j \in Loads(img) /\ i <= j
  BY <1>1, <1>2, MaxIn
<1>4. set_min_brk(img) = img.phdr[j].paddr + img.phdr[j].memsz
  BY DEF set_min_brk, Loads
<1> HIDE DEF j
<1>5. /\ i \in 1 .. Len(img.phdr) /\ j \in 1 .. Len(img.phdr)
      /\ img.phdr[i] \in Headers /\ img.phdr[j] \in Headers
  BY <1>1, <1>2, <1>3
<1>6. /\ img.phdr[i].paddr \in Nat /\ img.phdr[i].memsz \in Nat
      /\ img.phdr[j].paddr \in Nat /\ img.phdr[j].memsz \in Nat
  BY <1>5 DEF Headers
<1>7. CASE i = j
  BY <1>4, <1>6, <1>7
<1>8. CASE i < j
  BY <1>3, <1>4, <1>6, <1>8 DEF Proper
<1> QED
  BY <1>3, <1>5, <1>7, <1>8

\* It is never at address 0, because user memory is not.
LEMMA BreakTypes ==
    ASSUME NEW img \in Images, elf_validate_phdr(img), min_brk \in Nat \ {0}
    PROVE  set_min_brk(img) \in Nat \ {0}
<1>1. img.phdr \in Seq(Headers) /\ Len(img.phdr) \in Nat /\ DOMAIN img.phdr = 1 .. Len(img.phdr)
  BY DEF Images
<1> DEFINE L == Loads(img)
<1>2. L \in SUBSET (1 .. Len(img.phdr))
  BY <1>1 DEF Loads
<1>3. set_min_brk(img) = IF L = {} THEN min_brk ELSE img.phdr[Max(L)].paddr + img.phdr[Max(L)].memsz
  BY DEF set_min_brk, Loads
<1> HIDE DEF L
<1>4. CASE L = {}
  BY <1>3, <1>4
<1>5. CASE L # {}
  <2>1. Max(L) \in L
    BY <1>1, <1>2, <1>5, MaxIn
  <2>2. img.phdr[Max(L)] \in Headers
    <3>1. Max(L) \in 1 .. Len(img.phdr)
      BY <1>2, <2>1
    <3> QED
      BY <1>1, <3>1
  <2>3. img.phdr[Max(L)].paddr >= USRMEM_START
    <3>1. \A j \in L : img.phdr[j].paddr >= USRMEM_START
      BY DEF elf_validate_phdr, L, Loads
    <3> QED
      BY <2>1, <3>1
  <2>4. USRMEM_START \in Nat /\ USRMEM_START > 9
    BY LayoutAssumption DEF Garbage
  <2>5. img.phdr[Max(L)].paddr \in Nat /\ img.phdr[Max(L)].memsz \in Nat
    BY <2>2 DEF Headers
  <2> QED
    BY <1>3, <1>5, <2>3, <2>4, <2>5
<1> QED
  BY <1>4, <1>5

-----------------------------------------------------------------------------
(* The heap *)

\* A program that starts has nothing allocated and its break behind its image.
LEMMA StartsHeap ==
    ASSUME HeapInv, NEW img \in Images, NEW chars, NEW m, NEW stack \in Int,
           elf_validate_phdr(img), Starts(img, chars, m, stack)
    PROVE  HeapInv'
<1>1. min_brk \in Nat \ {0}
  BY DEF HeapInv, HeapTypes
<1>2. set_min_brk(img) \in Nat \ {0}
  BY <1>1, BreakTypes
<1>3. Proper(img, stack) =>
        \A i \in Loads(img) : img.phdr[i].paddr + img.phdr[i].memsz <= set_min_brk(img)
  BY <1>1, BreakBehind
<1>4. /\ image' = img /\ start' = stack /\ sp' = stack
      /\ min_brk' = set_min_brk(img) /\ program_brk' = set_min_brk(img)
      /\ memptr' = NULL /\ granted' = {} /\ twice' = FALSE
  BY DEF Starts, Replaces
<1>5. HeapTypes'
  BY <1>2, <1>4 DEF HeapTypes, NULL
<1>6. Behind'
  BY <1>3, <1>4 DEF Behind
<1>7. Between' /\ SameBreak' /\ NothingYet'
  BY <1>2, <1>4 DEF Between, SameBreak, NothingYet
<1> QED
  BY <1>5, <1>6, <1>7 DEF HeapInv

\* Nothing else touches image, breaks or heap but sbrk and malloc.
LEMMA OthersHeap ==
    ASSUME HeapInv, sp' \in Int, UNCHANGED <<image, start, breaks, heap>>
    PROVE  HeapInv'
BY DEF HeapInv, HeapTypes, Behind, Between, SameBreak, NothingYet, breaks, heap

\* Nor has one that finds another image in its place.
LEMMA ReplacesHeap ==
    ASSUME HeapInv, NEW img \in Images, elf_validate_phdr(img), Replaces(img),
           start' \in Int, sp' \in Int
    PROVE  HeapInv'
<1>1. min_brk \in Nat \ {0}
  BY DEF HeapInv, HeapTypes
<1>2. set_min_brk(img) \in Nat \ {0}
  BY <1>1, BreakTypes
<1>3. /\ image' = img
      /\ min_brk' = set_min_brk(img) /\ program_brk' = set_min_brk(img)
      /\ memptr' = NULL /\ granted' = {} /\ twice' = FALSE
  BY DEF Replaces
<1>4. Proper(img, start') =>
        \A i \in Loads(img) : img.phdr[i].paddr + img.phdr[i].memsz <= set_min_brk(img)
  BY <1>1, BreakBehind
<1>5. HeapTypes'
  BY <1>2, <1>3 DEF HeapTypes, NULL
<1>6. Behind'
  BY <1>3, <1>4 DEF Behind
<1>7. Between' /\ SameBreak' /\ NothingYet'
  BY <1>2, <1>3 DEF Between, SameBreak, NothingYet
<1> QED
  BY <1>5, <1>6, <1>7 DEF HeapInv

LEMMA FailsHeap ==
    ASSUME HeapInv, NEW img \in Images, Fails(img), UNCHANGED <<start, sp>>
    PROVE  HeapInv'
<1>0. image \in Images /\ start' \in Int /\ sp' \in Int
  BY DEF HeapInv, HeapTypes
<1>1. CASE UNCHANGED <<image, breaks, heap>>
  BY <1>0, <1>1, OthersHeap
<1>2. CASE elf_validate_phdr(img) /\ Replaces([img EXCEPT !.gp = image.gp])
  <2> DEFINE new == [img EXCEPT !.gp = image.gp]
  <2>1. new \in Images /\ new.phdr = img.phdr
    BY <1>0 DEF Images
  <2>2. elf_validate_phdr(new)
    BY <1>2, <2>1 DEF elf_validate_phdr
  <2> HIDE DEF new
  <2>3. Replaces(new)
    BY <1>2 DEF new
  <2> QED
    BY <1>0, <2>1, <2>2, <2>3, ReplacesHeap
<1> QED
  BY <1>1, <1>2 DEF Fails

LEMMA NoProgramIs == NoProgram \in Images /\ Loads(NoProgram) = {} /\ ~elf_read_ehdr(NoProgram)
BY DEF NoProgram, Images, Loads, Headers, elf_read_ehdr

LEMMA FilesAre == ASSUME NEW name PROVE File(name) \in Images
BY InputAssumption, NoProgramIs DEF File

\* What SYS_brk answers: the break stays or becomes what was asked for, and is
\* never below the minimum, which only grows.
LEMMA BrkAnswers ==
    ASSUME image \in Images, sp \in Int, NEW addr \in Int, NEW lo \in Nat, NEW cu \in Nat, lo <= cu
    PROVE  LET r == SYS_brk(addr, [min |-> lo, cur |-> cu])
           IN  /\ r = [min |-> r.min, cur |-> r.cur]
               /\ r.min \in Nat /\ r.cur \in Nat /\ r.min <= r.cur /\ lo <= r.min
               /\ r.min >= image.gp + GP_SPACE
               /\ r.cur = addr \/ r.cur >= cu
               /\ r.cur = addr \/ lo < image.gp + GP_SPACE \/ r.cur = cu
               /\ r.min = lo \/ lo < image.gp + GP_SPACE
<1> DEFINE k == [min |-> lo, cur |-> cu]
           r == SYS_brk(addr, k)
           floor == image.gp + GP_SPACE
           min == Raise(lo, floor)
           cur == Raise(cu, min)
<1>1. floor \in Nat /\ StackMargin \in Nat
  BY LayoutAssumption DEF Images
<1>2. r = [min |-> min, cur |-> IF addr > sp - StackMargin \/ addr < min THEN cur ELSE addr]
  BY DEF SYS_brk
<1> HIDE DEF floor, r
<1>3. /\ min \in Nat /\ cur \in Nat /\ min <= cur /\ lo <= min /\ min >= floor /\ cur >= cu
      /\ lo >= floor => cur = cu /\ min = lo
  BY <1>1 DEF Raise
<1> HIDE DEF min, cur
<1>4. r.min = min /\ r.cur = IF addr > sp - StackMargin \/ addr < min THEN cur ELSE addr
  BY <1>2
<1>5. r.cur \in {cur, addr} /\ min <= r.cur /\ r.cur \in Nat
  BY <1>1, <1>3, <1>4
<1>6. r = [min |-> r.min, cur |-> r.cur]
  BY <1>2
<1> QED
  BY <1>1, <1>3, <1>4, <1>5, <1>6 DEF r, floor

\* The first call of either allocator asks where the break is: 0 is below every
\* minimum.
LEMMA FirstAsk ==
    ASSUME HeapInv
    PROVE  LET r == SYS_brk(0, Brk)
           IN  /\ r = [min |-> r.min, cur |-> r.cur]
               /\ r.min \in Nat \ {0} /\ r.cur \in Nat /\ r.min <= r.cur
               /\ min_brk <= r.min /\ r.min >= image.gp + GP_SPACE /\ program_brk <= r.cur
<1> DEFINE r == SYS_brk(0, [min |-> min_brk, cur |-> program_brk])
<1>1. /\ image \in Images /\ sp \in Int /\ min_brk \in Nat \ {0} /\ program_brk \in Nat
      /\ min_brk <= program_brk /\ 0 \in Int
  BY DEF HeapInv, HeapTypes, Between
<1>2. /\ r = [min |-> r.min, cur |-> r.cur]
      /\ r.min \in Nat /\ r.cur \in Nat /\ r.min <= r.cur /\ min_brk <= r.min
      /\ r.min >= image.gp + GP_SPACE
      /\ r.cur = 0 \/ r.cur >= program_brk
  <2> HIDE DEF r
  <2> QED
    BY <1>1, BrkAnswers DEF r
<1>3. r = SYS_brk(0, Brk)
  BY DEF Brk
<1> HIDE DEF r
<1>4. r.min \in Nat \ {0} /\ program_brk <= r.cur
  BY <1>1, <1>2
<1> QED
  BY <1>2, <1>3, <1>4

\* A break that rises and memory granted between the old and the new one.
LEMMA GrantKeeps ==
    ASSUME HeapInv, NEW lo \in Nat, NEW hi \in Int, Grant(lo, hi), program_brk <= lo,
           UNCHANGED <<image, start, sp>>, memptr' \in Int,
           min_brk' \in Nat \ {0}, program_brk' = hi, min_brk <= min_brk', min_brk' <= lo, lo <= hi
    PROVE  HeapTypes' /\ Behind' /\ Between'
<1> DEFINE End(i) == image.phdr[i].paddr + image.phdr[i].memsz
<1>1. /\ granted' = granted \cup (lo .. hi - 1)
      /\ twice' = (twice \/ granted \cap (lo .. hi - 1) # {})
  BY DEF Grant
<1>2. /\ image \in Images /\ start \in Int /\ sp \in Int /\ min_brk \in Nat \ {0} /\ program_brk \in Nat
      /\ granted \in SUBSET Int /\ \A a \in granted : a < program_brk
  BY DEF HeapInv, HeapTypes, Between
<1>3. Proper(image, start) => \A i \in Loads(image) : End(i) <= min_brk /\ \A a \in granted : End(i) <= a
  BY DEF HeapInv, Behind, Between
<1>4. \A i \in Loads(image) : End(i) \in Nat
  <2>1. \A i \in DOMAIN image.phdr : image.phdr[i] \in Headers
    BY <1>2 DEF Images
  <2> QED
    BY <2>1 DEF Loads, Headers
<1> HIDE DEF End
<1>5. granted' \in SUBSET Int /\ \A a \in granted' : a < program_brk'
  BY <1>1, <1>2
<1>6. twice' = FALSE
  <2>1. granted \cap (lo .. hi - 1) = {}
    BY <1>2
  <2>2. ~twice
    BY DEF HeapInv, Between
  <2> QED
    BY <1>1, <2>1, <2>2
<1>7. Proper(image, start) =>
        \A i \in Loads(image) : End(i) <= min_brk' /\ \A a \in granted' : End(i) <= a
  <2> SUFFICES ASSUME Proper(image, start), NEW i \in Loads(image)
               PROVE  End(i) <= min_brk' /\ \A a \in granted' : End(i) <= a
    OBVIOUS
  <2> QED
    BY <1>1, <1>2, <1>3, <1>4
<1>8. HeapTypes'
  BY <1>2, <1>5 DEF HeapTypes
<1>9. Behind'
  BY <1>7 DEF Behind, End
<1>10. Between'
  BY <1>5, <1>6, <1>7 DEF Between, End
<1> QED
  BY <1>8, <1>9, <1>10

\* A break that falls or stays, and nothing but memory above it given back.
LEMMA ReleaseKeeps ==
    ASSUME HeapInv, granted' \in SUBSET granted, twice' = twice,
           UNCHANGED <<image, start, sp>>, memptr' \in Int,
           min_brk' \in Nat \ {0}, program_brk' \in Nat, min_brk <= min_brk', min_brk' <= program_brk',
           \A a \in granted' : a < program_brk'
    PROVE  HeapTypes' /\ Behind' /\ Between'
<1> DEFINE End(i) == image.phdr[i].paddr + image.phdr[i].memsz
<1>1. /\ image \in Images /\ start \in Int /\ sp \in Int /\ min_brk \in Nat \ {0}
      /\ granted \in SUBSET Int /\ ~twice
  BY DEF HeapInv, HeapTypes, Between
<1>2. Proper(image, start) => \A i \in Loads(image) : End(i) <= min_brk /\ \A a \in granted : End(i) <= a
  BY DEF HeapInv, Behind, Between
<1>3. \A i \in Loads(image) : End(i) \in Nat
  <2>1. \A i \in DOMAIN image.phdr : image.phdr[i] \in Headers
    BY <1>1 DEF Images
  <2> QED
    BY <2>1 DEF Loads, Headers
<1> HIDE DEF End
<1>4. Proper(image, start) =>
        \A i \in Loads(image) : End(i) <= min_brk' /\ \A a \in granted' : End(i) <= a
  BY <1>1, <1>2, <1>3
<1>5. HeapTypes'
  BY <1>1 DEF HeapTypes
<1>6. Behind'
  BY <1>4 DEF Behind, End
<1>7. Between'
  BY <1>1, <1>4 DEF Between, End
<1> QED
  BY <1>5, <1>6, <1>7

LEMMA SbrkKeeps ==
    ASSUME HeapInv, NEW incr \in Int, sbrk(incr)
    PROVE  HeapInv'
<1> DEFINE first == IF memptr = NULL THEN SYS_brk(0, Brk) ELSE Brk
           at == IF memptr = NULL THEN first.cur ELSE memptr
           asked == SYS_brk(at + incr, first)
           floor == image.gp + GP_SPACE
<1>1. /\ image \in Images /\ sp \in Int /\ min_brk \in Nat \ {0} /\ program_brk \in Nat
      /\ min_brk <= program_brk /\ granted \in SUBSET Int /\ \A a \in granted : a < program_brk
  BY DEF HeapInv, HeapTypes, Between
<1>2. /\ first = [min |-> first.min, cur |-> first.cur] /\ first.min \in Nat \ {0}
      /\ first.cur \in Nat /\ first.min <= first.cur /\ min_brk <= first.min /\ first.min >= floor
      /\ program_brk <= first.cur /\ at = first.cur
  <2>1. CASE memptr = NULL
    BY <2>1, FirstAsk
  <2>2. CASE memptr # NULL
    <3>1. first = [min |-> min_brk, cur |-> program_brk]
      BY <2>2 DEF Brk
    <3> QED
      BY <1>1, <2>2, <3>1 DEF HeapInv, SameBreak
  <2> QED
    BY <2>1, <2>2
<1>3. /\ min_brk' = asked.min /\ program_brk' = asked.cur /\ memptr' = asked.cur
      /\ \/ incr > 0 /\ asked.cur # at /\ Grant(at, at + incr)
         \/ /\ incr < 0 \/ asked.cur = at
            /\ granted' = {a \in granted : a < asked.cur \/ a >= at}
            /\ UNCHANGED twice
      /\ UNCHANGED <<image, start, sp>>
  BY DEF sbrk
<1> HIDE DEF first, at
<1>4. /\ asked.min \in Nat /\ asked.cur \in Nat /\ asked.min <= asked.cur /\ first.min <= asked.min
      /\ asked.min >= floor
      /\ asked.cur = at + incr \/ asked.cur >= at
      /\ asked.cur = at + incr \/ first.min < floor \/ asked.cur = at
      /\ asked.min = first.min \/ first.min < floor
  <2>1. asked = SYS_brk(at + incr, [min |-> first.min, cur |-> first.cur]) /\ at + incr \in Int
    BY <1>2
  <2> HIDE DEF asked
  <2> QED
    BY <1>1, <1>2, <2>1, BrkAnswers
<1> HIDE DEF asked
<1>5. floor \in Nat
  BY <1>1, LayoutAssumption DEF Images
<1> HIDE DEF floor
<1>6. HeapTypes' /\ Behind' /\ Between'
  <2>1. CASE incr > 0 /\ asked.cur # at /\ Grant(at, at + incr)
    <3>1. /\ program_brk' = at + incr /\ at + incr \in Int /\ at \in Nat /\ at <= at + incr
          /\ min_brk <= min_brk' /\ memptr' \in Int /\ min_brk' \in Nat \ {0} /\ program_brk <= at
      BY <1>1, <1>2, <1>3, <1>4, <1>5, <2>1
    <3>2. min_brk' <= at
      BY <1>2, <1>3, <1>4, <1>5, <2>1, <3>1
    <3> QED
      BY <1>3, <2>1, <3>1, <3>2, GrantKeeps
  <2>2. CASE /\ incr < 0 \/ asked.cur = at
             /\ granted' = {a \in granted : a < asked.cur \/ a >= at}
             /\ UNCHANGED twice
    <3>1. granted' \in SUBSET granted /\ \A a \in granted' : a < program_brk'
      BY <1>1, <1>2, <1>3, <2>2
    <3>2. /\ memptr' \in Int /\ min_brk' \in Nat \ {0} /\ program_brk' \in Nat
          /\ min_brk <= min_brk' /\ min_brk' <= program_brk'
      BY <1>1, <1>2, <1>3, <1>4
    <3> QED
      BY <1>3, <2>2, <3>1, <3>2, ReleaseKeeps
  <2> QED
    BY <1>3, <2>1, <2>2
<1>7. SameBreak'
  BY <1>3, <1>4 DEF SameBreak, floor
<1>8. NothingYet'
  BY <1>2, <1>3, <1>4 DEF NothingYet, NULL
<1> QED
  BY <1>6, <1>7, <1>8 DEF HeapInv

\* malloc's pool, when programs do not mix the two allocators.
LEMMA MallocKeeps ==
    ASSUME HeapInv, MixHeaps = FALSE, setup_malloc
    PROVE  HeapInv'
<1> DEFINE first == SYS_brk(0, Brk)
           addr == USER_SP - DefaultGap
           asked == SYS_brk(addr, first)
           floor == image.gp + GP_SPACE
<1>1. /\ image \in Images /\ sp \in Int /\ min_brk \in Nat \ {0} /\ program_brk \in Nat
      /\ granted \in SUBSET Int /\ \A a \in granted : a < program_brk
  BY DEF HeapInv, HeapTypes, Between
<1>2. /\ first = [min |-> first.min, cur |-> first.cur] /\ first.min \in Nat \ {0}
      /\ first.cur \in Nat /\ first.min <= first.cur /\ min_brk <= first.min /\ first.min >= floor
      /\ program_brk <= first.cur
  BY FirstAsk
<1>3. /\ memptr = NULL /\ mempool = NULL /\ memptr' = NULL
      /\ min_brk' = asked.min /\ program_brk' = asked.cur
      /\ \/ asked.cur > first.cur /\ mempool' = first.cur /\ Grant(first.cur, asked.cur)
         \/ UNCHANGED <<granted, twice>>
      /\ UNCHANGED <<image, start, sp>>
  BY DEF setup_malloc
<1> HIDE DEF first
<1>4. addr \in Int
  BY LayoutAssumption
<1>5. /\ asked.min \in Nat /\ asked.cur \in Nat /\ asked.min <= asked.cur /\ first.min <= asked.min
      /\ asked.cur = addr \/ asked.cur >= first.cur
      /\ asked.min = first.min \/ first.min < floor
  <2>1. asked = SYS_brk(addr, [min |-> first.min, cur |-> first.cur])
    BY <1>2
  <2> HIDE DEF asked, addr
  <2> QED
    BY <1>1, <1>2, <1>4, <2>1, BrkAnswers
<1> HIDE DEF asked, addr
<1>6. floor \in Nat
  BY <1>1, LayoutAssumption DEF Images
<1> HIDE DEF floor
<1>7. /\ min_brk' \in Nat \ {0} /\ min_brk <= min_brk' /\ min_brk' <= first.cur
      /\ min_brk' <= program_brk' /\ program_brk' \in Nat /\ memptr' \in Int
  BY <1>1, <1>2, <1>3, <1>5, <1>6 DEF NULL
<1>8. CASE asked.cur > first.cur /\ mempool' = first.cur /\ Grant(first.cur, asked.cur)
  <2>1. HeapTypes' /\ Behind' /\ Between'
    BY <1>1, <1>2, <1>3, <1>5, <1>7, <1>8, GrantKeeps
  <2> QED
    BY <1>2, <1>3, <1>8, <2>1 DEF HeapInv, SameBreak, NothingYet, NULL
<1>9. CASE UNCHANGED <<granted, twice>>
  <2>1. granted = {} /\ granted' = {}
    BY <1>3, <1>9 DEF HeapInv, NothingYet
  <2>2. HeapTypes' /\ Behind' /\ Between'
    BY <1>3, <1>7, <1>9, <2>1, ReleaseKeeps
  <2> QED
    BY <1>3, <2>1, <2>2 DEF HeapInv, SameBreak, NothingYet
<1> QED
  BY <1>3, <1>8, <1>9

\* Every way to the next program, and every way back from one that failed.
LEMMA LoadKeeps ==
    ASSUME HeapInv, elf_boot \/ LoadInit \/ \E l \in Lines : elf_run(l)
    PROVE  HeapInv'
<1>1. ASSUME NEW m, NEW img \in Images, ToShell(m, img) PROVE HeapInv'
  BY <1>1, FailsHeap DEF ToShell
<1>2. Cold \in Seq(Nat) /\ Warm \in Seq(Nat) /\ \A l \in Lines : l \in Seq(Nat)
  BY InputAssumption
<1>3. CASE elf_boot
  <2>1. PICK flash \in Flashes :
          LET l == elf_load_fd(mem, flash, USER_SP)
              args == setup_stack_args(l.mem, Cold, USER_SP)
          IN  \/ l.ok /\ Starts(flash, Cold, args.mem, args.sp)
              \/ ~l.ok /\ ToShell(l.mem, flash)
    BY <1>3 DEF elf_boot
  <2> DEFINE l == elf_load_fd(mem, flash, USER_SP)
             args == setup_stack_args(l.mem, Cold, USER_SP)
  <2>2. args.sp \in Int /\ flash \in Images
    BY <1>2, ArgsAbove, InputAssumption
  <2>3. l.ok => elf_validate_phdr(flash)
    BY DEF elf_load_fd
  <2> HIDE DEF l, args
  <2>4. CASE l.ok /\ Starts(flash, Cold, args.mem, args.sp)
    BY <2>2, <2>3, <2>4, StartsHeap
  <2>5. CASE ToShell(l.mem, flash)
    BY <1>1, <2>2, <2>5
  <2> QED
    BY <2>1, <2>4, <2>5 DEF l, args
<1>4. CASE LoadInit
  <2> DEFINE args == setup_stack_args(mem, Warm, USER_SP)
  <2>1. args.sp \in Int
    BY <1>2, ArgsAbove
  <2>2. PICK flash \in Flashes \cup {NoProgram} :
           LET l == elf_load_fd(args.mem, flash, args.sp)
           IN  \/ l.ok /\ Starts(flash, Warm, l.mem, args.sp)
               \/ ~l.ok /\ ToShell(l.mem, flash)
    BY <1>4 DEF LoadInit
  <2>3. flash \in Images
    BY InputAssumption, NoProgramIs
  <2> DEFINE l == elf_load_fd(args.mem, flash, args.sp)
  <2>4. l.ok => elf_validate_phdr(flash)
    BY DEF elf_load_fd
  <2> HIDE DEF l, args
  <2>5. CASE l.ok /\ Starts(flash, Warm, l.mem, args.sp)
    BY <2>1, <2>3, <2>4, <2>5, StartsHeap
  <2>6. CASE ToShell(l.mem, flash)
    BY <1>1, <2>3, <2>6
  <2> QED
    BY <2>2, <2>5, <2>6 DEF l, args
<1>5. ASSUME NEW chars \in Lines, elf_run(chars) PROVE HeapInv'
  <2> DEFINE args == setup_stack_args(mem, chars, USER_SP)
             name == StringAt(args.mem, args.filename)
             img == File(name)
             l == elf_load(args.mem, name, args.sp)
  <2>1. args.sp \in Int /\ img \in Images
    BY <1>2, ArgsAbove, FilesAre
  <2>2. l.ok => elf_validate_phdr(img)
    BY DEF elf_load, elf_load_fd
  <2>3. \/ l.ok /\ Starts(img, chars, l.mem, args.sp)
        \/ Fails(img) /\ UNCHANGED <<start, sp>>
    BY <1>5 DEF elf_run
  <2> HIDE DEF args, img, l
  <2>4. CASE l.ok /\ Starts(img, chars, l.mem, args.sp)
    BY <2>1, <2>2, <2>4, StartsHeap
  <2>5. CASE Fails(img) /\ UNCHANGED <<start, sp>>
    BY <2>1, <2>5, FailsHeap
  <2> QED
    BY <2>3, <2>4, <2>5
<1> QED
  BY <1>3, <1>4, <1>5

LEMMA HeapInit == Init => HeapInv
<1> SUFFICES ASSUME Init PROVE HeapInv
  OBVIOUS
<1>1. NoProgram \in Images /\ Loads(NoProgram) = {}
  BY NoProgramIs
<1>2. /\ image = NoProgram /\ start = USER_SP /\ sp = USER_SP /\ granted = {} /\ twice = FALSE
      /\ min_brk = USRMEM_START /\ program_brk = USRMEM_START /\ memptr = NULL
  BY DEF Init
<1>3. USER_SP \in Nat /\ USRMEM_START \in Nat \ {0}
  BY LayoutAssumption DEF Garbage
<1> QED
  BY <1>1, <1>2, <1>3
  DEF HeapInv, HeapTypes, Behind, Between, SameBreak, NothingYet, NULL

LEMMA HeapStep == ASSUME MixHeaps = FALSE, HeapInv, [Next]_vars PROVE HeapInv'
<1>1. CASE elf_boot \/ SYS_exit \/ super_boot \/ \E l \in Lines : elf_run(l)
  BY <1>1, LoadKeeps DEF SYS_exit, super_boot
<1>2. CASE Trap \/ ShellReturn
  BY <1>2, OthersHeap DEF Trap, ShellReturn, HeapInv, HeapTypes
<1>3. ASSUME NEW d \in Depths, MoveStack(d) PROVE HeapInv'
  <2>1. sp' = start - d /\ UNCHANGED <<image, start, breaks, heap>>
    BY <1>3 DEF MoveStack
  <2>2. sp' \in Int
    BY <2>1, InputAssumption DEF HeapInv, HeapTypes
  <2> QED
    BY <2>1, <2>2, OthersHeap
<1>4. CASE setup_malloc
  BY <1>4, MallocKeeps
<1>5. ASSUME NEW i \in Increments, sbrk(i) PROVE HeapInv'
  BY <1>5, SbrkKeeps, InputAssumption
<1>6. CASE UNCHANGED vars
  BY <1>6, OthersHeap DEF vars, control, HeapInv, HeapTypes
<1> QED
  BY <1>1, <1>2, <1>3, <1>4, <1>5, <1>6 DEF Next

\* What sbrk and malloc give a program is no part of its image, lies below the
\* break and is given once, if the program does not use sbrk first and malloc
\* then (malloc.c moves the break, and sbrk.c remembers where it was).
THEOREM HeapIsOwned == ASSUME MixHeaps = FALSE PROVE Spec => []HeapOwned
<1>1. HeapInv => HeapOwned
  <2> SUFFICES ASSUME HeapInv, Proper(image, start),
                      NEW a \in granted, NEW i \in Loads(image)
               PROVE  a \notin Extent(image.phdr[i])
    BY DEF HeapOwned, HeapInv, Between, HeapTypes
  <2>1. image.phdr[i] \in Headers /\ a \in Int
    BY DEF HeapInv, HeapTypes, Images, Loads
  <2>2. image.phdr[i].paddr + image.phdr[i].memsz <= a
    BY DEF HeapInv, Between
  <2> QED
    BY <2>1, <2>2 DEF Extent, Headers
<1> QED
  BY <1>1, HeapInit, HeapStep, PTL DEF Spec

-----------------------------------------------------------------------------
(* Failed runs *)

(* Before the first program nothing has failed. *)
ResetInv == mode = "reset" => failed = NULL

Spares ==
    failed' # NULL => /\ \A a \in Addresses : a < failed' => mem'[a] = mem[a]
                      /\ UNCHANGED <<breaks, heap>>

LEMMA ResetStep == ResetInv /\ [Next]_vars => ResetInv'
<1> SUFFICES ASSUME ResetInv, [Next]_vars PROVE ResetInv'
  OBVIOUS
<1> USE DEF ResetInv
<1>1. \A img, chars, m, stack : Starts(img, chars, m, stack) => mode' = "user"
  BY DEF Starts, Replaces
<1>2. \A m, img : ToShell(m, img) => mode' = "shell"
  BY DEF ToShell
<1>3. CASE elf_boot
  BY <1>1, <1>2, <1>3 DEF elf_boot
<1>4. CASE SYS_exit \/ super_boot
  BY <1>1, <1>2, <1>4 DEF SYS_exit, super_boot, LoadInit
<1>5. CASE \E l \in Lines : elf_run(l)
  BY <1>1, <1>5 DEF elf_run
<1>6. CASE Trap \/ ShellReturn \/ setup_malloc
  BY <1>6 DEF Trap, ShellReturn, setup_malloc
<1>7. CASE (\E d \in Depths : MoveStack(d)) \/ \E i \in Increments : sbrk(i)
  BY <1>7 DEF MoveStack, sbrk
<1>8. CASE UNCHANGED vars
  BY <1>8 DEF vars, control
<1> QED
  BY <1>3, <1>4, <1>5, <1>6, <1>7, <1>8 DEF Next

LEMMA SparesStep == ResetInv /\ [Next]_vars => [Spares]_vars
<1> SUFFICES ASSUME ResetInv, Next PROVE Spares
  OBVIOUS
<1>1. \A img, chars, m, stack : Starts(img, chars, m, stack) => failed' = NULL
  BY DEF Starts, Replaces
<1>2. Warm \in Seq(Nat) /\ \A l \in Lines : l \in Seq(Nat)
  BY InputAssumption
<1>3. ASSUME NEW chars \in Seq(Nat),
             mem' = setup_stack_args(mem, chars, USER_SP).mem,
             failed' = setup_stack_args(mem, chars, USER_SP).sp,
             UNCHANGED <<breaks, heap>>
      PROVE  Spares
  BY <1>3, ArgsAbove DEF Spares
<1>4. CASE elf_boot
  BY <1>1, <1>4 DEF elf_boot, ResetInv, Spares
<1>5. ASSUME NEW chars \in Seq(Nat), NEW img,
             mem' = elf_load_fd(setup_stack_args(mem, chars, USER_SP).mem, img,
                                setup_stack_args(mem, chars, USER_SP).sp).mem,
             FailedAt(img, setup_stack_args(mem, chars, USER_SP).sp), Fails(img)
      PROVE  Spares
  <2>1. CASE elf_read_ehdr(img) /\ elf_validate_phdr(img)
    BY <1>5, <2>1 DEF FailedAt, Spares
  <2>2. CASE ~(elf_read_ehdr(img) /\ elf_validate_phdr(img))
    <3>1. /\ mem' = setup_stack_args(mem, chars, USER_SP).mem
          /\ failed' = setup_stack_args(mem, chars, USER_SP).sp
      BY <1>5, <2>2, FailedLoad DEF FailedAt
    <3>2. UNCHANGED <<breaks, heap>>
      BY <1>5, <2>2 DEF Fails
    <3> QED
      BY <1>3, <1>5, <3>1, <3>2
  <2> QED
    BY <2>1, <2>2
<1>6. CASE LoadInit
  <2> DEFINE args == setup_stack_args(mem, Warm, USER_SP)
  <2>1. PICK flash : LET l == elf_load_fd(args.mem, flash, args.sp)
                     IN  \/ l.ok /\ Starts(flash, Warm, l.mem, args.sp)
                         \/ ToShell(l.mem, flash) /\ FailedAt(flash, args.sp)
    BY <1>6 DEF LoadInit
  <2>2. CASE ToShell(elf_load_fd(args.mem, flash, args.sp).mem, flash) /\ FailedAt(flash, args.sp)
    <3>1. mem' = elf_load_fd(args.mem, flash, args.sp).mem /\ Fails(flash)
      BY <2>2 DEF ToShell
    <3> QED
      BY <1>2, <1>5, <2>2, <3>1
  <2> QED
    BY <1>1, <2>1, <2>2 DEF Spares
<1>10. ASSUME NEW chars \in Lines, elf_run(chars) PROVE Spares
  <2> DEFINE args == setup_stack_args(mem, chars, USER_SP)
             name == StringAt(args.mem, args.filename)
             l == elf_load(args.mem, name, args.sp)
  <2>1. CASE Starts(File(name), chars, l.mem, args.sp)
    BY <1>1, <2>1 DEF Spares
  <2>2. CASE mem' = l.mem /\ FailedAt(File(name), args.sp) /\ Fails(File(name))
    BY <1>2, <1>5, <2>2 DEF elf_load
  <2> QED
    BY <1>10, <2>1, <2>2 DEF elf_run
<1>7. CASE Trap \/ ShellReturn \/ setup_malloc
  BY <1>7 DEF Trap, ShellReturn, setup_malloc, Spares
<1>8. CASE (\E d \in Depths : MoveStack(d)) \/ \E i \in Increments : sbrk(i)
  BY <1>8 DEF MoveStack, sbrk, Spares
<1> QED
  BY <1>4, <1>6, <1>7, <1>8, <1>10 DEF Next, SYS_exit, super_boot

\* exec of a file that is missing or has no valid headers changes no memory below
\* the arguments it had set up, and neither breaks nor heap.  (exec of one whose
\* entry address is 0 fails too, and changes them: elf_load_fd finds out last.)
THEOREM FailedRunsSpare == Spec => FailedRunSpares
<1>1. Init => ResetInv
  BY DEF Init, ResetInv
<1>2. ResetInv /\ [Next]_vars => [Spares]_vars
  BY SparesStep
<1> QED
  BY <1>1, <1>2, ResetStep, PTL DEF Spec, FailedRunSpares, Spares

-----------------------------------------------------------------------------
(* Loading *)

(* Where a segment's bytes from the file go. *)
FromFile(p) == p.paddr .. p.paddr + p.filesz - 1

(* Memory after the k-th header. *)
AfterHeader(img, x, k) == IF img.phdr[k].load THEN Loaded(x, img, k) ELSE x

\* The recursion over the program headers has a solution, so Segments is what
\* it says.  (A function on 0 .. k is extended by one place; the least k that
\* has none cannot exist.)
LEMMA HeadersInTurn ==
    ASSUME NEW img \in Images, NEW m
    PROVE  \E f : /\ f = [k \in 0 .. Len(img.phdr) |->
                            IF k = 0 THEN m ELSE AfterHeader(img, f[k-1], k)]
                  /\ Segments(m, img) = f[Len(img.phdr)]
<1> DEFINE n == Len(img.phdr)
           Is(f, k) == f = [j \in 0 .. k |-> IF j = 0 THEN m ELSE AfterHeader(img, f[j-1], j)]
           Bad == {k \in Nat : ~\E f : Is(f, k)}
<1>1. n \in Nat
  BY DEF Images
<1>2. Bad = {}
  <2> SUFFICES ASSUME Bad # {} PROVE FALSE
    OBVIOUS
  <2>1. PICK k \in Bad : \A y \in Bad : k <= y
    BY LeastExists
  <2>2. k \in Nat /\ ~\E f : Is(f, k)
    BY <2>1
  <2>3. k # 0
    <3>1. Is([j \in 0 .. 0 |-> m], 0)
      OBVIOUS
    <3> HIDE DEF Is
    <3> QED
      BY <2>2, <3>1
  <2>4. k - 1 \in Nat /\ k - 1 \notin Bad
    <3> HIDE DEF Bad, Is
    <3>1. k - 1 \in Nat /\ ~(k <= k - 1)
      BY <2>2, <2>3
    <3> QED
      BY <2>1, <3>1
  <2>5. PICK g : Is(g, k - 1)
    BY <2>4
  <2> DEFINE h == [j \in 0 .. k |-> IF j = k THEN AfterHeader(img, g[k-1], k) ELSE g[j]]
  <2>6. Is(h, k)
    <3>1. ASSUME NEW j \in 0 .. k
          PROVE  h[j] = IF j = 0 THEN m ELSE AfterHeader(img, h[j-1], j)
      <4>1. CASE j = k
        <5>1. h[j-1] = g[k-1] /\ h[j] = AfterHeader(img, g[k-1], k)
          BY <2>2, <2>3, <4>1
        <5> QED
          BY <2>3, <4>1, <5>1
      <4>2. CASE j # k
        <5>1. j \in 0 .. k - 1 /\ h[j] = g[j]
          BY <2>2, <4>2
        <5>2. g[j] = IF j = 0 THEN m ELSE AfterHeader(img, g[j-1], j)
          BY <2>5, <5>1
        <5>3. j # 0 => h[j-1] = g[j-1]
          BY <2>2, <4>2
        <5> QED
          BY <5>1, <5>2, <5>3
      <4> QED
        BY <4>1, <4>2
    <3> QED
      BY <3>1
  <2> HIDE DEF Is
  <2> QED
    BY <2>2, <2>6
<1>3. \E f : Is(f, n)
  BY <1>1, <1>2
<1> DEFINE c == CHOOSE f : Is(f, n)
<1>4. Is(c, n)
  <2> HIDE DEF Is, n
  <2> QED
    BY <1>3, Zenon
<1>5. Segments(m, img) = c[n]
  BY DEF Segments, AfterHeader
<1> HIDE DEF c
<1> QED
  BY <1>4, <1>5

(* What memory x is after the first k headers of a proper program, where it *)
(* was m: the bytes of their segments in place, and all else as it was.     *)
Placed(img, x, m, k) ==
    \A a \in Addresses :
        /\ \A i \in Loads(img) : i <= k /\ a \in FromFile(img.phdr[i]) =>
               x[a] = Byte(img, i, a - img.phdr[i].paddr)
        /\ (\A i \in Loads(img) : i <= k => a \notin FromFile(img.phdr[i])) => x[a] = m[a]

\* Segments of a proper program do not overlap.
LEMMA Apart ==
    ASSUME NEW img \in Images, NEW stack, Proper(img, stack)
    PROVE  /\ \A i \in Loads(img) : FromFile(img.phdr[i]) \in SUBSET Extent(img.phdr[i])
           /\ \A i, j \in Loads(img), a \in Int :
                a \in Extent(img.phdr[i]) /\ a \in Extent(img.phdr[j]) => i = j
<1>1. \A i \in Loads(img) :
         /\ i \in Nat /\ img.phdr[i].paddr \in Nat /\ img.phdr[i].memsz \in Nat
         /\ img.phdr[i].filesz \in Nat
  <2>1. img.phdr \in Seq(Headers)
    BY DEF Images
  <2>2. \A i \in DOMAIN img.phdr : i \in Nat /\ img.phdr[i] \in Headers
    BY <2>1
  <2> QED
    BY <2>2 DEF Loads, Headers
<1>2. \A i \in Loads(img) : img.phdr[i].filesz <= img.phdr[i].memsz
  BY DEF Proper
<1>3. \A i, j \in Loads(img) : i < j => img.phdr[i].paddr + img.phdr[i].memsz <= img.phdr[j].paddr
  BY DEF Proper
<1>4. \A i \in Loads(img) : FromFile(img.phdr[i]) \in SUBSET Extent(img.phdr[i])
  BY <1>1, <1>2 DEF FromFile, Extent
<1>5. ASSUME NEW i \in Loads(img), NEW j \in Loads(img), NEW a \in Int,
             a \in Extent(img.phdr[i]), a \in Extent(img.phdr[j])
      PROVE  i = j
  <2>1. ~(i < j) /\ ~(j < i)
    BY <1>1, <1>3, <1>5 DEF Extent
  <2> QED
    BY <1>1, <2>1
<1> QED
  BY <1>4, <1>5

\* One header puts one more segment in place.
LEMMA PlaceOne ==
    ASSUME NEW img \in Images, NEW stack, Proper(img, stack), NEW m, NEW x,
           NEW k \in 1 .. Len(img.phdr), Placed(img, x, m, k - 1)
    PROVE  Placed(img, AfterHeader(img, x, k), m, k)
<1>1. /\ Len(img.phdr) \in Nat /\ DOMAIN img.phdr = 1 .. Len(img.phdr) /\ k \in Nat /\ k - 1 \in Int
      /\ img.phdr[k] \in Headers /\ \A i \in Loads(img) : i \in Nat
  BY DEF Images, Loads
<1>2. \A i \in Loads(img) : i <= k <=> (i <= k - 1 \/ i = k)
  BY <1>1
<1>3. CASE k \notin Loads(img)
  <2>1. AfterHeader(img, x, k) = x
    BY <1>1, <1>3 DEF AfterHeader, Loads
  <2>2. \A i \in Loads(img) : i <= k <=> i <= k - 1
    BY <1>2, <1>3
  <2> QED
    BY <2>1, <2>2 DEF Placed
<1>4. CASE k \in Loads(img)
  <2> DEFINE p == img.phdr[k]
             y == AfterHeader(img, x, k)
  <2>1. p.filesz \in Nat /\ p.have \in Nat /\ p.have >= p.filesz /\ p.paddr \in Nat
    BY <1>1, <1>4 DEF Headers, Proper
  <2>2. Min({p.filesz, p.have}) = p.filesz
    BY <2>1 DEF Min
  <2>3. y = [a \in Addresses |-> IF a \in FromFile(p) THEN Byte(img, k, a - p.paddr) ELSE x[a]]
    BY <1>4, <2>2 DEF AfterHeader, Loads, Loaded, FromFile
  <2> HIDE DEF y
  <2>4. SUFFICES ASSUME NEW a \in Addresses
        PROVE  /\ \A i \in Loads(img) : i <= k /\ a \in FromFile(img.phdr[i]) =>
                      y[a] = Byte(img, i, a - img.phdr[i].paddr)
               /\ (\A i \in Loads(img) : i <= k => a \notin FromFile(img.phdr[i])) => y[a] = m[a]
    BY DEF Placed, y
  <2>5. a \in Int
    BY LayoutAssumption DEF Addresses
  <2>6. y[a] = IF a \in FromFile(p) THEN Byte(img, k, a - p.paddr) ELSE x[a]
    BY <2>3
  <2>7. /\ \A i \in Loads(img) : i <= k - 1 /\ a \in FromFile(img.phdr[i]) =>
                x[a] = Byte(img, i, a - img.phdr[i].paddr)
        /\ (\A i \in Loads(img) : i <= k - 1 => a \notin FromFile(img.phdr[i])) => x[a] = m[a]
    BY DEF Placed
  <2>8. \A i \in Loads(img) : a \in FromFile(img.phdr[i]) /\ a \in FromFile(p) => i = k
    BY <1>4, <2>5, Apart
  <2> HIDE DEF p
  <2>9. \A i \in Loads(img) : i <= k /\ a \in FromFile(img.phdr[i]) =>
            y[a] = Byte(img, i, a - img.phdr[i].paddr)
    <3> SUFFICES ASSUME NEW i \in Loads(img), i <= k, a \in FromFile(img.phdr[i])
                 PROVE  y[a] = Byte(img, i, a - img.phdr[i].paddr)
      OBVIOUS
    <3>1. CASE i = k
      BY <2>6, <3>1 DEF p
    <3>2. CASE i # k
      BY <1>2, <2>6, <2>7, <2>8, <3>2
    <3> QED
      BY <3>1, <3>2
  <2>10. ASSUME \A i \in Loads(img) : i <= k => a \notin FromFile(img.phdr[i]) PROVE y[a] = m[a]
    <3>1. a \notin FromFile(p) /\ \A i \in Loads(img) : i <= k - 1 => a \notin FromFile(img.phdr[i])
      BY <1>2, <1>4, <2>10 DEF p
    <3> QED
      BY <2>6, <2>7, <3>1
  <2> QED
    BY <2>9, <2>10
<1> QED
  BY <1>3, <1>4

\* All headers put all segments in place.
LEMMA SegmentsPlaced ==
    ASSUME NEW img \in Images, NEW stack, Proper(img, stack), NEW m
    PROVE  Placed(img, Segments(m, img), m, Len(img.phdr))
<1> DEFINE n == Len(img.phdr)
<1>1. n \in Nat /\ \A i \in Loads(img) : i \in 1 .. n
  BY DEF Images, Loads
<1>2. PICK f : /\ f = [k \in 0 .. n |-> IF k = 0 THEN m ELSE AfterHeader(img, f[k-1], k)]
               /\ Segments(m, img) = f[n]
  BY HeadersInTurn
<1> DEFINE Bad == {k \in 0 .. n : ~Placed(img, f[k], m, k)}
<1> HIDE DEF n
<1>3. Bad \in SUBSET Nat
  BY <1>1
<1>4. Bad = {}
  <2> SUFFICES ASSUME Bad # {} PROVE FALSE
    OBVIOUS
  <2>1. PICK k \in Bad : \A y \in Bad : k <= y
    BY <1>3, LeastExists
  <2>2. k \in 0 .. n /\ ~Placed(img, f[k], m, k)
    BY <2>1
  <2>3. k # 0
    <3>1. f[0] = m
      BY <1>1, <1>2
    <3>2. Placed(img, m, m, 0)
      BY <1>1 DEF Placed
    <3> QED
      BY <2>2, <3>1, <3>2
  <2>4. k \in 1 .. n /\ k - 1 \in 0 .. n /\ ~(k <= k - 1)
    BY <1>1, <2>2, <2>3
  <2>5. Placed(img, f[k-1], m, k - 1)
    <3>1. k - 1 \notin Bad
      <4> HIDE DEF Bad
      <4> QED
        BY <2>1, <2>4
    <3> QED
      BY <2>4, <3>1
  <2>6. f[k] = AfterHeader(img, f[k-1], k)
    BY <1>2, <2>2, <2>3
  <2> QED
    BY <2>2, <2>4, <2>5, <2>6, PlaceOne DEF n
<1>5. n \in 0 .. n
  BY <1>1
<1>6. Placed(img, f[n], m, n)
  BY <1>4, <1>5
<1> QED
  BY <1>2, <1>6 DEF n

(* What a program finds at address a when it starts. *)
AsInFile(img, a) ==
    IF \E i \in Loads(img) : a \in img.phdr[i].paddr .. img.phdr[i].paddr + img.phdr[i].filesz - 1
    THEN LET i == CHOOSE i \in Loads(img) : a \in Extent(img.phdr[i])
         IN  Byte(img, i, a - img.phdr[i].paddr)
    ELSE 0

\* A load puts a proper program below its stack into memory that is clear.
LEMMA LoadsRight ==
    ASSUME NEW img \in Images, NEW stack \in Int, Proper(img, stack), NEW m,
           NEW top \in Int, stack <= top, stack <= USER_SP
    PROVE  \A a \in USRMEM_START .. stack - 1 : LoadSegments(m, img, top)[a] = AsInFile(img, a)
<1> SUFFICES ASSUME NEW a \in USRMEM_START .. stack - 1
             PROVE  LoadSegments(m, img, top)[a] = AsInFile(img, a)
  OBVIOUS
<1>1. a \in Addresses /\ a \in Int /\ a < top
  BY LayoutAssumption DEF Addresses
<1> DEFINE clear == Cleared(m, top)
           x == Segments(clear, img)
<1>2. clear[a] = 0
  BY <1>1 DEF Cleared
<1>3. LoadSegments(m, img, top) = x
  BY DEF LoadSegments
<1> HIDE DEF clear
<1>4. Placed(img, x, clear, Len(img.phdr))
  BY SegmentsPlaced
<1> HIDE DEF x
<1>5. \A i \in Loads(img) : i <= Len(img.phdr)
  BY DEF Images, Loads
<1>6. CASE \E i \in Loads(img) : a \in FromFile(img.phdr[i])
  <2>1. PICK i \in Loads(img) : a \in FromFile(img.phdr[i])
    BY <1>6
  <2> DEFINE c == CHOOSE c \in Loads(img) : a \in Extent(img.phdr[c])
  <2>2. a \in Extent(img.phdr[i])
    BY <2>1, Apart
  <2>3. c \in Loads(img) /\ a \in Extent(img.phdr[c])
    BY <2>2
  <2>4. AsInFile(img, a) = Byte(img, c, a - img.phdr[c].paddr)
    BY <1>6 DEF AsInFile, FromFile
  <2> HIDE DEF c
  <2>5. c = i
    BY <1>1, <2>2, <2>3, Apart
  <2>6. x[a] = Byte(img, i, a - img.phdr[i].paddr)
    BY <1>1, <1>4, <1>5, <2>1 DEF Placed
  <2> QED
    BY <1>3, <2>4, <2>5, <2>6
<1>7. CASE ~\E i \in Loads(img) : a \in FromFile(img.phdr[i])
  <2>1. AsInFile(img, a) = 0
    BY <1>7 DEF AsInFile, FromFile
  <2>2. x[a] = clear[a]
    BY <1>1, <1>4, <1>7 DEF Placed
  <2> QED
    BY <1>2, <1>3, <2>1, <2>2
<1> QED
  BY <1>6, <1>7

\* The arguments lie inside user memory.
LEMMA ArgsInside ==
    ASSUME NEW m, NEW chars \in Seq(Nat)
    PROVE  setup_stack_args(m, chars, USER_SP).sp <= USER_SP
<1> DEFINE argbytes == RoundUp(Len(chars) + 1)
<1>1. argbytes \in Nat /\ MAXARGS \in Nat /\ USER_SP \in Int
  <2>1. Align \in Nat \ {0} /\ Len(chars) + 1 \in Nat
    BY LayoutAssumption
  <2>2. (Len(chars) + 1) % Align \in Nat /\ (Len(chars) + 1) % Align < Align
    BY <2>1
  <2> QED
    BY <2>1, <2>2, LayoutAssumption DEF RoundUp
<1> HIDE DEF argbytes
<1>2. setup_stack_args(m, chars, USER_SP).sp = USER_SP - argbytes - MAXARGS - 1
  BY DEF setup_stack_args, argbytes
<1> QED
  BY <1>1, <1>2

\* A program that starts with its image loaded.
LEMMA StartsLoaded ==
    ASSUME NEW img, NEW chars, NEW m, NEW stack, Starts(img, chars, m, stack),
           Proper(img, stack) => \A a \in USRMEM_START .. stack - 1 : m[a] = AsInFile(img, a)
    PROVE  ImageLoaded'
<1>1. mem' = m /\ image' = img /\ start' = stack
  BY DEF Starts, Replaces
<1> QED
  BY <1>1, ZenonT(60) DEF ImageLoaded, AsInFile

LEMMA ImageStep == ImageLoaded /\ [Next]_vars => ImageLoaded'
<1> SUFFICES ASSUME ImageLoaded, [Next]_vars PROVE ImageLoaded'
  OBVIOUS
<1>1. ASSUME fresh' = FALSE PROVE ImageLoaded'
  BY <1>1 DEF ImageLoaded
<1>2. Cold \in Seq(Nat) /\ Warm \in Seq(Nat) /\ \A l \in Lines : l \in Seq(Nat)
  BY InputAssumption
<1>3. USER_SP \in Int /\ USRMEM_START \in Int /\ USER_SP <= USER_SP
  BY LayoutAssumption
<1>4. ASSUME NEW img \in Images, NEW chars \in Seq(Nat), NEW s,
             s = setup_stack_args(mem, chars, USER_SP).sp,
             NEW l, l = elf_load_fd(setup_stack_args(mem, chars, USER_SP).mem, img, s), l.ok,
             Starts(img, chars, l.mem, s)
      PROVE  ImageLoaded'
  <2> DEFINE args == setup_stack_args(mem, chars, USER_SP)
  <2>1. s \in Int /\ s <= USER_SP /\ s <= s
    BY <1>4, ArgsAbove, ArgsInside
  <2>2. l.mem = LoadSegments(args.mem, img, s)
    BY <1>4 DEF elf_load_fd
  <2> HIDE DEF args
  <2>3. Proper(img, s) => \A a \in USRMEM_START .. s - 1 : l.mem[a] = AsInFile(img, a)
    BY <2>1, <2>2, LoadsRight
  <2> QED
    BY <1>4, <2>3, StartsLoaded
<1>5. CASE elf_boot
  <2>1. PICK flash \in Flashes :
          LET l == elf_load_fd(mem, flash, USER_SP)
              args == setup_stack_args(l.mem, Cold, USER_SP)
          IN  \/ l.ok /\ Starts(flash, Cold, args.mem, args.sp)
              \/ ~l.ok /\ ToShell(l.mem, flash)
    BY <1>5 DEF elf_boot
  <2> DEFINE l == elf_load_fd(mem, flash, USER_SP)
             args == setup_stack_args(l.mem, Cold, USER_SP)
             s == args.sp
  <2>2. CASE l.ok /\ Starts(flash, Cold, args.mem, args.sp)
    <3>1. flash \in Images
      BY InputAssumption
    <3>2. l.mem = LoadSegments(mem, flash, USER_SP)
      BY <2>2 DEF elf_load_fd
    <3> HIDE DEF l
    <3>3. /\ s \in Int /\ s <= USER_SP
          /\ \A a \in Addresses : a < s => args.mem[a] = l.mem[a]
      BY <1>2, ArgsAbove, ArgsInside
    <3> HIDE DEF args
    <3>4. \A a \in USRMEM_START .. s - 1 : a \in Addresses /\ a < s
      BY <1>3, <3>3 DEF Addresses
    <3>5. Proper(flash, s) => \A a \in USRMEM_START .. s - 1 : l.mem[a] = AsInFile(flash, a)
      BY <1>3, <3>1, <3>2, <3>3, LoadsRight
    <3>6. Proper(flash, s) => \A a \in USRMEM_START .. s - 1 : args.mem[a] = AsInFile(flash, a)
      BY <3>3, <3>4, <3>5
    <3> QED
      BY <2>2, <3>6, StartsLoaded
  <2>3. CASE ToShell(l.mem, flash)
    BY <1>1, <2>3 DEF ToShell
  <2> QED
    BY <2>1, <2>2, <2>3
<1>6. CASE LoadInit
  <2> DEFINE args == setup_stack_args(mem, Warm, USER_SP)
  <2>1. ASSUME NEW m, NEW img, ToShell(m, img) PROVE ImageLoaded'
    BY <1>1, <2>1 DEF ToShell
  <2>2. ASSUME NEW flash \in Flashes \cup {NoProgram}, elf_load_fd(args.mem, flash, args.sp).ok,
               Starts(flash, Warm, elf_load_fd(args.mem, flash, args.sp).mem, args.sp)
        PROVE  ImageLoaded'
    <3>1. flash \in Images
      BY InputAssumption, NoProgramIs
    <3> QED
      BY <1>2, <1>4, <2>2, <3>1
  <2> QED
    BY <1>6, <2>1, <2>2 DEF LoadInit
<1>7. ASSUME NEW chars \in Lines, elf_run(chars) PROVE ImageLoaded'
  <2> DEFINE args == setup_stack_args(mem, chars, USER_SP)
             name == StringAt(args.mem, args.filename)
             l == elf_load(args.mem, name, args.sp)
  <2>1. CASE l.ok /\ Starts(File(name), chars, l.mem, args.sp)
    <3>1. l = elf_load_fd(args.mem, File(name), args.sp)
      BY DEF elf_load
    <3>2. File(name) \in Images
      BY FilesAre
    <3> QED
      BY <1>2, <1>4, <2>1, <3>1, <3>2
  <2>2. CASE fresh' = FALSE
    BY <1>1, <2>2
  <2> QED
    BY <1>7, <2>1, <2>2 DEF elf_run
<1>8. CASE Trap \/ setup_malloc \/ (\E d \in Depths : MoveStack(d)) \/ \E i \in Increments : sbrk(i)
  BY <1>1, <1>8 DEF Trap, setup_malloc, MoveStack, sbrk
<1>9. CASE ShellReturn \/ UNCHANGED vars
  BY <1>9 DEF ShellReturn, vars, control, ImageLoaded
<1> QED
  BY <1>5, <1>6, <1>7, <1>8, <1>9 DEF Next, SYS_exit, super_boot

\* A program that starts finds its segments as in its file, and bss and the rest
\* of memory below its stack zero, whatever ran before it: the part of
\* StartsAsAsked that is about the image.
THEOREM ImageIsLoaded == Spec => []ImageLoaded
<1>1. Init => ImageLoaded
  BY DEF Init, ImageLoaded
<1> QED
  BY <1>1, ImageStep, PTL DEF Spec

-----------------------------------------------------------------------------
(* Arguments *)

\* A line as setup_stack_args copies it, with zeros up to a multiple of Align.
Padded(chars) == chars \o Zeros(RoundUp(Len(chars) + 1) - Len(chars))

LEMMA Multiples ==
    ASSUME NEW n \in Nat \ {0}, NEW q \in Int
    PROVE  (q * n) % n = 0
<1> DEFINE d == (q * n) \div n
           r == (q * n) % n
<1>1. q * n \in Int /\ n \in Int /\ n > 0
  OBVIOUS
<1>2. d \in Int /\ r \in 0 .. n - 1 /\ q * n = n * d + r
  BY <1>1
<1> HIDE DEF d, r
<1>3. r = n * (q - d)
  BY <1>1, <1>2
<1>4. q - d >= 1 => n * (q - d) >= n
  BY <1>1, <1>2
<1>5. q - d <= -1 => n * (q - d) <= -n
  BY <1>1, <1>2
<1>6. q - d = 0
  BY <1>1, <1>2, <1>3, <1>4, <1>5
<1>7. r = 0
  BY <1>1, <1>3, <1>6
<1> QED
  BY <1>7 DEF r

LEMMA Divides ==
    ASSUME NEW n \in Nat \ {0}, NEW a \in Int, a % n = 0
    PROVE  \E q \in Int : a = q * n
<1> DEFINE d == a \div n
<1>1. d \in Int /\ a = n * d + (a % n)
  OBVIOUS
<1>2. n * d = d * n
  BY <1>1
<1> HIDE DEF d
<1>3. a = d * n
  BY <1>1, <1>2
<1> QED
  BY <1>1, <1>3

LEMMA Aligned ==
    ASSUME NEW n \in Nat \ {0}, NEW a \in Int, NEW b \in Int, a % n = 0, b % n = 0
    PROVE  (a - b) % n = 0
<1>1. PICK p \in Int : a = p * n
  BY Divides
<1>2. PICK q \in Int : b = q * n
  BY Divides
<1>3. a - b = (p - q) * n /\ p - q \in Int
  BY <1>1, <1>2
<1> DEFINE k == p - q
<1> HIDE DEF k
<1>4. (k * n) % n = 0
  BY <1>3, Multiples DEF k
<1> QED
  BY <1>3, <1>4 DEF k

LEMMA RoundedUp ==
    ASSUME NEW m \in Nat
    PROVE  RoundUp(m) \in Nat /\ RoundUp(m) >= m /\ RoundUp(m) % Align = 0
<1>1. Align \in Nat \ {0} /\ Align \in Int /\ Align > 0
  BY LayoutAssumption
<1>2. m % Align \in Nat /\ m % Align < Align /\ m \in Int
  BY <1>1
<1>3. RoundUp(m) \in Nat /\ RoundUp(m) >= m
  BY <1>1, <1>2 DEF RoundUp
<1>4. CASE m % Align = 0
  BY <1>3, <1>4 DEF RoundUp
<1>5. CASE m % Align # 0
  <2> DEFINE d == m \div Align
             r == m % Align
             k == d + 1
  <2>1. d \in Int /\ r \in Int /\ m = Align * d + r
    BY <1>1, <1>2
  <2>2. RoundUp(m) = m - r + Align
    BY <1>5 DEF RoundUp
  <2> HIDE DEF d, r
  <2>3. RoundUp(m) = (d + 1) * Align
    BY <1>1, <2>1, <2>2
  <2>4. k \in Int
    BY <2>1
  <2> HIDE DEF k
  <2>5. (k * Align) % Align = 0
    BY <1>1, <2>4, Multiples
  <2> QED
    BY <1>3, <2>3, <2>5 DEF k
<1> QED
  BY <1>4, <1>5

LEMMA Joined ==
    ASSUME NEW p \in Seq(Nat), NEW r \in Seq(Nat)
    PROVE  /\ p \o r \in Seq(Nat) /\ Len(p \o r) = Len(p) + Len(r)
           /\ \A k \in 1 .. Len(p) : (p \o r)[k] = p[k]
           /\ \A k \in Len(p) + 1 .. Len(p) + Len(r) : (p \o r)[k] = r[k - Len(p)]
OBVIOUS

LEMMA PaddedIs ==
    ASSUME NEW chars \in Strings
    PROVE  LET n == Len(chars)
               len == RoundUp(n + 1)
               p == Padded(chars)
           IN  /\ n \in Nat /\ len \in Nat /\ len >= n + 1 /\ p \in Seq(Nat) /\ Len(p) = len
               /\ \A x \in 1 .. n : p[x] = chars[x] /\ chars[x] \in Nat /\ chars[x] # NULL
               /\ \A x \in n + 1 .. len : p[x] = NULL
<1> DEFINE n == Len(chars)
           len == RoundUp(n + 1)
           d == len - n
           z == Zeros(d)
           p == Padded(chars)
<1>1. n \in Nat /\ chars \in Seq(Nat) /\ \A x \in 1 .. n : chars[x] \in Nat /\ chars[x] # NULL
  BY DEF Strings, NULL
<1>2. n + 1 \in Nat
  BY <1>1
<1>3. len \in Nat /\ len >= n + 1
  <2> DEFINE m == n + 1
  <2> HIDE DEF m
  <2>1. RoundUp(m) \in Nat /\ RoundUp(m) >= m
    BY <1>2, RoundedUp DEF m
  <2> QED
    BY <2>1 DEF m
<1> HIDE DEF n, len
<1>4. d \in Nat /\ n + d = len
  BY <1>1, <1>3
<1> HIDE DEF d
<1>5. z \in Seq(Nat) /\ Len(z) = d /\ \A k \in 1 .. d : z[k] = NULL
  BY <1>4 DEF Zeros, NULL
<1> HIDE DEF z
<1>6. p = chars \o z
  BY DEF Padded, p, z, d, len, n
<1> HIDE DEF p
<1>7. /\ p \in Seq(Nat) /\ Len(p) = Len(chars) + Len(z)
      /\ \A x \in 1 .. Len(chars) : p[x] = chars[x]
      /\ \A x \in Len(chars) + 1 .. Len(chars) + Len(z) : p[x] = z[x - Len(chars)]
  BY <1>1, <1>5, <1>6, Joined
<1>8. Len(p) = n + d /\ (\A x \in 1 .. n : p[x] = chars[x]) /\ \A x \in n + 1 .. n + d : p[x] = z[x - n]
  BY <1>5, <1>7 DEF n
<1>9. \A x \in n + 1 .. len : x - n \in 1 .. d /\ x \in n + 1 .. n + d
  BY <1>1, <1>4
<1>10. \A x \in n + 1 .. len : p[x] = NULL
  BY <1>5, <1>8, <1>9
<1> QED
  BY <1>1, <1>3, <1>4, <1>7, <1>8, <1>10 DEF n, len, p

LEMMA BeginsIs ==
    ASSUME NEW chars \in Strings
    PROVE  LET S == Begins(chars)
           IN  /\ S \in SUBSET Nat /\ S \in SUBSET (1 .. Len(chars)) /\ IsFiniteSet(S) /\ Cardinality(S) \in Nat
               /\ \A i \in S : chars[i] # Blank /\ (i = 1 \/ chars[i - 1] = Blank)
<1>1. Len(chars) \in Nat /\ DOMAIN chars = 1 .. Len(chars)
  BY DEF Strings
<1>2. Begins(chars) \in SUBSET (1 .. Len(chars))
  BY <1>1 DEF Begins
<1>3. IsFiniteSet(1 .. Len(chars))
  BY <1>1, FS_Interval
<1>4. IsFiniteSet(Begins(chars))
  BY <1>2, <1>3, FS_Subset
<1>5. \A i \in 1 .. Len(chars) : i \in Nat
  BY <1>1
<1> QED
  BY <1>2, <1>4, <1>5, FS_CardinalityType DEF Begins

\* A field ends at the end of the line or before a blank, and has none.
LEMMA StopsIs ==
    ASSUME NEW chars \in Strings, NEW i \in Begins(chars)
    PROVE  LET e == Stops(chars, i)
           IN  /\ e \in i .. Len(chars) /\ e \in Nat /\ (e = Len(chars) \/ chars[e + 1] = Blank)
               /\ \A x \in i .. e : chars[x] # Blank
<1> DEFINE n == Len(chars)
           T == {j \in i .. n : j = n \/ chars[j + 1] = Blank}
           e == Stops(chars, i)
<1>1. n \in Nat /\ i \in 1 .. n /\ chars[i] # Blank
  BY BeginsIs DEF Strings
<1>2. T \in SUBSET Nat /\ n \in T
  BY <1>1
<1>3. e \in T /\ \A y \in T : e <= y
  <2>1. e = Min(T)
    BY DEF Stops
  <2> HIDE DEF T
  <2> QED
    BY <1>2, <2>1, MinIs
<1> HIDE DEF e, n
<1>4. e \in i .. n /\ e \in Nat /\ (e = n \/ chars[e + 1] = Blank)
  BY <1>1, <1>3
<1>5. ASSUME NEW x \in i .. e, chars[x] = Blank PROVE FALSE
  <2>1. x # i
    BY <1>1, <1>5
  <2> DEFINE y == x - 1
  <2>2. y \in i .. n /\ y + 1 = x /\ ~(e <= y)
    BY <1>1, <1>4, <2>1
  <2> HIDE DEF y
  <2>3. y \in T
    BY <1>5, <2>2
  <2> QED
    BY <1>3, <2>2, <2>3
<1> QED
  BY <1>4, <1>5 DEF e, n

\* strtok_r, given the first place that holds no blank and the next that holds a
\* blank or a NUL.
LEMMA NoToken ==
    ASSUME NEW str \in Seq(Nat), NEW s \in 1 .. Len(str), NEW x \in s .. Len(str),
           str[x] # Blank, \A y \in s .. x - 1 : str[y] = Blank, str[x] = NULL
    PROVE  strtok_r(str, s) = [tok |-> NULL, last |-> NULL, str |-> str]
<1> DEFINE T == {y \in s .. Len(str) : y # NULL /\ str[y] # Blank}
<1>1. Len(str) \in Nat /\ s \in Nat /\ x \in Nat
  OBVIOUS
<1>2. x \in T /\ T \in SUBSET Nat
  BY <1>1 DEF NULL
<1>3. \A y \in T : x <= y
  <2>1. \A y \in s .. Len(str) : ~(x <= y) => y \in s .. x - 1
    BY <1>1
  <2> QED
    BY <2>1
<1>4. Min(T) = x
  <2> HIDE DEF T
  <2> QED
    BY <1>2, <1>3, MinOnly
<1> QED
  BY <1>4 DEF strtok_r

TokenIs(str, s, x, e) ==
    strtok_r(str, s) = [tok |-> x, last |-> IF str[e] = NULL THEN NULL ELSE e + 1,
                        str |-> [str EXCEPT ![e] = NULL]]

LEMMA TokenAt ==
    ASSUME NEW str \in Seq(Nat), NEW s \in 1 .. Len(str), NEW x \in s .. Len(str),
           str[x] # Blank, \A y \in s .. x - 1 : str[y] = Blank, str[x] # NULL,
           NEW e \in x .. Len(str), str[e] \in {NULL, Blank}, \A y \in x .. e - 1 : str[y] \notin {NULL, Blank}
    PROVE  TokenIs(str, s, x, e)
<1> DEFINE T == {y \in s .. Len(str) : y # NULL /\ str[y] # Blank}
           U == {y \in x .. Len(str) : str[y] \in {NULL, Blank}}
<1>1. Len(str) \in Nat /\ s \in Nat /\ x \in Nat /\ e \in Nat /\ s # NULL
  BY DEF NULL
<1>2. x \in T /\ T \in SUBSET Nat
  BY <1>1 DEF NULL
<1>3. \A y \in T : x <= y
  <2>1. \A y \in s .. Len(str) : ~(x <= y) => y \in s .. x - 1
    BY <1>1
  <2> QED
    BY <2>1
<1>4. Min(T) = x
  <2> HIDE DEF T
  <2> QED
    BY <1>2, <1>3, MinOnly
<1>5. e \in U /\ U \in SUBSET Nat
  BY <1>1
<1>6. \A y \in U : e <= y
  <2>1. \A y \in x .. Len(str) : ~(e <= y) => y \in x .. e - 1
    BY <1>1
  <2> QED
    BY <2>1
<1>7. Min(U) = e
  <2> HIDE DEF U
  <2> QED
    BY <1>5, <1>6, MinOnly
<1> QED
  BY <1>1, <1>4, <1>7 DEF strtok_r, ReplaceAt, TokenIs

\* The first letter at or behind a place where a field may begin begins one.
LEMMA NextBegins ==
    ASSUME NEW chars \in Strings, NEW s \in 1 .. Len(chars) + 1, s = 1 \/ chars[s - 1] = Blank,
           NEW x \in s .. Len(chars), chars[x] # Blank, \A y \in s .. x - 1 : chars[y] = Blank
    PROVE  x \in Begins(chars) /\ \A j \in Begins(chars) : s <= j => x <= j
<1>1. Len(chars) \in Nat /\ DOMAIN chars = 1 .. Len(chars) /\ x \in 1 .. Len(chars) /\ s \in Nat /\ x \in Nat
  BY DEF Strings
<1>2. x = 1 \/ chars[x - 1] = Blank
  <2>1. CASE x = s
    BY <2>1
  <2>2. CASE x # s
    <3>1. x - 1 \in s .. x - 1
      BY <1>1, <2>2
    <3> QED
      BY <3>1
  <2> QED
    BY <2>1, <2>2
<1>3. x \in Begins(chars)
  BY <1>1, <1>2 DEF Begins
<1>4. ASSUME NEW j \in Begins(chars), s <= j, ~(x <= j) PROVE FALSE
  <2>1. j \in Nat /\ chars[j] # Blank
    BY BeginsIs
  <2>2. j \in s .. x - 1
    BY <1>1, <1>4, <2>1
  <2> QED
    BY <2>1, <2>2
<1> QED
  BY <1>3, <1>4

\* No field begins inside another or at the blank behind it.
LEMMA NextBehind ==
    ASSUME NEW chars \in Strings, NEW x \in Begins(chars), NEW j \in Begins(chars), x < j
    PROVE  Stops(chars, x) + 1 < j /\ Stops(chars, x) # Len(chars)
<1> DEFINE e == Stops(chars, x)
           n == Len(chars)
<1>1. n \in Nat /\ x \in 1 .. n /\ j \in 1 .. n /\ chars[j] # Blank /\ (j = 1 \/ chars[j - 1] = Blank)
  BY BeginsIs DEF Strings
<1>2. e \in x .. n /\ e \in Nat /\ (e = n \/ chars[e + 1] = Blank) /\ \A y \in x .. e : chars[y] # Blank
  BY StopsIs
<1> HIDE DEF e, n
<1>3. e < j
  <2> SUFFICES ASSUME ~(e < j) PROVE FALSE
    OBVIOUS
  <2>1. j - 1 \in x .. e /\ j # 1
    BY <1>1, <1>2
  <2> QED
    BY <1>1, <1>2, <2>1
<1>4. e # n
  BY <1>1, <1>2, <1>3
<1>5. j # e + 1
  BY <1>1, <1>2, <1>4
<1> QED
  BY <1>1, <1>2, <1>3, <1>4, <1>5 DEF e, n

\* What k calls of strtok have found and left to do.
TokState(t, chars, k) ==
    LET S == Begins(chars)
        n == Len(chars)
        p == Padded(chars)
    IN  /\ t.toks \in Seq(Nat) /\ Len(t.toks) = k
        /\ \A j \in 1 .. k : t.toks[j] = IF j <= Cardinality(S) THEN Nth(S, j) ELSE NULL
        /\ t.str \in Seq(Nat) /\ Len(t.str) = Len(p)
        /\ \A x \in 1 .. n : chars[x] # Blank => t.str[x] = chars[x]
        /\ \A j \in 1 .. k : j <= Cardinality(S) => t.str[Stops(chars, Nth(S, j)) + 1] = NULL
        /\ t.last \in Nat
        /\ t.last = NULL => Cardinality(S) <= k
        /\ t.last # NULL => /\ t.last \in 1 .. n + 1 /\ (t.last = 1 \/ chars[t.last - 1] = Blank)
                            /\ Cardinality({i \in S : i < t.last}) = k
                            /\ \A x \in t.last .. Len(p) : t.str[x] = p[x]

LEMMA OneTokenMore ==
    ASSUME NEW k \in Nat, NEW toks \in Seq(Nat), Len(toks) = k, NEW tok \in Nat,
           NEW c \in Nat, NEW S, \A j \in 1 .. k : toks[j] = IF j <= c THEN Nth(S, j) ELSE NULL,
           tok = IF k + 1 <= c THEN Nth(S, k + 1) ELSE NULL
    PROVE  LET q == Append(toks, tok)
           IN  /\ q \in Seq(Nat) /\ Len(q) = k + 1
               /\ \A j \in 1 .. k + 1 : q[j] = IF j <= c THEN Nth(S, j) ELSE NULL
<1> DEFINE q == Append(toks, tok)
<1>1. q \in Seq(Nat) /\ Len(q) = k + 1 /\ q[k + 1] = tok /\ \A j \in 1 .. k : q[j] = toks[j]
  OBVIOUS
<1> HIDE DEF q
<1>2. \A j \in 1 .. k + 1 : j \in 1 .. k \/ j = k + 1
  OBVIOUS
<1>3. \A j \in 1 .. k + 1 : q[j] = IF j <= c THEN Nth(S, j) ELSE NULL
  BY <1>1, <1>2
<1> QED
  BY <1>1, <1>3 DEF q

\* The calls that find nothing more.
LEMMA CalledInVain ==
    ASSUME NEW chars \in Strings, NEW k \in Nat, NEW t, TokState(t, chars, k),
           strtok_r(t.str, t.last) = [tok |-> NULL, last |-> NULL, str |-> t.str],
           Cardinality(Begins(chars)) <= k
    PROVE  TokState(Called(t), chars, k + 1)
<1> DEFINE S == Begins(chars)
           c == Cardinality(S)
           u == Called(t)
           q == Append(t.toks, NULL)
<1>1. c \in Nat /\ ~(k + 1 <= c) /\ NULL \in Nat
  BY BeginsIs DEF NULL
<1>2. u = [toks |-> q, last |-> NULL, str |-> t.str]
  BY DEF Called
<1> HIDE DEF q, u
<1>3. u.toks = q /\ u.last = NULL /\ u.str = t.str
  BY <1>2
<1>4. /\ t.toks \in Seq(Nat) /\ Len(t.toks) = k
      /\ \A j \in 1 .. k : t.toks[j] = IF j <= c THEN Nth(S, j) ELSE NULL
  BY DEF TokState
<1> HIDE DEF c
<1>5. q \in Seq(Nat) /\ Len(q) = k + 1 /\ \A j \in 1 .. k + 1 : q[j] = IF j <= c THEN Nth(S, j) ELSE NULL
  BY <1>1, <1>4, OneTokenMore DEF q
<1>6. \A j \in 1 .. k + 1 : j <= c => j \in 1 .. k
  BY <1>1
<1>7. /\ t.str \in Seq(Nat) /\ Len(t.str) = Len(Padded(chars))
      /\ \A x \in 1 .. Len(chars) : chars[x] # Blank => t.str[x] = chars[x]
      /\ \A j \in 1 .. k : j <= c => t.str[Stops(chars, Nth(S, j)) + 1] = NULL
  BY DEF TokState, c
<1>8. c <= k + 1
  BY <1>1 DEF c
<1> QED
  BY <1>1, <1>3, <1>5, <1>6, <1>7, <1>8 DEF TokState, c, u

\* The call that finds the next field.
LEMMA CalledFinds ==
    ASSUME NEW chars \in Strings, NEW k \in Nat, NEW t, TokState(t, chars, k), t.last # NULL,
           NEW x \in t.last .. Len(chars), chars[x] # Blank, \A y \in t.last .. x - 1 : chars[y] = Blank
    PROVE  TokState(Called(t), chars, k + 1)
<1> DEFINE S == Begins(chars)
           c == Cardinality(S)
           n == Len(chars)
           p == Padded(chars)
           len == Len(p)
           s == t.last
           str == t.str
           e == Stops(chars, x)
           d == e + 1
           u == Called(t)
           q == Append(t.toks, x)
           str2 == [str EXCEPT ![d] = NULL]
           last2 == IF d = n + 1 THEN NULL ELSE d + 1
<1>1. /\ n \in Nat /\ len \in Nat /\ len >= n + 1 /\ p \in Seq(Nat)
      /\ \A y \in 1 .. n : p[y] = chars[y] /\ chars[y] \in Nat /\ chars[y] # NULL
      /\ \A y \in n + 1 .. len : p[y] = NULL
  BY PaddedIs
<1>2. /\ t.toks \in Seq(Nat) /\ Len(t.toks) = k
      /\ \A j \in 1 .. k : t.toks[j] = IF j <= c THEN Nth(S, j) ELSE NULL
  BY DEF TokState
<1>3. /\ str \in Seq(Nat) /\ Len(str) = len
      /\ \A y \in 1 .. n : chars[y] # Blank => str[y] = chars[y]
      /\ \A j \in 1 .. k : j <= c => str[Stops(chars, Nth(S, j)) + 1] = NULL
  BY DEF TokState
<1>4. /\ s \in 1 .. n + 1 /\ (s = 1 \/ chars[s - 1] = Blank) /\ Cardinality({i \in S : i < s}) = k
      /\ \A y \in s .. len : str[y] = p[y]
  BY DEF TokState
<1>5. S \in SUBSET Nat /\ IsFiniteSet(S) /\ c \in Nat /\ \A i \in S : i \in 1 .. n
  BY BeginsIs
<1>6. x \in S /\ \A j \in S : s <= j => x <= j
  BY <1>4, NextBegins
<1>7. e \in x .. n /\ e \in Nat /\ (e = n \/ chars[d] = Blank) /\ \A y \in x .. e : chars[y] # Blank
  BY <1>6, StopsIs
<1> HIDE DEF S, c, n, p, len, s, str, e, u
<1>8. x \in Nat /\ x \in 1 .. n /\ s \in Nat /\ s <= x
  BY <1>1, <1>4 DEF s, n
<1>9. Rank(S, x) = k + 1 /\ Nth(S, k + 1) = x /\ k + 1 <= c
  <2>1. Rank(S, x) = Cardinality({i \in S : i < s}) + 1 /\ Nth(S, Cardinality({i \in S : i < s}) + 1) = x
    BY <1>5, <1>6, <1>8, RankNext, NthNext
  <2>2. Rank(S, x) \in 1 .. c
    BY <1>5, <1>6, RankBound DEF c
  <2> QED
    BY <1>4, <1>5, <2>1, <2>2
\* The call.
<1>10. strtok_r(str, s) = [tok |-> x, last |-> last2, str |-> str2]
  <2>1. s \in 1 .. Len(str) /\ x \in s .. Len(str) /\ d \in x .. Len(str)
    BY <1>1, <1>3, <1>4, <1>7, <1>8
  <2>2. \A y \in s .. d : y \in s .. len /\ (y = d \/ y \in 1 .. n)
    BY <1>1, <1>3, <1>4, <1>7, <1>8
  <2>3. \A y \in s .. x - 1 : y \in s .. d /\ y \in 1 .. n
    BY <1>1, <1>4, <1>7, <1>8
  <2>4. \A y \in x .. e : y \in s .. d /\ y \in 1 .. n
    BY <1>1, <1>4, <1>7, <1>8
  <2>5. str[x] # Blank /\ str[x] # NULL
    BY <1>1, <1>3, <1>6, <1>8
  <2>6. \A y \in s .. x - 1 : str[y] = Blank
    BY <1>1, <1>4, <2>2, <2>3 DEF s
  <2>7. \A y \in x .. d - 1 : str[y] \notin {NULL, Blank}
    <3>1. d - 1 = e
      BY <1>7
    <3> QED
      BY <1>1, <1>3, <1>7, <2>4, <3>1
  <2>8. /\ d = n + 1 => str[d] = NULL
        /\ d # n + 1 => str[d] = Blank
    <3>1. d \in s .. d /\ d \in s .. len
      BY <1>4, <1>7, <1>8, <2>1, <1>3
    <3>2. d # n + 1 => d \in 1 .. n /\ e # n
      BY <1>1, <1>7, <1>8
    <3>3. d = n + 1 => d \in n + 1 .. len
      BY <1>1
    <3> QED
      BY <1>1, <1>4, <1>7, <3>1, <3>2, <3>3
  <2>9. last2 = IF str[d] = NULL THEN NULL ELSE d + 1
    BY <2>8 DEF NULL, Blank
  <2> HIDE DEF last2, d
  <2>10. str[d] \in {NULL, Blank}
    BY <2>8
  <2>11. TokenIs(str, s, x, d)
    BY <1>3, <2>1, <2>5, <2>6, <2>7, <2>10, TokenAt
  <2> QED
    BY <2>9, <2>11 DEF TokenIs
<1>11. u = [toks |-> q, last |-> last2, str |-> str2]
  <2>1. u = [toks |-> Append(t.toks, strtok_r(str, s).tok), last |-> strtok_r(str, s).last,
             str |-> strtok_r(str, s).str]
    BY DEF Called, u, s, str
  <2> HIDE DEF last2, str2
  <2> QED
    BY <1>10, <2>1
<1>12. u.toks = q /\ u.last = last2 /\ u.str = str2
  <2> HIDE DEF q, last2, str2
  <2> QED
    BY <1>11
<1>13. q \in Seq(Nat) /\ Len(q) = k + 1 /\ \A j \in 1 .. k + 1 : q[j] = IF j <= c THEN Nth(S, j) ELSE NULL
  BY <1>2, <1>5, <1>8, <1>9, OneTokenMore, SMTT(30)
\* The string.
<1>14. d \in 1 .. len /\ d \in Nat
  BY <1>1, <1>7, <1>8
<1>15. /\ str2 \in Seq(Nat) /\ Len(str2) = len /\ str2[d] = NULL
       /\ \A y \in 1 .. len : y # d => str2[y] = str[y]
  <2> HIDE DEF d
  <2> QED
    BY <1>1, <1>3, <1>14 DEF NULL
<1> HIDE DEF str2, q
<1>16. \A y \in 1 .. n : chars[y] # Blank => str2[y] = chars[y]
  <2> SUFFICES ASSUME NEW y \in 1 .. n, chars[y] # Blank PROVE str2[y] = chars[y]
    OBVIOUS
  <2>1. y # d
    BY <1>1, <1>7
  <2>2. y \in 1 .. len
    BY <1>1
  <2> QED
    BY <1>3, <1>15, <2>1, <2>2
<1>17. \A j \in 1 .. k + 1 : j <= c => str2[Stops(chars, Nth(S, j)) + 1] = NULL
  <2> SUFFICES ASSUME NEW j \in 1 .. k + 1, j <= c PROVE str2[Stops(chars, Nth(S, j)) + 1] = NULL
    OBVIOUS
  <2>1. CASE j = k + 1
    BY <1>9, <1>15, <2>1 DEF e
  <2>2. CASE j # k + 1
    <3> DEFINE b == Stops(chars, Nth(S, j)) + 1
    <3>1. j \in 1 .. k /\ j \in 1 .. c
      BY <1>5, <2>2
    <3>2. str[b] = NULL
      BY <1>3, <3>1
    <3>3. Nth(S, j) \in S
      BY <1>5, <3>1, NthIs DEF c
    <3>4. b \in 1 .. len
      <4>1. Stops(chars, Nth(S, j)) \in Nth(S, j) .. n /\ Nth(S, j) \in 1 .. n
        BY <1>5, <3>3, StopsIs DEF S, n
      <4> QED
        BY <1>1, <4>1
    <3> HIDE DEF b
    <3>5. str2[b] = NULL
      BY <1>15, <3>2, <3>4
    <3> QED
      BY <3>5 DEF b
  <2> QED
    BY <2>1, <2>2
\* Where the next call goes on.
<1>18. last2 \in Nat
  BY <1>14 DEF NULL
<1>19. ASSUME last2 = NULL PROVE c <= k + 1
  <2>1. e = n
    BY <1>1, <1>7, <1>14, <1>19 DEF NULL
  <2>2. \A j \in S : j <= x
    <3> SUFFICES ASSUME NEW j \in S, ~(j <= x) PROVE FALSE
      OBVIOUS
    <3>1. x < j
      BY <1>5, <1>8
    <3> QED
      BY <1>6, <2>1, <3>1, NextBehind DEF S, n, e
  <2>3. {j \in S : j <= x} = S
    BY <2>2
  <2>4. Rank(S, x) = c
    BY <2>3 DEF Rank, c
  <2> QED
    BY <1>5, <1>9, <2>4
<1>20. ASSUME last2 # NULL
       PROVE  /\ last2 \in 1 .. n + 1 /\ chars[last2 - 1] = Blank
              /\ Cardinality({i \in S : i < last2}) = k + 1
              /\ \A y \in last2 .. len : str2[y] = p[y]
  <2>1. last2 = d + 1 /\ d # n + 1
    BY <1>20
  <2>2. d \in 1 .. n /\ e # n /\ (d + 1) - 1 = d
    BY <1>1, <1>7, <1>14, <2>1
  <2>3. d + 1 \in 1 .. n + 1 /\ chars[(d + 1) - 1] = Blank
    BY <1>1, <1>7, <2>2
  <2>4. {i \in S : i < d + 1} = {i \in S : i <= x}
    <3>1. \A i \in S : i <= x => i < d + 1
      BY <1>5, <1>7, <1>8
    <3>2. ASSUME NEW i \in S, i < d + 1, ~(i <= x) PROVE FALSE
      <4>1. x < i
        BY <1>5, <1>8, <3>2
      <4>2. d < i
        BY <1>6, <4>1, NextBehind DEF S, e
      <4> QED
        BY <1>5, <1>14, <3>2, <4>2
    <3> HIDE DEF d
    <3> QED
      BY <3>1, <3>2
  <2>5. Cardinality({i \in S : i < d + 1}) = k + 1
    BY <1>9, <2>4 DEF Rank
  <2>6. \A y \in d + 1 .. len : y \in s .. len /\ y \in 1 .. len /\ y # d
    BY <1>7, <1>8, <1>14
  <2>7. \A y \in d + 1 .. len : str2[y] = p[y]
    BY <1>4, <1>15, <2>6
  <2> HIDE DEF d
  <2> QED
    BY <2>1, <2>3, <2>5, <2>7
<1> HIDE DEF last2
<1>21. TokState(u, chars, k + 1)
  BY <1>12, <1>13, <1>15, <1>16, <1>17, <1>18, <1>19, <1>20 DEF TokState, S, c, n, p, len
<1> QED
  BY <1>21 DEF u

LEMMA CalledKeeps ==
    ASSUME NEW chars \in Strings, NEW k \in Nat, NEW t, TokState(t, chars, k)
    PROVE  TokState(Called(t), chars, k + 1)
<1> DEFINE n == Len(chars)
           s == t.last
           X == {x \in s .. n : chars[x] # Blank}
<1>1. n \in Nat /\ s \in Nat
  BY DEF TokState, Strings
<1>2. CASE s = NULL
  <2>1. strtok_r(t.str, s) = [tok |-> NULL, last |-> NULL, str |-> t.str]
    BY <1>2 DEF strtok_r
  <2>2. Cardinality(Begins(chars)) <= k
    BY <1>2 DEF TokState
  <2> QED
    BY <2>1, <2>2, CalledInVain
<1>3. CASE s # NULL /\ X # {}
  <2>1. X \in SUBSET Nat
    BY <1>1
  <2>2. PICK x \in X : \A y \in X : x <= y
    BY <1>3, <2>1, LeastExists
  <2>3. \A y \in s .. x - 1 : chars[y] = Blank
    <3> SUFFICES ASSUME NEW y \in s .. x - 1, chars[y] # Blank PROVE FALSE
      OBVIOUS
    <3>1. y \in s .. n /\ ~(x <= y)
      BY <1>1, <2>2
    <3>2. y \in X
      BY <3>1
    <3> QED
      BY <2>2, <3>1, <3>2
  <2> QED
    BY <1>3, <2>2, <2>3, CalledFinds
<1>4. CASE s # NULL /\ X = {}
  <2> DEFINE S == Begins(chars)
             p == Padded(chars)
             x == n + 1
  <2>1. /\ Len(p) \in Nat /\ Len(p) >= n + 1
        /\ \A y \in 1 .. n : p[y] = chars[y]
        /\ \A y \in n + 1 .. Len(p) : p[y] = NULL
    BY PaddedIs
  <2>2. /\ s \in 1 .. n + 1 /\ Cardinality({i \in S : i < s}) = k
        /\ t.str \in Seq(Nat) /\ Len(t.str) = Len(p) /\ \A y \in s .. Len(p) : t.str[y] = p[y]
    BY <1>4 DEF TokState
  <2>3. s \in 1 .. Len(t.str) /\ x \in s .. Len(t.str) /\ x \in n + 1 .. Len(p)
    BY <1>1, <2>1, <2>2
  <2>4. t.str[x] = NULL
    BY <2>1, <2>2, <2>3
  <2>5. \A y \in s .. x - 1 : t.str[y] = Blank
    <3> TAKE y \in s .. x - 1
    <3>1. y \in s .. n /\ y \in 1 .. n /\ y \in s .. Len(p)
      BY <1>1, <2>1, <2>2
    <3>2. chars[y] = Blank
      BY <1>4, <3>1
    <3> QED
      BY <2>1, <2>2, <3>1, <3>2
  <2>6. NULL # Blank
    BY DEF NULL, Blank
  <2> HIDE DEF x, n
  <2>7. strtok_r(t.str, s) = [tok |-> NULL, last |-> NULL, str |-> t.str]
    BY <2>2, <2>3, <2>4, <2>5, <2>6, NoToken
  <2>8. {i \in S : i < s} = S
    <3> SUFFICES ASSUME NEW i \in S, ~(i < s) PROVE FALSE
      OBVIOUS
    <3>1. i \in 1 .. n /\ chars[i] # Blank
      BY BeginsIs DEF n
    <3>2. i \in s .. n
      BY <1>1, <3>1
    <3> QED
      BY <1>4, <3>1, <3>2
  <2>9. Cardinality(S) <= k
    <3>1. Cardinality(S) = k
      BY <2>2, <2>8
    <3> HIDE DEF S
    <3> QED
      BY <3>1
  <2> QED
    BY <2>7, <2>9, CalledInVain
<1> QED
  BY <1>2, <1>3, <1>4

FirstCall(str) == [toks |-> <<>>, last |-> 1, str |-> str]

\* The recursion over the calls has a solution, as that over the headers.
LEMMA CallsInTurn ==
    ASSUME NEW str
    PROVE  \E f : /\ f = [k \in 0 .. MAXARGS + 1 |-> IF k = 0 THEN FirstCall(str) ELSE Called(f[k-1])]
                  /\ Tokens(str) = f[MAXARGS + 1]
<1> DEFINE n == MAXARGS + 1
           m == FirstCall(str)
           Is(f, k) == f = [j \in 0 .. k |-> IF j = 0 THEN m ELSE Called(f[j-1])]
           Bad == {k \in Nat : ~\E f : Is(f, k)}
<1>1. n \in Nat
  BY LayoutAssumption
<1> HIDE DEF m
<1>2. Bad = {}
  <2> SUFFICES ASSUME Bad # {} PROVE FALSE
    OBVIOUS
  <2>1. PICK k \in Bad : \A y \in Bad : k <= y
    BY LeastExists
  <2>2. k \in Nat /\ ~\E f : Is(f, k)
    BY <2>1
  <2>3. k # 0
    <3>1. Is([j \in 0 .. 0 |-> m], 0)
      OBVIOUS
    <3> HIDE DEF Is
    <3> QED
      BY <2>2, <3>1
  <2>4. k - 1 \in Nat /\ k - 1 \notin Bad
    <3> HIDE DEF Bad, Is
    <3>1. k - 1 \in Nat /\ ~(k <= k - 1)
      BY <2>2, <2>3
    <3> QED
      BY <2>1, <3>1
  <2>5. PICK g : Is(g, k - 1)
    BY <2>4
  <2> DEFINE h == [j \in 0 .. k |-> IF j = k THEN Called(g[k-1]) ELSE g[j]]
  <2>6. Is(h, k)
    <3>1. ASSUME NEW j \in 0 .. k
          PROVE  h[j] = IF j = 0 THEN m ELSE Called(h[j-1])
      <4>1. CASE j = k
        <5>1. h[j-1] = g[k-1] /\ h[j] = Called(g[k-1])
          BY <2>2, <2>3, <4>1
        <5> QED
          BY <2>3, <4>1, <5>1
      <4>2. CASE j # k
        <5>1. j \in 0 .. k - 1 /\ h[j] = g[j]
          BY <2>2, <4>2
        <5>2. g[j] = IF j = 0 THEN m ELSE Called(g[j-1])
          BY <2>5, <5>1
        <5>3. j # 0 => h[j-1] = g[j-1]
          BY <2>2, <4>2
        <5> QED
          BY <5>1, <5>2, <5>3
      <4> QED
        BY <4>1, <4>2
    <3>2. h = [j \in 0 .. k |-> h[j]]
      OBVIOUS
    <3> HIDE DEF h
    <3> QED
      BY <3>1, <3>2
  <2> QED
    BY <2>2, <2>6
<1>3. \E f : Is(f, n)
  BY <1>1, <1>2
<1>4. Tokens(str) = (CHOOSE f : Is(f, n))[n]
  BY DEF Tokens, FirstCall, m
<1>5. Is(CHOOSE f : Is(f, n), n)
  BY <1>3
<1> QED
  BY <1>4, <1>5 DEF m

\* What the calls of strtok make of a line.
LEMMA TokensDone ==
    ASSUME NEW chars \in Strings
    PROVE  TokState(Tokens(Padded(chars)), chars, MAXARGS + 1)
<1> DEFINE n == MAXARGS + 1
           p == Padded(chars)
           m == FirstCall(p)
<1>1. n \in Nat
  BY LayoutAssumption
<1>2. PICK f : /\ f = [k \in 0 .. n |-> IF k = 0 THEN m ELSE Called(f[k-1])]
               /\ Tokens(p) = f[n]
  BY CallsInTurn
<1>3. TokState(m, chars, 0)
  <2> DEFINE S == Begins(chars)
             none == <<>>
  <2>1. /\ Len(chars) \in Nat /\ Len(p) >= Len(chars) + 1 /\ p \in Seq(Nat) /\ Len(p) \in Nat
        /\ \A x \in 1 .. Len(chars) : p[x] = chars[x]
    BY PaddedIs
  <2>2. m.toks = none /\ m.last = 1 /\ m.str = p
    <3> HIDE DEF p
    <3> QED
      BY DEF FirstCall
  <2>3. none \in Seq(Nat) /\ Len(none) = 0 /\ 1 .. 0 = {}
    OBVIOUS
  <2>4. {i \in S : i < 1} = {}
    <3>1. \A i \in S : i \in 1 .. Len(chars)
      BY BeginsIs
    <3> QED
      BY <2>1, <3>1
  <2>5. Cardinality({i \in S : i < 1}) = 0
    BY <2>4, FS_EmptySet
  <2>6. 1 \in 1 .. Len(chars) + 1 /\ 1 # NULL
    BY <2>1 DEF NULL
  <2> HIDE DEF m, p, none
  <2> QED
    BY <2>1, <2>2, <2>3, <2>5, <2>6 DEF TokState, p
<1> DEFINE Bad == {k \in 0 .. n : ~TokState(f[k], chars, k)}
<1> HIDE DEF n, m, p
<1>4. Bad \in SUBSET Nat
  BY <1>1
<1>5. Bad = {}
  <2> SUFFICES ASSUME Bad # {} PROVE FALSE
    OBVIOUS
  <2>1. PICK k \in Bad : \A y \in Bad : k <= y
    BY <1>4, LeastExists
  <2>2. k \in 0 .. n /\ ~TokState(f[k], chars, k)
    BY <2>1
  <2>3. k # 0
    <3>1. f[0] = m
      BY <1>1, <1>2
    <3> QED
      BY <1>3, <2>2, <3>1
  <2> DEFINE j == k - 1
  <2>4. j \in Nat /\ j \in 0 .. n /\ ~(k <= j) /\ j + 1 = k
    BY <1>1, <2>2, <2>3
  <2>5. f[k] = Called(f[j])
    BY <1>2, <2>2, <2>3
  <2> HIDE DEF j
  <2>6. TokState(f[j], chars, j)
    <3>1. j \notin Bad
      <4> HIDE DEF Bad
      <4> QED
        BY <2>1, <2>4
    <3> QED
      BY <2>4, <3>1
  <2>7. TokState(Called(f[j]), chars, j + 1)
    BY <2>4, <2>6, CalledKeeps
  <2> QED
    BY <2>2, <2>4, <2>5, <2>7
<1>6. n \in 0 .. n
  BY <1>1
<1>7. TokState(f[n], chars, n)
  BY <1>5, <1>6
<1> QED
  BY <1>2, <1>7 DEF n, p

\* argc, the pointers and the line one behind the other.
LEMMA StackIs ==
    ASSUME NEW n \in Nat, NEW args \in Seq(Nat), NEW str \in Seq(Nat)
    PROVE  LET s == <<n>> \o args \o str
               k == Len(args)
           IN  /\ s \in Seq(Nat) /\ s[1] = n
               /\ \A j \in 1 .. k : s[1 + j] = args[j]
               /\ \A y \in 1 .. Len(str) : s[1 + k + y] = str[y]
<1> DEFINE a == <<n>>
           b == a \o args
           s == b \o str
           k == Len(args)
<1>1. a \in Seq(Nat) /\ Len(a) = 1 /\ a[1] = n
  OBVIOUS
<1>2. k \in Nat /\ Len(str) \in Nat
  OBVIOUS
<1> HIDE DEF a
<1>3. /\ b \in Seq(Nat) /\ Len(b) = Len(a) + k /\ (\A j \in 1 .. Len(a) : b[j] = a[j])
      /\ \A j \in Len(a) + 1 .. Len(a) + k : b[j] = args[j - Len(a)]
  BY <1>1, Joined
<1> HIDE DEF b
<1>4. /\ s \in Seq(Nat) /\ (\A j \in 1 .. Len(b) : s[j] = b[j])
      /\ \A j \in Len(b) + 1 .. Len(b) + Len(str) : s[j] = str[j - Len(b)]
  BY <1>3, Joined
<1> HIDE DEF s, k
<1>5. Len(b) = 1 + k /\ b[1] = n /\ \A j \in 1 .. k : b[1 + j] = args[j]
  <2>1. \A j \in 1 .. k : 1 + j \in Len(a) + 1 .. Len(a) + k /\ (1 + j) - Len(a) = j
    BY <1>1, <1>2
  <2>2. 1 \in 1 .. Len(a)
    BY <1>1
  <2> QED
    BY <1>1, <1>3, <2>1, <2>2
<1>6. s[1] = n /\ \A j \in 1 .. k : s[1 + j] = args[j]
  <2>1. 1 \in 1 .. Len(b) /\ \A j \in 1 .. k : 1 + j \in 1 .. Len(b)
    BY <1>2, <1>5
  <2> QED
    BY <1>4, <1>5, <2>1
<1>7. \A y \in 1 .. Len(str) : s[1 + k + y] = str[y]
  <2>1. \A y \in 1 .. Len(str) : 1 + k + y \in Len(b) + 1 .. Len(b) + Len(str) /\ (1 + k + y) - Len(b) = y
    BY <1>2, <1>5
  <2> QED
    BY <1>4, <2>1
<1> QED
  BY <1>4, <1>6, <1>7 DEF s, k, b, a

\* What setup_stack_args puts into memory x for a line: argc, a pointer to each
\* field, and the line with a zero behind each field that has a pointer.
ArgsLaid(x, chars) ==
    LET S == Begins(chars)
        c == Cardinality(S)
        b == Base(chars)
        s == StackPtr(chars)
    IN  /\ x[s] = Min({c, MAXARGS})
        /\ \A k \in 1 .. MAXARGS : x[s + k] = IF k <= c THEN b + Nth(S, k) - 1 ELSE NULL
        /\ \A y \in 1 .. Len(chars) : chars[y] # Blank => x[b + y - 1] = chars[y]
        /\ \A k \in 1 .. MAXARGS : k <= c => x[b + Stops(chars, Nth(S, k))] = NULL

LEMMA RoomIs ==
    ASSUME NEW chars, Fits(chars)
    PROVE  LET n == Len(chars)
               b == Base(chars)
               s == StackPtr(chars)
           IN  /\ n \in Nat /\ RoundUp(n + 1) \in Nat /\ RoundUp(n + 1) >= n + 1
               /\ MAXARGS \in Nat /\ b \in Nat /\ s \in Nat /\ s \in Addresses
               /\ b = s + MAXARGS + 1 /\ b + RoundUp(n + 1) = USER_SP /\ b + n < USER_SP
               /\ \A k \in 1 .. MAXARGS : s + k \in Addresses
               /\ \A y \in 0 .. n : b + y \in Addresses
<1> DEFINE n == Len(chars)
           len == RoundUp(n + 1)
<1>1. n \in Nat /\ len \in Nat /\ len >= n + 1
  BY PaddedIs DEF Fits
<1>2. USRMEM_START \in Nat /\ USER_SP \in Nat /\ MAXARGS \in Nat
  BY LayoutAssumption
<1>3. StackPtr(chars) = USER_SP - len - MAXARGS - 1 /\ Base(chars) = USER_SP - len
  BY DEF StackPtr, Base
<1> DEFINE b == Base(chars)
           s == StackPtr(chars)
<1>4. s >= USRMEM_START
  BY DEF Fits
<1> HIDE DEF n, len, b, s
<1>5. b = USER_SP - len /\ s = USER_SP - len - MAXARGS - 1
  BY <1>3 DEF b, s
<1>6. /\ b \in Nat /\ s \in Nat /\ b = s + MAXARGS + 1 /\ b + len = USER_SP /\ b + n < USER_SP
      /\ s \in USRMEM_START .. USER_SP - 1
      /\ \A k \in 1 .. MAXARGS : s + k \in USRMEM_START .. USER_SP - 1
      /\ \A y \in 0 .. n : b + y \in USRMEM_START .. USER_SP - 1
  BY <1>1, <1>2, <1>4, <1>5
<1> QED
  BY <1>1, <1>2, <1>6 DEF Addresses, n, len, b, s

\* How many of the argument slots hold a field.
LEMMA SlotsFilled ==
    ASSUME NEW c \in Nat, NEW m \in Nat
    PROVE  /\ Cardinality({k \in 1 .. m : k <= c}) = Min({c, m})
           /\ Min({c, m}) \in Nat /\ Min({c, m}) <= c /\ Min({c, m}) <= m
           /\ \A k \in 1 .. Min({c, m}) : k \in 1 .. c /\ k \in 1 .. m
           /\ \A k \in Min({c, m}) + 1 .. m : ~(k <= c) /\ k \in 1 .. m
<1> DEFINE d == Min({c, m})
<1>1. d = IF c <= m THEN c ELSE m
  <2>1. CASE c <= m
    BY <2>1, MinOnly
  <2>2. CASE ~(c <= m)
    BY <2>2, MinOnly
  <2> QED
    BY <2>1, <2>2
<1> HIDE DEF d
<1>2. d \in Nat /\ d <= c /\ d <= m /\ (d = c \/ d = m)
  BY <1>1
<1>3. {k \in 1 .. m : k <= c} = 1 .. d
  BY <1>2
<1>4. Cardinality(1 .. d) = d
  BY <1>2, FS_Interval
<1>5. /\ \A k \in 1 .. d : k \in 1 .. c /\ k \in 1 .. m
      /\ \A k \in d + 1 .. m : ~(k <= c) /\ k \in 1 .. m
  BY <1>2
<1> QED
  BY <1>2, <1>3, <1>4, <1>5 DEF d

\* setup_stack_args lays the arguments of a line that fits.
LEMMA ArgsAreLaid ==
    ASSUME NEW m, NEW chars, Fits(chars)
    PROVE  /\ setup_stack_args(m, chars, USER_SP).sp = StackPtr(chars)
           /\ ArgsLaid(setup_stack_args(m, chars, USER_SP).mem, chars)
<1> DEFINE S == Begins(chars)
           c == Cardinality(S)
           n == Len(chars)
           len == RoundUp(n + 1)
           b == Base(chars)
           s == StackPtr(chars)
           t == Tokens(Padded(chars))
           args == [k \in 1 .. MAXARGS |-> IF t.toks[k] = NULL THEN NULL ELSE b + t.toks[k] - 1]
           argc == Cardinality({k \in 1 .. MAXARGS : t.toks[k] # NULL})
           stack == <<argc>> \o args \o t.str
           x == setup_stack_args(m, chars, USER_SP).mem
<1>1. /\ setup_stack_args(m, chars, USER_SP).sp = s
      /\ x = [a \in Addresses |-> IF a \in s .. USER_SP - 1 THEN stack[a - s + 1] ELSE m[a]]
  BY DEF setup_stack_args, StackPtr, Base, Padded
<1>2. /\ n \in Nat /\ len \in Nat /\ len >= n + 1 /\ MAXARGS \in Nat /\ b \in Nat /\ s \in Nat
      /\ b = s + MAXARGS + 1 /\ b + len = USER_SP /\ chars \in Strings
  BY RoomIs DEF Fits
<1>3. c \in Nat /\ S \in SUBSET Nat /\ S \in SUBSET (1 .. n) /\ IsFiniteSet(S)
  BY <1>2, BeginsIs
<1>4. Len(Padded(chars)) = len
  BY <1>2, PaddedIs
<1>5. /\ \A j \in 1 .. MAXARGS + 1 : t.toks[j] = IF j <= c THEN Nth(S, j) ELSE NULL
      /\ t.str \in Seq(Nat) /\ Len(t.str) = len
      /\ \A y \in 1 .. n : chars[y] # Blank => t.str[y] = chars[y]
      /\ \A j \in 1 .. MAXARGS + 1 : j <= c => t.str[Stops(chars, Nth(S, j)) + 1] = NULL
  <2>1. TokState(t, chars, MAXARGS + 1)
    BY <1>2, TokensDone
  <2> HIDE DEF t
  <2> QED
    BY <1>4, <2>1 DEF TokState
<1>6. \A j \in 1 .. c : Nth(S, j) \in S /\ Nth(S, j) \in 1 .. n /\ Nth(S, j) \in Nat /\ Nth(S, j) # NULL
  <2>1. \A j \in 1 .. c : Nth(S, j) \in S
    BY <1>3, NthIs
  <2>2. \A i \in S : i \in 1 .. n /\ i \in Nat /\ i # NULL
    BY <1>2, <1>3 DEF NULL
  <2> QED
    BY <2>1, <2>2
<1>7. USER_SP \in Nat
  BY LayoutAssumption
<1> HIDE DEF S, c, n, len, b, s, t
\* The slots.
<1>8. \A j \in 1 .. MAXARGS : /\ (t.toks[j] # NULL <=> j <= c)
                              /\ t.toks[j] = IF j <= c THEN Nth(S, j) ELSE NULL
  <2>1. \A j \in 1 .. MAXARGS : j \in 1 .. MAXARGS + 1 /\ (j <= c => j \in 1 .. c)
    BY <1>2, <1>3
  <2> QED
    BY <1>5, <1>6, <2>1
<1>9. argc = Min({c, MAXARGS}) /\ argc \in Nat
  <2>1. {k \in 1 .. MAXARGS : t.toks[k] # NULL} = {k \in 1 .. MAXARGS : k <= c}
    BY <1>8
  <2>2. argc = Cardinality({k \in 1 .. MAXARGS : k <= c})
    BY <2>1
  <2> HIDE DEF argc
  <2>3. /\ Cardinality({k \in 1 .. MAXARGS : k <= c}) = Min({c, MAXARGS})
        /\ Min({c, MAXARGS}) \in Nat
    BY <1>2, <1>3, SlotsFilled
  <2> QED
    BY <2>2, <2>3
<1>10. \A k \in 1 .. MAXARGS : args[k] = IF k <= c THEN b + Nth(S, k) - 1 ELSE NULL
  BY <1>8
<1>11. args \in Seq(Nat) /\ Len(args) = MAXARGS
  <2>1. \A k \in 1 .. MAXARGS : args[k] \in Nat
    <3> SUFFICES ASSUME NEW k \in 1 .. MAXARGS PROVE args[k] \in Nat
      OBVIOUS
    <3>1. CASE k <= c
      <4>1. k \in 1 .. c
        BY <1>2, <1>3, <3>1
      <4>2. Nth(S, k) \in 1 .. n
        BY <1>6, <4>1
      <4>3. b + Nth(S, k) - 1 \in Nat
        BY <1>2, <4>2
      <4> QED
        BY <1>10, <3>1, <4>3
    <3>2. CASE ~(k <= c)
      BY <1>10, <3>2 DEF NULL
    <3> QED
      BY <3>1, <3>2
  <2>2. args = [k \in 1 .. MAXARGS |-> args[k]]
    OBVIOUS
  <2> HIDE DEF args
  <2> QED
    BY <1>2, <2>1, <2>2
\* The stack.
<1> HIDE DEF args, argc, x
<1>12. /\ stack[1] = argc /\ (\A j \in 1 .. MAXARGS : stack[1 + j] = args[j])
       /\ \A y \in 1 .. len : stack[1 + MAXARGS + y] = t.str[y]
  <2> DEFINE str == t.str
  <2>1. str \in Seq(Nat) /\ Len(str) = len
    BY <1>5
  <2>2. stack = <<argc>> \o args \o str
    OBVIOUS
  <2> HIDE DEF str, stack
  <2>3. /\ stack[1] = argc /\ (\A j \in 1 .. Len(args) : stack[1 + j] = args[j])
        /\ \A y \in 1 .. Len(str) : stack[1 + Len(args) + y] = str[y]
    BY <1>9, <1>11, <2>1, <2>2, StackIs, SMTT(30)
  <2> QED
    BY <1>11, <2>1, <2>3 DEF str
<1> HIDE DEF stack
<1>13. \A a \in Addresses : a \in s .. USER_SP - 1 => x[a] = stack[a - s + 1]
  BY <1>1
<1>14. x[s] = argc
  <2>1. s \in Addresses /\ s \in s .. USER_SP - 1 /\ s - s + 1 = 1
    BY <1>2, <1>7, RoomIs, SMTT(30) DEF s
  <2>2. x[s] = stack[s - s + 1]
    BY <1>13, <2>1
  <2> QED
    BY <1>12, <2>1, <2>2
<1>15. \A k \in 1 .. MAXARGS : x[s + k] = args[k]
  <2> TAKE k \in 1 .. MAXARGS
  <2> DEFINE a == s + k
  <2>1. a \in Addresses
    BY RoomIs DEF s
  <2>2. a \in s .. USER_SP - 1 /\ a - s + 1 = 1 + k
    BY <1>2, <1>7
  <2> HIDE DEF a
  <2>3. x[a] = stack[1 + k]
    BY <1>13, <2>1, <2>2
  <2> QED
    BY <1>12, <2>3 DEF a
<1>16. \A y \in 1 .. n + 1 : x[b + y - 1] = t.str[y]
  <2> TAKE y \in 1 .. n + 1
  <2> DEFINE a == b + y - 1
             d == y - 1
  <2>1. a = b + d /\ d \in 0 .. n
    BY <1>2
  <2>2. a \in s .. USER_SP - 1 /\ a - s + 1 = 1 + MAXARGS + y /\ y \in 1 .. len
    BY <1>2, <1>7
  <2> HIDE DEF a, d
  <2>3. a \in Addresses
    BY <2>1, RoomIs DEF b, n
  <2>4. x[a] = stack[1 + MAXARGS + y]
    BY <1>13, <2>2, <2>3
  <2> QED
    BY <1>12, <2>2, <2>4 DEF a
<1>17. \A y \in 1 .. n : chars[y] # Blank => x[b + y - 1] = chars[y]
  <2>1. \A y \in 1 .. n : y \in 1 .. n + 1
    BY <1>2
  <2> QED
    BY <1>5, <1>16, <2>1
<1>18. \A k \in 1 .. MAXARGS : k <= c => x[b + Stops(chars, Nth(S, k))] = NULL
  <2> SUFFICES ASSUME NEW k \in 1 .. MAXARGS, k <= c PROVE x[b + Stops(chars, Nth(S, k))] = NULL
    OBVIOUS
  <2> DEFINE e == Stops(chars, Nth(S, k))
             y == e + 1
  <2>1. k \in 1 .. c /\ k \in 1 .. MAXARGS + 1
    BY <1>2, <1>3
  <2>2. Nth(S, k) \in S
    BY <1>6, <2>1
  <2>3. e \in Nth(S, k) .. n /\ e \in Nat
    BY <1>2, <2>2, StopsIs DEF S, n
  <2>4. t.str[y] = NULL
    BY <1>5, <2>1
  <2> HIDE DEF e
  <2>5. y \in 1 .. n + 1 /\ b + y - 1 = b + e
    BY <1>2, <2>3
  <2> HIDE DEF y
  <2>6. x[b + e] = NULL
    BY <1>16, <2>4, <2>5
  <2> QED
    BY <2>6 DEF e
<1>19. ArgsLaid(x, chars)
  BY <1>9, <1>10, <1>14, <1>15, <1>17, <1>18 DEF ArgsLaid, S, c, n, b, s
<1> QED
  BY <1>1, <1>19 DEF x, s

\* A load that leaves the addresses from the stack pointer up alone keeps them.
LEMMA ArgsStay ==
    ASSUME NEW chars, Fits(chars), NEW x, ArgsLaid(x, chars), NEW y,
           \A a \in Addresses : a >= StackPtr(chars) => y[a] = x[a]
    PROVE  ArgsLaid(y, chars)
<1> DEFINE S == Begins(chars)
           c == Cardinality(S)
           n == Len(chars)
           b == Base(chars)
           s == StackPtr(chars)
<1>1. /\ n \in Nat /\ MAXARGS \in Nat /\ b \in Nat /\ s \in Nat /\ s \in Addresses
      /\ b = s + MAXARGS + 1 /\ (\A k \in 1 .. MAXARGS : s + k \in Addresses)
      /\ \A d \in 0 .. n : b + d \in Addresses
  BY RoomIs
<1>2. c \in Nat /\ S \in SUBSET Nat /\ IsFiniteSet(S) /\ chars \in Strings
  BY BeginsIs DEF Fits
<1>3. /\ x[s] = Min({c, MAXARGS})
      /\ \A k \in 1 .. MAXARGS : x[s + k] = IF k <= c THEN b + Nth(S, k) - 1 ELSE NULL
      /\ \A z \in 1 .. n : chars[z] # Blank => x[b + z - 1] = chars[z]
      /\ \A k \in 1 .. MAXARGS : k <= c => x[b + Stops(chars, Nth(S, k))] = NULL
  BY DEF ArgsLaid
<1> HIDE DEF S, c, n, b, s
<1>4. \A a \in Addresses : a >= s => y[a] = x[a]
  BY DEF s
<1>5. s >= s /\ (\A k \in 1 .. MAXARGS : s + k >= s) /\ \A d \in 0 .. n : b + d >= s
  BY <1>1
<1>6. y[s] = x[s] /\ (\A k \in 1 .. MAXARGS : y[s + k] = x[s + k]) /\ \A d \in 0 .. n : y[b + d] = x[b + d]
  BY <1>1, <1>4, <1>5
<1>7. \A z \in 1 .. n : y[b + z - 1] = x[b + z - 1]
  <2>1. \A z \in 1 .. n : z - 1 \in 0 .. n /\ b + z - 1 = b + (z - 1)
    BY <1>1
  <2> QED
    BY <1>6, <2>1
<1>8. \A k \in 1 .. MAXARGS : k <= c => Stops(chars, Nth(S, k)) \in 0 .. n
  <2> SUFFICES ASSUME NEW k \in 1 .. MAXARGS, k <= c PROVE Stops(chars, Nth(S, k)) \in 0 .. n
    OBVIOUS
  <2>1. k \in 1 .. c
    BY <1>1, <1>2
  <2>2. Nth(S, k) \in S
    BY <1>2, <2>1, NthIs DEF c
  <2>3. Stops(chars, Nth(S, k)) \in Nat /\ Stops(chars, Nth(S, k)) \in Nth(S, k) .. n
    BY <1>2, <2>2, StopsIs DEF S, n
  <2>4. Nth(S, k) \in Nat
    BY <1>2, <2>2
  <2> QED
    BY <1>1, <2>3, <2>4
<1>9. ArgsLaid(y, chars)
  BY <1>3, <1>6, <1>7, <1>8 DEF ArgsLaid, S, c, n, b, s
<1> QED
  BY <1>9

\* The string a pointer leads to is the field.
LEMMA PointsAtField ==
    ASSUME NEW chars, Fits(chars), NEW x, ArgsLaid(x, chars), NEW k \in 1 .. MAXARGS,
           k <= Cardinality(Begins(chars))
    PROVE  StringAt(x, x[StackPtr(chars) + k]) = Fields(chars)[k]
<1> DEFINE S == Begins(chars)
           c == Cardinality(S)
           n == Len(chars)
           b == Base(chars)
           i == Nth(S, k)
           e == Stops(chars, i)
           a == b + i - 1
           h == b + e
           E == {z \in a .. USER_SP - 1 : x[z] = NULL}
<1>1. n \in Nat /\ MAXARGS \in Nat /\ b \in Nat /\ b + n < USER_SP /\ USER_SP \in Nat
  BY RoomIs, LayoutAssumption
<1>2. c \in Nat /\ S \in SUBSET Nat /\ S \in SUBSET (1 .. n) /\ IsFiniteSet(S) /\ chars \in Strings
  BY BeginsIs DEF Fits
<1>3. k \in 1 .. c
  BY <1>1, <1>2
<1>4. i \in S /\ i \in 1 .. n /\ i \in Nat
  BY <1>2, <1>3, NthIs
<1>5. e \in i .. n /\ e \in Nat /\ \A z \in i .. e : chars[z] # Blank
  BY <1>2, <1>4, StopsIs
<1>6. \A z \in 1 .. n : chars[z] # NULL
  BY <1>2, PaddedIs
<1>7. /\ x[StackPtr(chars) + k] = a /\ x[h] = NULL
      /\ \A z \in 1 .. n : chars[z] # Blank => x[b + z - 1] = chars[z]
  BY DEF ArgsLaid
<1>8. Fields(chars)[k] = SubSeq(chars, i, e)
  BY <1>3 DEF Fields
<1> HIDE DEF S, c, n, b, i, e
<1>9. \A z \in i .. e : x[b + z - 1] = chars[z] /\ x[b + z - 1] # NULL
  <2>1. \A z \in i .. e : z \in 1 .. n
    BY <1>1, <1>4, <1>5
  <2> QED
    BY <1>5, <1>6, <1>7, <2>1
<1>10. Min(E) = h
  <2>1. h \in a .. USER_SP - 1 /\ h \in Nat /\ a \in Nat
    BY <1>1, <1>4, <1>5
  <2>2. E \in SUBSET Nat
    BY <1>1, <2>1
  <2>3. ASSUME NEW z \in E, ~(h <= z) PROVE FALSE
    <3> DEFINE y == z - b + 1
    <3>1. z \in a .. USER_SP - 1 /\ x[z] = NULL
      BY <2>3
    <3>2. y \in i .. e /\ b + y - 1 = z
      BY <1>1, <1>4, <1>5, <2>1, <2>3, <3>1
    <3> HIDE DEF y
    <3> QED
      BY <1>9, <3>1, <3>2
  <2>4. h \in E
    BY <1>7, <2>1
  <2> HIDE DEF E, h
  <2> QED
    BY <2>2, <2>3, <2>4, MinOnly
<1>11. StringAt(x, a) = [j \in 1 .. h - a |-> x[a + j - 1]]
  BY <1>10 DEF StringAt
<1>12. h - a = e - i + 1
  BY <1>1, <1>4, <1>5
<1>13. \A j \in 1 .. e - i + 1 : x[a + j - 1] = chars[i + j - 1]
  <2> TAKE j \in 1 .. e - i + 1
  <2> DEFINE z == i + j - 1
  <2>1. z \in i .. e /\ a + j - 1 = b + z - 1
    BY <1>1, <1>4, <1>5
  <2> HIDE DEF z, a
  <2>2. x[a + j - 1] = chars[z]
    BY <1>9, <2>1
  <2> QED
    BY <2>2 DEF z
<1>14. SubSeq(chars, i, e) = [j \in 1 .. e - i + 1 |-> chars[i + j - 1]]
  <2>1. chars \in Seq(Nat \ {0}) /\ i \in Int /\ e \in Int
    BY <1>2, <1>4, <1>5 DEF Strings, NULL
  <2> QED
    BY <2>1
<1>15. [j \in 1 .. h - a |-> x[a + j - 1]] = [j \in 1 .. e - i + 1 |-> chars[i + j - 1]]
  <2> HIDE DEF h, a
  <2> QED
    BY <1>12, <1>13
<1> QED
  BY <1>7, <1>8, <1>11, <1>14, <1>15

\* What a program with this line is to find at its stack pointer.
Delivered(x, chars, stack) ==
    LET n == Min({Len(Fields(chars)), MAXARGS})
    IN  /\ stack % Align = 0
        /\ x[stack] = n
        /\ \A k \in 1 .. n : StringAt(x, x[stack + k]) = Fields(chars)[k]
        /\ \A k \in n + 1 .. MAXARGS : x[stack + k] = NULL

LEMMA LaidIsDelivered ==
    ASSUME NEW chars, Fits(chars), NEW x, ArgsLaid(x, chars)
    PROVE  Delivered(x, chars, StackPtr(chars))
<1> DEFINE c == Cardinality(Begins(chars))
           s == StackPtr(chars)
           d == Min({c, MAXARGS})
<1>1. c \in Nat /\ MAXARGS \in Nat
  BY BeginsIs, RoomIs DEF Fits
<1>2. Len(Fields(chars)) = c
  BY <1>1 DEF Fields
<1>3. s % Align = 0
  <2> DEFINE len == RoundUp(Len(chars) + 1)
             g == MAXARGS + 1
             u == USER_SP - len
             m == Len(chars) + 1
  <2>1. /\ Align \in Nat \ {0} /\ USER_SP \in Int /\ USER_SP % Align = 0
        /\ g \in Int /\ g % Align = 0
    BY LayoutAssumption
  <2>2. Len(chars) \in Nat
    BY RoomIs
  <2>3. m \in Nat
    BY <2>2
  <2>4. len \in Int /\ len % Align = 0
    <3>1. RoundUp(m) \in Nat /\ RoundUp(m) % Align = 0
      <4> HIDE DEF m
      <4> QED
        BY <2>3, RoundedUp
    <3> QED
      BY <3>1
  <2> HIDE DEF len, g, m
  <2>5. (USER_SP - len) % Align = 0
    BY <2>1, <2>4, Aligned
  <2>6. u % Align = 0 /\ u \in Int
    BY <2>1, <2>4, <2>5
  <2>7. s = u - g
    <3>1. s = USER_SP - len - MAXARGS - 1 /\ u = USER_SP - len /\ g = MAXARGS + 1
      BY DEF StackPtr, Base, len, g
    <3> HIDE DEF s, u
    <3> QED
      BY <1>1, <2>1, <2>4, <3>1
  <2> HIDE DEF u, s
  <2> QED
    BY <2>1, <2>6, <2>7, Aligned
<1>4. /\ d \in Nat /\ (\A k \in 1 .. d : k \in 1 .. c /\ k \in 1 .. MAXARGS)
      /\ \A k \in d + 1 .. MAXARGS : ~(k <= c) /\ k \in 1 .. MAXARGS
  <2> HIDE DEF c
  <2> QED
    BY <1>1, SlotsFilled
<1>5. x[s] = d
  BY DEF ArgsLaid
<1> HIDE DEF d
<1>6. \A k \in 1 .. d : StringAt(x, x[s + k]) = Fields(chars)[k]
  <2>1. \A k \in 1 .. d : k \in 1 .. MAXARGS /\ k <= c
    <3> HIDE DEF c
    <3> QED
      BY <1>1, <1>4
  <2> QED
    BY <2>1, PointsAtField
<1>7. \A k \in d + 1 .. MAXARGS : x[s + k] = NULL
  BY <1>4 DEF ArgsLaid
<1>8. Min({Len(Fields(chars)), MAXARGS}) = d
  BY <1>2 DEF d
<1> HIDE DEF s
<1> QED
  BY <1>3, <1>5, <1>6, <1>7, <1>8 DEF Delivered, s

\* Loading a proper program leaves the arguments above it alone.
LEMMA LoadSpares ==
    ASSUME NEW img \in Images, NEW stack \in Int, Proper(img, stack), NEW m
    PROVE  \A a \in Addresses : a >= stack => LoadSegments(m, img, stack)[a] = m[a]
<1> SUFFICES ASSUME NEW a \in Addresses, a >= stack PROVE LoadSegments(m, img, stack)[a] = m[a]
  OBVIOUS
<1> DEFINE clear == Cleared(m, stack)
           x == Segments(clear, img)
<1>1. a \in Int
  BY LayoutAssumption DEF Addresses
<1>2. clear[a] = m[a]
  BY <1>1 DEF Cleared
<1>3. LoadSegments(m, img, stack) = x
  BY DEF LoadSegments
<1> HIDE DEF clear
<1>4. Placed(img, x, clear, Len(img.phdr))
  BY SegmentsPlaced
<1> HIDE DEF x
<1>5. \A i \in Loads(img) : a \notin FromFile(img.phdr[i])
  <2> SUFFICES ASSUME NEW i \in Loads(img), a \in FromFile(img.phdr[i]) PROVE FALSE
    OBVIOUS
  <2>1. a \in Extent(img.phdr[i])
    BY Apart
  <2>2. img.phdr[i].paddr + img.phdr[i].memsz <= stack
    BY DEF Proper
  <2>3. img.phdr[i].paddr \in Nat /\ img.phdr[i].memsz \in Nat
    <3>1. \A j \in DOMAIN img.phdr : img.phdr[j] \in Headers
      BY DEF Images
    <3> QED
      BY <3>1 DEF Loads, Headers
  <2> QED
    BY <1>1, <2>1, <2>2, <2>3 DEF Extent
<1>6. x[a] = clear[a]
  BY <1>4, <1>5 DEF Placed
<1> QED
  BY <1>2, <1>3, <1>6

\* A program that starts with its arguments laid finds them.
LEMMA StartsWithArgs ==
    ASSUME NEW img, NEW chars, Fits(chars), NEW m, Starts(img, chars, m, StackPtr(chars)),
           Proper(img, StackPtr(chars)) => ArgsLaid(m, chars)
    PROVE  ArgsDelivered'
<1>1. mem' = m /\ image' = img /\ line' = chars /\ start' = StackPtr(chars)
  BY DEF Starts, Replaces
<1>2. Proper(img, StackPtr(chars)) => Delivered(m, chars, StackPtr(chars))
  BY LaidIsDelivered
<1> HIDE DEF StackPtr
<1> QED
  BY <1>1, <1>2 DEF ArgsDelivered, Delivered

LEMMA ArgsStep == LinesFit /\ ArgsDelivered /\ [Next]_vars => ArgsDelivered'
<1> SUFFICES ASSUME LinesFit, ArgsDelivered, [Next]_vars PROVE ArgsDelivered'
  OBVIOUS
<1>1. ASSUME fresh' = FALSE PROVE ArgsDelivered'
  BY <1>1 DEF ArgsDelivered
<1>2. Fits(Cold) /\ Fits(Warm) /\ \A l \in Lines : Fits(l)
  BY DEF LinesFit
<1>3. ASSUME NEW img \in Images, NEW chars, Fits(chars), NEW s,
             s = setup_stack_args(mem, chars, USER_SP).sp,
             NEW l, l = elf_load_fd(setup_stack_args(mem, chars, USER_SP).mem, img, s), l.ok,
             Starts(img, chars, l.mem, s)
      PROVE  ArgsDelivered'
  <2> DEFINE m == setup_stack_args(mem, chars, USER_SP).mem
  <2>1. s = StackPtr(chars) /\ ArgsLaid(m, chars) /\ s \in Int
    BY <1>3, ArgsAreLaid, RoomIs
  <2>2. l.mem = LoadSegments(m, img, s)
    BY <1>3 DEF elf_load_fd
  <2> HIDE DEF m
  <2>3. ASSUME Proper(img, s) PROVE ArgsLaid(l.mem, chars)
    <3>1. \A a \in Addresses : a >= s => l.mem[a] = m[a]
      BY <2>1, <2>2, <2>3, LoadSpares
    <3> QED
      BY <1>3, <2>1, <3>1, ArgsStay
  <2> QED
    BY <1>3, <2>1, <2>3, StartsWithArgs
<1>4. CASE elf_boot
  <2>1. PICK flash \in Flashes :
          LET l == elf_load_fd(mem, flash, USER_SP)
              args == setup_stack_args(l.mem, Cold, USER_SP)
          IN  \/ l.ok /\ Starts(flash, Cold, args.mem, args.sp)
              \/ ~l.ok /\ ToShell(l.mem, flash)
    BY <1>4 DEF elf_boot
  <2> DEFINE l == elf_load_fd(mem, flash, USER_SP)
             args == setup_stack_args(l.mem, Cold, USER_SP)
  <2>2. CASE Starts(flash, Cold, args.mem, args.sp)
    <3> HIDE DEF l
    <3>1. args.sp = StackPtr(Cold) /\ ArgsLaid(args.mem, Cold)
      BY <1>2, ArgsAreLaid
    <3> HIDE DEF args
    <3> QED
      BY <1>2, <2>2, <3>1, StartsWithArgs
  <2>3. CASE ToShell(l.mem, flash)
    BY <1>1, <2>3 DEF ToShell
  <2> QED
    BY <2>1, <2>2, <2>3
<1>5. CASE LoadInit
  <2> DEFINE args == setup_stack_args(mem, Warm, USER_SP)
  <2>1. ASSUME NEW m, NEW img, ToShell(m, img) PROVE ArgsDelivered'
    BY <1>1, <2>1 DEF ToShell
  <2>2. ASSUME NEW flash \in Flashes \cup {NoProgram}, elf_load_fd(args.mem, flash, args.sp).ok,
               Starts(flash, Warm, elf_load_fd(args.mem, flash, args.sp).mem, args.sp)
        PROVE  ArgsDelivered'
    <3>1. flash \in Images
      BY InputAssumption, NoProgramIs
    <3> QED
      BY <1>2, <1>3, <2>2, <3>1
  <2> QED
    BY <1>5, <2>1, <2>2 DEF LoadInit
<1>6. ASSUME NEW chars \in Lines, elf_run(chars) PROVE ArgsDelivered'
  <2> DEFINE args == setup_stack_args(mem, chars, USER_SP)
             name == StringAt(args.mem, args.filename)
             l == elf_load(args.mem, name, args.sp)
  <2>1. CASE l.ok /\ Starts(File(name), chars, l.mem, args.sp)
    <3>1. l = elf_load_fd(args.mem, File(name), args.sp)
      BY DEF elf_load
    <3>2. File(name) \in Images
      BY FilesAre
    <3> QED
      BY <1>2, <1>3, <2>1, <3>1, <3>2
  <2>2. CASE fresh' = FALSE
    BY <1>1, <2>2
  <2> QED
    BY <1>6, <2>1, <2>2 DEF elf_run
<1>7. CASE Trap \/ setup_malloc \/ (\E d \in Depths : MoveStack(d)) \/ \E i \in Increments : sbrk(i)
  BY <1>1, <1>7 DEF Trap, setup_malloc, MoveStack, sbrk
<1>8. CASE ShellReturn \/ UNCHANGED vars
  BY <1>8 DEF ShellReturn, vars, control, ArgsDelivered
<1> QED
  BY <1>4, <1>5, <1>6, <1>7, <1>8 DEF Next, SYS_exit, super_boot

\* Every program, whatever ran or failed to run before it, starts with its image
\* as its file has it and, through argc and the pointers above it, with the first
\* MAXARGS fields of its command line: the clearing and the segments of
\* elf_load_fd have not touched what setup_stack_args wrote.
THEOREM ProgramsStartAsAsked == LinesFit /\ Spec => []StartsAsAsked
<1> DEFINE Inv == LinesFit /\ ArgsDelivered
<1>1. LinesFit /\ Init => Inv
  BY DEF Init, ArgsDelivered
<1>2. Inv /\ [Next]_vars => Inv'
  <2>1. LinesFit => LinesFit'
    BY DEF LinesFit, Fits, StackPtr, Base, Strings, RoundUp, NULL
  <2> QED
    BY <2>1, ArgsStep
<1>3. Inv /\ ImageLoaded => StartsAsAsked
  BY DEF StartsAsAsked
<1> HIDE DEF Inv
<1> QED
  BY <1>1, <1>2, <1>3, ImageIsLoaded, PTL DEF Spec
=============================================================================
