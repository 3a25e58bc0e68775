----------------------------- MODULE InitProgram -----------------------------
(***************************************************************************)
(* The init program: the boot script after a cold start (main.c,           *)
(* conffile.c), the command line (cli.c) and the settings of the network   *)
(* hardware (configure.c, with the ioctls of raw_econet.c and the register *)
(* of econet_hwctl.v), over several starts of init.                        *)
(*                                                                         *)
(* A line is the number of its leading blanks and its words.  A 16-bit     *)
(* word is the set of its one bits.                                        *)
(***************************************************************************)
EXTENDS Ranks, Sequences

CONSTANTS
    Script,         \* the lines of boot.rc
    Typed,          \* lines the operator types
    Hashes,         \* words whose first character is #
    ProgramNames,   \* words that name a program that can be loaded
    atoi,           \* the number in a word, 0 for a word that is none
    MAX_FILE_DESCRIPTORS,
    MaxTyped        \* lines that are typed

CommandLines == [lead : Nat, words : Seq(STRING)]

ASSUME InitAssumption ==
    /\ MAX_FILE_DESCRIPTORS \in Nat /\ MAX_FILE_DESCRIPTORS >= 6
    /\ Script \in Seq(CommandLines) /\ Typed \subseteq CommandLines

VARIABLES
    econet_address, \* raw_econet.c
    econet_clkterm, \* the register
    open,           \* descriptors in use
    left,           \* how many of them a program left that runs no more
    at,             \* "start", "script", "prompt" or "program"
    warm,           \* the argument of init
    next,           \* the next line of the script
    done,           \* history: the commands that were carried out of the script
    wanted,         \* history: the settings that were asked for
    typedLines

initvars == <<econet_address, econet_clkterm, open, left, at, warm, next, done, wanted, typedLines>>

-----------------------------------------------------------------------------
(* The hardware's settings *)

CLOCK_ENABLE == {0}
TERM_ENABLE == {1}
RegisterBits == {0, 1, 8, 9, 10}

BitsOf(n) == {b \in 0 .. 7 : (n \div 2^b) % 2 = 1}
ShiftedBy8(n) == {b + 8 : b \in BitsOf(n)}

(* What an ioctl changes, and the descriptor it is made on. *)
State == [addr |-> econet_address, reg |-> econet_clkterm, fds |-> open]
Opened(s) == [s EXCEPT !.fds = @ + 1]
Closed(s) == [s EXCEPT !.fds = @ - 1]
econet_set_clkterm(s, w) == [s EXCEPT !.reg = w \cap RegisterBits]

cfg_station(s, argv) ==
    LET station == atoi[argv[2]] % 256
    IN  IF Len(argv) = 1 \/ station = 0 THEN s ELSE [s EXCEPT !.addr = station]

(* Mutant: the old divider is not masked out. *)
DividerOred(s, argv) ==
    LET enabled == IF Len(argv) > 2 /\ argv[3] = "enable" THEN s.reg \cup CLOCK_ENABLE
                                                           ELSE s.reg \ CLOCK_ENABLE
    IN  IF Len(argv) = 1 \/ atoi[argv[2]] \notin 1 .. 7 THEN s
        ELSE econet_set_clkterm(s, enabled \cup ShiftedBy8(atoi[argv[2]]))

(* The clock runs when "enable" follows the divider, and stops otherwise.  *)
(* Nothing is set with a divider out of range.                             *)
cfg_netclock(s, argv) ==
    LET enabled == IF Len(argv) > 2 /\ argv[3] = "enable" THEN s.reg \cup CLOCK_ENABLE
                                                           ELSE s.reg \ CLOCK_ENABLE
    IN  IF Len(argv) = 1 \/ atoi[argv[2]] \notin 1 .. 7 THEN s
        ELSE econet_set_clkterm(s, (enabled \cap (0 .. 7)) \cup ShiftedBy8(atoi[argv[2]]))

cfg_netterminate(s, argv) ==
    IF Len(argv) = 1 THEN s
    ELSE econet_set_clkterm(s, IF argv[2] = "on" THEN s.reg \cup TERM_ENABLE ELSE s.reg \ TERM_ENABLE)

(* Each of the three opens the device first and closes it at the end;      *)
(* after is what it has done meanwhile.                                    *)
WithDevice(s, after) == IF s.fds = MAX_FILE_DESCRIPTORS THEN s ELSE Closed(after)

i_configure(s, argv) ==
    CASE Len(argv) < 2 -> s
      [] Len(argv) >= 2 /\ argv[2] = "netstation" -> WithDevice(s, cfg_station(Opened(s), Tail(argv)))
      [] Len(argv) >= 2 /\ argv[2] = "netclock" -> WithDevice(s, cfg_netclock(Opened(s), Tail(argv)))
      [] Len(argv) >= 2 /\ argv[2] = "netterminate" -> WithDevice(s, cfg_netterminate(Opened(s), Tail(argv)))
      [] OTHER -> s

-----------------------------------------------------------------------------
(* Command lines *)

Internal == {"ebreak", "rx", "hexdump", "ls", "configure", "mkdir", "cd", "rm", "poke", "peek"}

(* parse_cmd passes the size of a pointer, so that a line with four blanks *)
(* or more in front is taken for an empty one.                             *)
PointerSize == 4
clean_cmdbuf(l) == IF l.lead >= PointerSize THEN <<>> ELSE l.words

comment(words) == words[1] \in Hashes

(* hexdump, and rx, close the file they open. *)
i_hexdump(s, argv) ==
    IF Len(argv) # 2 \/ s.fds = MAX_FILE_DESCRIPTORS THEN s ELSE Closed(Opened(s))

(* The other commands leave settings and descriptors as they were. *)
run_internal_command(s, argv) ==
    CASE argv[1] = "configure" -> i_configure(s, argv)
      [] argv[1] \in {"hexdump", "rx"} -> i_hexdump(s, argv)
      [] OTHER -> s

(* Commands that go to the volume, where FatFs mounts it if it is not.     *)
UsesVolume(argv) ==
    \/ argv[1] \in {"hexdump", "rx", "mkdir", "cd", "rm"} /\ Len(argv) = 2
    \/ argv[1] = "ls"
    \/ argv[1] \notin Internal

(* Mutant: comments are commands. *)
NoComments(l) ==
    LET argv == clean_cmdbuf(l) IN IF argv = <<>> THEN <<>> ELSE <<argv>>

(* The command in a line, if there is one. *)
Command(l) ==
    LET argv == clean_cmdbuf(l)
    IN  IF argv = <<>> THEN <<>> ELSE IF comment(argv) THEN <<>> ELSE <<argv>>

(* Whether n open descriptors include the one the file system has on the   *)
(* flash.                                                                  *)
Mounted(n) == n - left - (IF at = "script" THEN 1 ELSE 0) = 4

(* A name that is no program's, or no descriptor for its file, is reported *)
(* and init goes on.                                                       *)
Execs(argv) ==
    /\ argv[1] \notin Internal /\ argv[1] \in ProgramNames
    /\ open' < MAX_FILE_DESCRIPTORS /\ Mounted(open')

(* What a line does to the settings and to init's descriptors.  The flash  *)
(* may hold no volume.                                                     *)
parse_cmd(l) ==
    LET c == Command(l)
        s == IF c # <<>> /\ c[1][1] \in Internal THEN run_internal_command(State, c[1]) ELSE State
        mounts == c # <<>> /\ UsesVolume(c[1]) /\ ~Mounted(open)
    IN  /\ econet_address' = s.addr /\ econet_clkterm' = s.reg
        /\ open' \in IF mounts THEN {s.fds, s.fds + 1} ELSE {s.fds}

-----------------------------------------------------------------------------
(* What the operator asks for, for the properties: the settings of a       *)
(* command that is accepted.                                               *)
Ask(w, argv) ==
    LET item == argv[2]
        n == atoi[argv[3]]
    IN  CASE item = "netstation" /\ n % 256 # 0 -> [w EXCEPT !.station = n % 256]
          [] item = "netclock" /\ n \in 1 .. 7 ->
                [w EXCEPT !.div = n, !.clock = (Len(argv) > 3 /\ argv[4] = "enable")]
          [] item = "netterminate" -> [w EXCEPT !.term = (argv[3] = "on")]
          [] OTHER -> w

Wanted(l) ==
    LET c == Command(l)
    IN  IF c # <<>> /\ c[1][1] = "configure" /\ Len(c[1]) > 2 /\ open < MAX_FILE_DESCRIPTORS
        THEN Ask(wanted, c[1]) ELSE wanted

-----------------------------------------------------------------------------
(* Power-up: nothing is set, the divider is 7 and stdio is open. *)
InitProgramInit ==
    /\ econet_address = 0 /\ econet_clkterm = {8, 9, 10}
    /\ open = 3 /\ left = 0 /\ at = "start" /\ warm = FALSE /\ next = 1
    /\ done = <<>> /\ wanted = [station |-> 0, div |-> 7, clock |-> FALSE, term |-> FALSE]
    /\ typedLines = 0

(* Mutant: the script is run after every start. *)
AnyStart == at = "start"

ColdStart == at = "start" /\ ~warm

settings == <<econet_address, econet_clkterm, wanted>>

(* main and run_script: the first call that needs the volume takes a       *)
(* descriptor for the flash; the flash may hold no volume, and that no     *)
(* script.                                                                 *)
run_script ==
    /\ ColdStart
    /\ \/ at' = "script" /\ open' = open + 2
       \/ at' = "prompt" /\ open' \in {open, open + 1}
    /\ open' <= MAX_FILE_DESCRIPTORS /\ next' = 1
    /\ UNCHANGED <<settings, left, warm, done, typedLines>>

WarmStart ==
    /\ at = "start" /\ warm /\ at' = "prompt"
    /\ UNCHANGED <<settings, open, left, warm, next, done, typedLines>>

(* A program takes init's place; what init has open stays open. *)
exec_elf(own) == at' = "program" /\ left' = left + own

(* fgets and parse_cmd. *)
ScriptLine ==
    /\ at = "script" /\ next <= Len(Script)
    /\ LET c == Command(Script[next])
       IN  /\ parse_cmd(Script[next])
           /\ done' = done \o c
           /\ IF c # <<>> /\ Execs(c[1]) THEN exec_elf(1) ELSE UNCHANGED <<at, left>>
    /\ next' = next + 1 /\ wanted' = Wanted(Script[next])
    /\ UNCHANGED <<warm, typedLines>>

ScriptEnd ==
    /\ at = "script" /\ next > Len(Script) /\ at' = "prompt" /\ open' = open - 1
    /\ UNCHANGED <<settings, left, warm, next, done, typedLines>>

(* cli reads a line. *)
cli(l) ==
    /\ at = "prompt" /\ typedLines < MaxTyped /\ typedLines' = typedLines + 1
    /\ parse_cmd(l) /\ wanted' = Wanted(l)
    /\ LET c == Command(l)
       IN  IF c # <<>> /\ Execs(c[1]) THEN exec_elf(0) ELSE UNCHANGED <<at, left>>
    /\ UNCHANGED <<warm, next, done>>

(* The program ends and the kernel loads init with the argument "warm".    *)
ProgramEnds ==
    /\ at = "program" /\ at' = "start" /\ warm' = TRUE
    /\ UNCHANGED <<settings, open, left, next, done, typedLines>>

InitProgramNext ==
    \/ run_script \/ WarmStart \/ ScriptLine \/ ScriptEnd \/ ProgramEnds
    \/ \E l \in Typed : cli(l)

InitProgramSpec == InitProgramInit /\ [][InitProgramNext]_initvars

-----------------------------------------------------------------------------
(* Properties *)

(* The station, the clock and the terminator are what was last asked of    *)
(* each, in whatever order they were set, from the script or the prompt:   *)
(* clock and terminator share a register that is read, changed and written *)
(* back.                                                                   *)
SettingsAgree ==
    /\ econet_address = wanted.station
    /\ econet_clkterm = ShiftedBy8(wanted.div)
                        \cup (IF wanted.clock THEN CLOCK_ENABLE ELSE {})
                        \cup (IF wanted.term THEN TERM_ENABLE ELSE {})

(* The commands of the script that are carried out are its first ones, in  *)
(* order and each once since power-up, and none behind the first program   *)
(* (a name of init's own commands is no program's); blank lines, comments  *)
(* and (because of PointerSize) lines far to the right are no commands.    *)
IsCommand(l) == l.words # <<>> /\ l.words[1] \notin Hashes /\ l.lead < PointerSize
CommandsOfScript == {i \in DOMAIN Script : IsCommand(Script[i])}

ScriptInOrder ==
    /\ Len(done) <= Cardinality(CommandsOfScript)
    /\ \A k \in DOMAIN done :
          /\ done[k] = Script[Nth(CommandsOfScript, k)].words
          /\ done[k][1] \in ProgramNames \ Internal => k = Len(done)

(* Init has everything closed that it opened when it waits for a command,  *)
(* but for the file system's descriptor and the script's, which stays open *)
(* for ever when the script ran a program; that happens once at most.      *)
ScriptLeftOnce ==
    /\ left <= 1
    /\ at = "prompt" => open - left \in {3, 4}

(* The script runs once, as far as it runs, and costs one descriptor at    *)
(* most.                                                                   *)
ScriptRunsOnce == ScriptInOrder /\ ScriptLeftOnce
=============================================================================
