-------------------------------- MODULE Shell --------------------------------
(***************************************************************************)
(* The debugging commands of the supervisor shell (super_shell.c,          *)
(* hexdump.c; init has the same ones in peekpoke.c) and printk, on a few   *)
(* bytes of memory.  A byte has CharBits bits, a half two bytes, a word    *)
(* four, and a hexadecimal field as many digits as it has.                 *)
(***************************************************************************)
EXTENDS Printf

CONSTANTS
    RamSize,        \* bytes of memory, at addresses from 0
    LineBytes,      \* bytes on a line of a hexdump (16)
    Glyph,          \* function from the printable byte values to characters
    Commands,       \* command lines, as sequences of words
    Messages        \* what printk is called with: the parts of a
                    \* specification, the argument and a star's argument

VARIABLES ram, printed
shellvars == <<ram, printed>>

Nothing == [what |-> "nothing"]

ShellInit ==
    /\ ram = [a \in 0 .. RamSize - 1 |-> 0]
    /\ printed = Nothing

-----------------------------------------------------------------------------
(* Only the first letter of the word counts. *)
Size(word) == CASE word[1] = "w" -> 4 [] word[1] = "h" -> 2 [] word[1] = "b" -> 1 [] OTHER -> 0
FieldDigits(bytes) == (bytes * CharBits) \div 4

(* Memory is little-endian. *)
Load(m, addr, size) ==
    FoldLeft(LAMBDA v, k : v * 2^CharBits + m[addr + size - k], 0, [k \in 1 .. size |-> k])
Store(m, addr, size, val) ==
    [a \in DOMAIN m |-> IF a \in addr .. addr + size - 1
                        THEN (val \div 2^(CharBits * (a - addr))) % 2^CharBits ELSE m[a]]

(* "%08x", "%04x" and "%02x". *)
HexFormat(bytes) == <<"%", "0", LowerDigits[FieldDigits(bytes) + 1], "x">>
Hex(v, bytes) == npf_vpprintf(HexFormat(bytes), <<v>>)

Complain(why) == printed' = [what |-> why] /\ UNCHANGED ram

(* Mutant: the loop ends before the number's first digit. *)
DropsFirst(str) == hextoint(Tail(str))

Number(str) == hextoint(str)

super_peek(argv) ==
    LET addr == Number(argv[3])
        size == Size(argv[2])
    IN  CASE Len(argv) # 3 -> Complain("usage")
          [] Len(argv) = 3 /\ ~addr.ok -> Complain("invalid address")
          [] Len(argv) = 3 /\ addr.ok /\ size = 0 -> Complain("invalid size")
          [] OTHER -> /\ printed' = [what |-> "peek", addr |-> addr.val, size |-> size,
                                     text |-> Hex(Load(ram, addr.val, size), size)]
                      /\ UNCHANGED ram

super_poke(argv) ==
    LET addr == Number(argv[3])
        val == Number(argv[4])
        size == Size(argv[2])
    IN  CASE Len(argv) # 4 -> Complain("usage")
          [] Len(argv) = 4 /\ ~addr.ok -> Complain("invalid address")
          [] Len(argv) = 4 /\ addr.ok /\ ~val.ok -> Complain("invalid value")
          [] Len(argv) = 4 /\ addr.ok /\ val.ok /\ size = 0 -> Complain("invalid size")
          [] OTHER -> /\ ram' = Store(ram, addr.val, size, val.val)
                      /\ printed' = [what |-> "poke", addr |-> addr.val, size |-> size, arg |-> argv[4]]

Gap(i) == IF i = LineBytes \div 2 THEN <<" ">> ELSE <<>>

(* Mutant: a short line is not filled up. *)
NoFill(m, at, size) ==
    FlattenSeq([i \in 1 .. size |-> Hex(m[at + i - 1], 1) \o <<" ">> \o Gap(i)])

(* The bytes of a line, with a gap after the first half; a short line is   *)
(* filled up so that what follows stays in its column.                     *)
hexline(m, at, size) ==
    FlattenSeq([i \in 1 .. LineBytes |->
        (IF i <= size THEN Hex(m[at + i - 1], 1) \o <<" ">> ELSE Copies(" ", FieldDigits(1) + 1))
        \o Gap(i)])

printchars(m, at, size) ==
    <<"|">> \o [i \in 1 .. size |-> IF m[at + i - 1] \in DOMAIN Glyph THEN Glyph[m[at + i - 1]] ELSE "."]
    \o <<"|">>

(* The lines of a dump: at least one, also of nothing.  The code holds the *)
(* length in an int; lengths of 2^31 and more are not modelled.            *)
hexdump(m, addr, size) ==
    [n \in 1 .. Max({1, (size + LineBytes - 1) \div LineBytes}) |->
        LET at == addr + (n - 1) * LineBytes
            linelen == Min({LineBytes, size - (n - 1) * LineBytes})
        IN  Hex(at, 4) \o <<" ", " ", " ">> \o hexline(m, at, linelen) \o printchars(m, at, linelen)]

super_hexdump(argv) ==
    LET start == Number(argv[2])
        len == Number(argv[3])
    IN  CASE Len(argv) # 3 -> Complain("usage")
          [] Len(argv) = 3 /\ ~start.ok -> Complain("invalid address")
          [] Len(argv) = 3 /\ start.ok /\ ~len.ok -> Complain("invalid length")
          [] OTHER -> /\ printed' = [what |-> "hexdump", addr |-> start.val, size |-> len.val,
                                     lines |-> hexdump(ram, start.val, len.val)]
                      /\ UNCHANGED ram

Name(word) == CASE word = <<"p", "e", "e", "k">> -> "peek" [] word = <<"p", "o", "k", "e">> -> "poke"
                [] word = <<"h", "e", "x", "d", "u", "m", "p">> -> "hexdump" [] OTHER -> "bad"

(* super_shell: the table of commands.  Those that run programs are in     *)
(* module Programs.                                                        *)
super_shell(argv) ==
    \/ Name(argv[1]) = "peek" /\ super_peek(argv)
    \/ Name(argv[1]) = "poke" /\ super_poke(argv)
    \/ Name(argv[1]) = "hexdump" /\ super_hexdump(argv)
    \/ Name(argv[1]) = "bad" /\ Complain("bad command")

(* A message with one specification, put together from its parts, between  *)
(* a text before and a text after it.                                      *)
Modifier(mod) == CASE mod = <<>> -> "" [] mod = <<"l">> -> "l" [] mod = <<"h">> -> "h" [] OTHER -> "hh"
Format(m) == <<"n", "=">> \o <<"%">> \o m.flags \o m.width \o m.mod \o <<m.conv, "!">>
Args(m) == (IF m.width = <<"*">> THEN <<m.star>> ELSE <<>>) \o
           (IF m.conv = "%" THEN <<>> ELSE <<m.arg>>)
printk(m) ==
    /\ printed' = [what |-> "printk", msg |-> m, text |-> npf_vpprintf(Format(m), Args(m))]
    /\ UNCHANGED ram

-----------------------------------------------------------------------------
(* Properties *)

(* Digits by division, not by a loop; each holds three bits or more. *)
DigitsOf(v, base, chars) ==
    LET n == Min({k \in 1 .. LongBits \div 3 + 1 : base^k > v})
    IN  [k \in 1 .. n |-> chars[((v \div base^(n - k)) % base) + 1]]

Numbers == {"d", "o", "u", "x", "X", "p"}

(* What C's standard says printf prints for the message; of %p it says     *)
(* nothing, and the number with 0x is what nanoprintf documents.           *)
Asked(m) ==
    LET flag == {m.flags[k] : k \in DOMAIN m.flags}
        width == IF m.width = <<"*">> THEN m.star ELSE IF m.width = <<>> THEN 0 ELSE NumberOf(m.width)
        left == "-" \in flag \/ width < 0
        bits == Bits(Modifier(m.mod))
        negative == m.conv = "d" /\ Signed(m.arg, bits) < 0
        val == IF m.conv = "d" THEN Signed(m.arg, bits) ELSE Unsigned(m.arg, bits)
        sign == CASE negative -> <<"-">>
                  [] ~negative /\ m.conv = "d" /\ "+" \in flag -> <<"+">>
                  [] ~negative /\ m.conv = "d" /\ "+" \notin flag /\ " " \in flag -> <<" ">>
                  [] m.conv \in {"x", "X"} /\ "#" \in flag /\ val # 0 -> <<"0", m.conv>>
                  [] m.conv = "p" -> <<"0", "x">>
                  [] OTHER -> <<>>
        digits == DigitsOf(IF val < 0 THEN -val ELSE val, Base(m.conv),
                           IF m.conv = "X" THEN UpperDigits ELSE LowerDigits)
        body == CASE m.conv = "s" -> m.arg [] m.conv \in {"c", "%"} -> <<m.arg>>
                  [] m.conv = "o" /\ "#" \in flag /\ val # 0 -> <<"0">> \o digits
                  [] OTHER -> digits
        pad == Max({0, (IF width < 0 THEN -width ELSE width) - Len(sign) - Len(body)})
        zeros == "0" \in flag /\ ~left /\ m.conv \in Numbers
    IN  CASE left -> sign \o body \o Copies(" ", pad)
          [] ~left /\ zeros -> sign \o Copies("0", pad) \o body
          [] OTHER -> Copies(" ", pad) \o sign \o body

(* Where printk is known to print something else: %hhd of a negative char, *)
(* as char has no sign here, and the flag 0 with a negative width from an  *)
(* argument, where zeros follow the digits.                                *)
Deviates(m) ==
    LET flag == {m.flags[k] : k \in DOMAIN m.flags}
    IN  \/ m.conv = "d" /\ m.mod = <<"h", "h">> /\ Signed(m.arg, CharBits) < 0
        \/ m.conv \in Numbers /\ m.width = <<"*">> /\ m.star < 0 /\ "0" \in flag /\ "-" \notin flag

(* printk prints what C's printf would, with the texts around it, for all  *)
(* the flags, widths, lengths and conversions together that C defines,     *)
(* except where it is known to deviate.                                    *)
PrintedAsAsked ==
    printed.what = "printk" /\ ~Deviates(printed.msg) =>
        printed.text = <<"n", "=">> \o Asked(printed.msg) \o <<"!">>

(* What peek prints can be given back to poke: it stands for the bytes at  *)
(* that address; and a poke stores the digits it was given, cut to size.   *)
PeekIsPoke ==
    /\ printed.what = "peek" =>
          /\ Len(printed.text) = FieldDigits(printed.size)
          /\ Store(ram, printed.addr, printed.size, hextoint(printed.text).val) = ram
    /\ printed.what = "poke" =>
          \A k \in 1 .. Min({Len(printed.arg), FieldDigits(printed.size)}) :
              Hex(Load(ram, printed.addr, printed.size), printed.size)
                  [FieldDigits(printed.size) + 1 - k] = printed.arg[Len(printed.arg) + 1 - k]

(* In a dump every byte asked for is in its own column of the line of its  *)
(* address, and the characters begin in the same column on every line.     *)
DumpShowsMemory ==
    printed.what = "hexdump" =>
        LET d == FieldDigits(1)
            first == FieldDigits(4) + 3
            Column(k) == first + (k - 1) * (d + 1) + (IF k > LineBytes \div 2 THEN 1 ELSE 0)
        IN  /\ \A n \in DOMAIN printed.lines :
                  LET text == printed.lines[n]
                  IN  /\ hextoint(SubSeq(text, 1, FieldDigits(4))).val = printed.addr + (n - 1) * LineBytes
                      /\ SelectInSeq(text, LAMBDA c : c = "|") = Column(LineBytes + 1) + 1
            /\ \A j \in 0 .. printed.size - 1 :
                  LET text == printed.lines[(j \div LineBytes) + 1]
                      k == (j % LineBytes) + 1
                  IN  hextoint(SubSeq(text, Column(k) + 1, Column(k) + d)).val = ram[printed.addr + j]

(* What the kernel prints is what it was asked for, and what memory holds. *)
PrintsRight == PrintedAsAsked /\ PeekIsPoke /\ DumpShowsMemory
=============================================================================
