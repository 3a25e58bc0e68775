------------------------------- MODULE Printf -------------------------------
(***************************************************************************)
(* The formatting of printk (nanoprintf.h as printk.c configures it: field *)
(* widths, but no precision, floats, long longs, binary or write-back) and *)
(* the parsing of hexadecimal numbers by the debugging commands.           *)
(*                                                                         *)
(* Text is a sequence of one-character strings, "" is the NUL at its end.  *)
(* An int has LongBits bits; char and short have fewer, as in the code.    *)
(***************************************************************************)
EXTENDS Integers, Sequences, FiniteSetsExt, SequencesExt

CONSTANTS CharBits, ShortBits, LongBits

ASSUME WidthAssumption ==
    /\ CharBits \in Nat \ {0} /\ ShortBits \in Nat /\ LongBits \in Nat
    /\ CharBits < ShortBits /\ ShortBits <= LongBits

LowerDigits == <<"0", "1", "2", "3", "4", "5", "6", "7", "8", "9", "a", "b", "c", "d", "e", "f">>
UpperDigits == <<"0", "1", "2", "3", "4", "5", "6", "7", "8", "9", "A", "B", "C", "D", "E", "F">>
Decimal == {LowerDigits[k] : k \in 1 .. 10}

CharAt(f, k) == IF k <= Len(f) THEN f[k] ELSE ""
Copies(ch, n) == [k \in 1 .. n |-> ch]

-----------------------------------------------------------------------------
(* npf_parse_format_spec: the specification that begins with the percent   *)
(* sign at place at, and its length, 0 for what is no specification.       *)

FlagChars == {"-", "0", "+", " ", "#"}
Conversions == {"%", "c", "s", "i", "d", "o", "u", "x", "X", "p"}

DigitValue(ch) == (CHOOSE k \in 1 .. 16 : LowerDigits[k] = ch) - 1
NumberOf(digits) == FoldLeft(LAMBDA n, ch : n * 10 + DigitValue(ch), 0, digits)

npf_parse_format_spec(f, at) ==
    LET flagEnd == Min({k \in at + 1 .. Len(f) + 1 : CharAt(f, k) \notin FlagChars})
        flags == {f[k] : k \in at + 1 .. flagEnd - 1}
        star == CharAt(f, flagEnd) = "*"
        widthEnd == IF star THEN flagEnd + 1
                    ELSE Min({k \in flagEnd .. Len(f) + 1 : CharAt(f, k) \notin Decimal})
        mod == CASE CharAt(f, widthEnd) = "l" -> "l"
                 [] CharAt(f, widthEnd) = "h" -> IF CharAt(f, widthEnd + 1) = "h" THEN "hh" ELSE "h"
                 [] OTHER -> ""
        convAt == widthEnd + (CASE mod = "" -> 0 [] mod = "hh" -> 2 [] OTHER -> 1)
        conv == CharAt(f, convAt)
    IN  [len |-> IF conv \in Conversions THEN convAt + 1 - at ELSE 0,
         left |-> "-" \in flags,
         zero |-> "0" \in flags /\ "-" \notin flags /\ conv # "s",
         prepend |-> CASE "+" \in flags -> <<"+">> [] "+" \notin flags /\ " " \in flags -> <<" ">>
                       [] OTHER -> <<>>,
         alt |-> "#" \in flags,
         star |-> star,
         padded |-> star \/ widthEnd > flagEnd,
         width |-> IF star THEN 0 ELSE NumberOf(SubSeq(f, flagEnd, widthEnd - 1)),
         mod |-> mod,
         conv |-> IF conv = "i" THEN "d" ELSE conv]

-----------------------------------------------------------------------------
(* Conversion of an argument *)

Bits(mod) == CASE mod = "hh" -> CharBits [] mod = "h" -> ShortBits [] OTHER -> LongBits
Unsigned(v, bits) == v % 2^bits
Signed(v, bits) == LET u == v % 2^bits IN IF u >= 2^(bits-1) THEN u - 2^bits ELSE u

(* char is unsigned on this processor, so %hhd never prints a sign. *)
SignedArg(v, mod) == IF mod = "hh" THEN Unsigned(v, CharBits) ELSE Signed(v, Bits(mod))

(* The digits from the last to the first; one for zero. *)
npf_utoa_rev(v, base, chars) ==
    LET rev[n \in Nat] == <<chars[(n % base) + 1]>> \o
                          (IF n \div base = 0 THEN <<>> ELSE rev[n \div base])
    IN  rev[v]

(* C's remainder has the sign of its operand, so the digits are those of   *)
(* the absolute value.                                                     *)
npf_itoa_rev(v) == npf_utoa_rev(IF v < 0 THEN -v ELSE v, 10, LowerDigits)

Base(conv) == CASE conv = "o" -> 8 [] conv \in {"x", "X", "p"} -> 16 [] OTHER -> 10

(* The sign, the 0x and the payload in the order it is printed. *)
Converted(fs, arg) ==
    LET signed == SignedArg(arg, fs.mod)
        val == IF fs.conv = "p" THEN Unsigned(arg, LongBits) ELSE Unsigned(arg, Bits(fs.mod))
        digits == Reverse(npf_utoa_rev(val, Base(fs.conv),
                              IF fs.conv = "X" THEN UpperDigits ELSE LowerDigits))
        Plain(body) == [sign |-> <<>>, prefix |-> <<>>, body |-> body]
    IN  CASE fs.conv = "%" -> Plain(<<"%">>)
          [] fs.conv = "c" -> Plain(<<arg>>)
          [] fs.conv = "s" -> Plain(arg)
          [] fs.conv = "d" -> [sign |-> IF signed < 0 THEN <<"-">> ELSE fs.prepend,
                               prefix |-> <<>>, body |-> Reverse(npf_itoa_rev(signed))]
          [] fs.conv = "p" -> [Plain(digits) EXCEPT !.prefix = <<"0", "x">>]
          [] fs.conv = "o" /\ val # 0 /\ fs.alt -> Plain(<<"0">> \o digits)
          [] fs.conv \in {"x", "X"} /\ val # 0 /\ fs.alt -> [Plain(digits) EXCEPT !.prefix = <<"0", fs.conv>>]
          [] OTHER -> Plain(digits)

(* Mutant: zeros are put before the sign. *)
ZerosFirst(fs, c) ==
    LET pad == Max({0, fs.width - Len(c.body) - Len(c.sign) - Len(c.prefix)})
    IN  IF fs.left THEN c.sign \o c.prefix \o c.body \o Copies(" ", pad)
        ELSE Copies(IF fs.zero THEN "0" ELSE " ", pad) \o c.sign \o c.prefix \o c.body

(* Where the padding goes: zeros between sign and digits, blanks outside.  *)
(* The flag 0 gives characters no padding at all; a negative width from an *)
(* argument justifies left but leaves the zeros.                           *)
Padded(fs, c) ==
    LET pad == Max({0, fs.width - Len(c.body) - Len(c.sign) - Len(c.prefix)})
        padc == CASE ~fs.padded -> "" [] fs.padded /\ ~fs.zero -> " "
                  [] OTHER -> IF fs.conv \in {"c", "%"} THEN "" ELSE "0"
    IN  CASE padc = "" -> c.prefix \o c.sign \o c.body
          [] padc # "" /\ fs.left -> c.prefix \o c.sign \o c.body \o Copies(padc, pad)
          [] padc = "0" /\ ~fs.left -> c.sign \o c.prefix \o Copies("0", pad) \o c.body
          [] OTHER -> Copies(" ", pad) \o c.prefix \o c.sign \o c.body

StarWidth(fs, args) ==
    IF ~fs.star THEN fs
    ELSE IF args[1] < 0 THEN [fs EXCEPT !.width = -args[1], !.left = TRUE]
         ELSE [fs EXCEPT !.width = args[1]]

(* The loop over the format; args is what va_arg has not taken yet. *)
npf_vpprintf(f, args) ==
    LET out[p \in (1 .. Len(f) + 1) \X (0 .. Len(args))] ==
            LET cur == p[1]
                taken == p[2]
                fs == npf_parse_format_spec(f, cur)
                left == SubSeq(args, taken + 1, Len(args))
                after == IF fs.star THEN Tail(left) ELSE left
                used == taken + (IF fs.star THEN 1 ELSE 0) + (IF fs.conv = "%" THEN 0 ELSE 1)
            IN  CASE cur > Len(f) -> <<>>
                  [] cur <= Len(f) /\ (f[cur] # "%" \/ fs.len = 0) ->
                        <<f[cur]>> \o out[<<cur + 1, taken>>]
                  [] OTHER -> Padded(StarWidth(fs, left),
                                     Converted(fs, IF fs.conv = "%" THEN 0 ELSE after[1]))
                              \o out[<<cur + fs.len, used>>]
    IN  out[<<1, 0>>]

-----------------------------------------------------------------------------
(* hextoint: digits from the last, each or-ed in four bits higher; with    *)
(* more digits than a word holds the shift count wraps on this processor.  *)

IsHex(str) == \A k \in DOMAIN str : str[k] \in {LowerDigits[j] : j \in 1 .. 16}

OrDigit(val, d, shift) ==
    LET at == 2^shift
        old == (val \div at) % 16
        both == CHOOSE n \in 0 .. 15 : \A b \in 0 .. 3 :
                    (n \div 2^b) % 2 = Max({(old \div 2^b) % 2, (d \div 2^b) % 2})
    IN  val + (both - old) * at

hextoint(str) ==
    IF ~IsHex(str) THEN [ok |-> FALSE, val |-> 0]
    ELSE [ok |-> TRUE,
          val |-> FoldLeft(LAMBDA v, k : OrDigit(v, DigitValue(str[Len(str) + 1 - k]),
                                                 (4 * (k - 1)) % LongBits),
                           0, [k \in 1 .. Len(str) |-> k])]
=============================================================================
