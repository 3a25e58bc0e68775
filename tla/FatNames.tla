------------------------------ MODULE FatNames ------------------------------
(***************************************************************************)
(* Names on a FAT volume (ff.c): a segment of a path becomes a long name   *)
(* and an 8.3 short name in directory form; a long name is stored in       *)
(* pieces before the short name's entry, tied to it by its checksum.       *)
(*                                                                         *)
(* Characters are codes below 128, for which the code page (437) does not  *)
(* matter.  The zero that ends a C string is the end of the sequence.      *)
(***************************************************************************)
EXTENDS Integers, Sequences, FiniteSets, Bitwise

FF_MAX_LFN == 255
Space == 32
Period == 46
IsSeparator(ch) == ch \in {47, 92}                          \* / \
IsUpper(ch) == ch \in 65 .. 90
IsLower(ch) == ch \in 97 .. 122
IllegalInLfn == {42, 58, 60, 62, 124, 34, 63, 127}          \* * : < > | " ? DEL
IllegalInSfn == {43, 44, 59, 61, 91, 93}                    \* + , ; = [ ]
Upper(ch) == IF IsLower(ch) THEN ch - 32 ELSE ch            \* ff_wtoupper
UpperName(s) == [i \in DOMAIN s |-> Upper(s[i])]

Longest(S) == CHOOSE n \in S : \A k \in S : k <= n

-----------------------------------------------------------------------------
(* create_name *)

\* The length of the segment at the head of a path.
SegmentLength(path) ==
    Longest({0} \cup {n \in 1 .. Len(path) : \A i \in 1 .. n : ~IsSeparator(path[i])})

\* The path after the segment and the separators that follow it.
AfterSegment(path) ==
    LET n == SegmentLength(path)
        skip == Longest({0} \cup {k \in 1 .. Len(path) - n :
                                     \A i \in n + 1 .. n + k : IsSeparator(path[i])})
    IN SubSeq(path, n + skip + 1, Len(path))

\* Trailing spaces and dots do not count.
Trimmed(s) ==
    SubSeq(s, 1, Longest({0} \cup {n \in 1 .. Len(s) : s[n] \notin {Space, Period}}))

Padded(s, n) == [i \in 1 .. n |-> IF i <= Len(s) THEN s[i] ELSE Space]

\* Put one character into the field being filled; case is noted by field.
PutChar(s, wc) ==
    LET field == IF s.ni = 8 THEN "body" ELSE "ext"
        bad == wc \in IllegalInSfn
    IN [s EXCEPT !.fn[s.i + 1] = IF bad THEN 95 ELSE Upper(wc),
                 !.i = @ + 1,
                 !.cf = IF bad THEN @ \cup {"LOSS", "LFN"} ELSE @,
                 !.case[field] = @ \cup (IF IsUpper(wc) THEN {"U"} ELSE {})
                                   \cup (IF IsLower(wc) THEN {"L"} ELSE {})]

\* The short name of lfn, whose last dot is at di (0 if it has none); si characters are used.
RECURSIVE ShortenFrom(_, _, _)
ShortenFrom(lfn, di, s) ==
    LET t == [s EXCEPT !.si = @ + 1]
        wc == lfn[t.si]
        lossy == [t EXCEPT !.cf = @ \cup {"LOSS", "LFN"}]
        body == IF t.si # di THEN lossy ELSE t
    IN CASE s.si = Len(lfn) -> s
         [] s.si < Len(lfn) /\ (wc = Space \/ (wc = Period /\ t.si # di)) ->
                ShortenFrom(lfn, di, lossy)
         [] s.si < Len(lfn) /\ ~(wc = Space \/ (wc = Period /\ t.si # di))
              /\ (s.i >= s.ni \/ t.si = di) ->
                CASE s.ni = 11 -> lossy
                  [] s.ni = 8 /\ t.si > di -> body
                  [] OTHER -> ShortenFrom(lfn, di, [body EXCEPT !.si = di, !.i = 8, !.ni = 11])
         [] OTHER -> ShortenFrom(lfn, di, PutChar(t, wc))

\* Mixed case in a field needs a long name; one case is kept in two flags.
CaseFlags(s) ==
    LET mixed == {"U", "L"} \in {s.case["body"], s.case["ext"]} IN
    IF mixed \/ "LFN" \in s.cf THEN s.cf \cup {"LFN"}
    ELSE s.cf \cup (IF "L" \in s.case["ext"] THEN {"EXT"} ELSE {})
              \cup (IF "L" \in s.case["body"] THEN {"BODY"} ELSE {})

Shorten(lfn) ==
    LET lead == Longest({0} \cup {n \in 1 .. Len(lfn) : \A i \in 1 .. n : lfn[i] = Space})
        di == Longest({0} \cup {n \in 1 .. Len(lfn) : lfn[n] = Period})
        s == ShortenFrom(lfn, di,
                [si |-> lead, i |-> 0, ni |-> 8, fn |-> Padded(<<>>, 11),
                 case |-> [x \in {"body", "ext"} |-> {}],
                 cf |-> IF lead > 0 \/ lfn[1] = Period THEN {"LOSS", "LFN"} ELSE {}])
    IN [fn |-> s.fn, flags |-> CaseFlags(s)]

\* The segment's names and flags, and the rest of the path; ok is FR_OK.
create_name(path) ==
    LET seg == SubSeq(path, 1, SegmentLength(path))
        rest == AfterSegment(path)
        last == IF rest = <<>> THEN {"LAST"} ELSE {}
        dots == seg \in {<<Period>>, <<Period, Period>>}
        lfn == Trimmed(seg)
        name == Shorten(lfn)
    IN CASE (\E i \in DOMAIN seg : seg[i] \in IllegalInLfn) \/ Len(seg) > FF_MAX_LFN
              \/ (~dots /\ lfn = <<>>) ->
                [ok |-> FALSE, lfn |-> <<>>, fn |-> Padded(<<>>, 11), flags |-> {}, rest |-> rest]
         [] dots -> [ok |-> TRUE, lfn |-> seg, fn |-> Padded(seg, 11),
                     flags |-> last \cup {"DOT"}, rest |-> rest]
         [] OTHER -> [ok |-> TRUE, lfn |-> lfn, fn |-> name.fn, flags |-> name.flags \cup last,
                      rest |-> rest]

-----------------------------------------------------------------------------
(* Numbered short names and checksums. *)

\* The CRC of a long name, from seq, bit by bit.
RECURSIVE CrcOf(_, _, _)
CrcOf(lfn, k, sreg) ==     \* k: bits taken
    IF k = 16 * Len(lfn) THEN sreg
    ELSE LET bit == (lfn[k \div 16 + 1] \div 2 ^ (k % 16)) % 2
             x == sreg * 2 + bit
         IN CrcOf(lfn, k + 1, IF (x \div 65536) % 2 = 1 THEN x ^^ 69665 ELSE x)

HexDigit(n) == IF n < 10 THEN 48 + n ELSE 55 + n

RECURSIVE HexOf(_)
HexOf(n) == IF n < 16 THEN <<HexDigit(n)>> ELSE Append(HexOf(n \div 16), HexDigit(n % 16))

\* ~ and the number replace the end of the body; from the sixth on a hash of the name.
gen_numname(fn, lfn, seq) ==
    LET num == HexOf(IF seq > 5 THEN CrcOf(lfn, 0, seq) ELSE seq)
        suffix == <<126>> \o (IF Len(num) > 7 THEN SubSeq(num, Len(num) - 6, Len(num)) ELSE num)
        keep == Longest({0} \cup {n \in 1 .. 8 - Len(suffix) : \A i \in 1 .. n : fn[i] # Space})
    IN [i \in 1 .. 11 |-> CASE i <= keep \/ i > 8 -> fn[i]
                            [] i > keep /\ i <= keep + Len(suffix) -> suffix[i - keep]
                            [] OTHER -> Space]

RECURSIVE SumFrom(_, _, _)
SumFrom(fn, i, sum) ==
    IF i > 11 THEN sum
    ELSE SumFrom(fn, i + 1, ((sum \div 2) + (sum % 2) * 128 + fn[i]) % 256)

sum_sfn(fn) == SumFrom(fn, 1, 0)

-----------------------------------------------------------------------------
(* Pieces of a long name. *)

LfnChars == 13
Filler == 65535
Pieces(len) == (len + LfnChars - 1) \div LfnChars

\* The character i of a name as stored: a zero follows it, fillers follow that.
StoredChar(lfn, i) == IF i <= Len(lfn) THEN lfn[i] ELSE IF i = Len(lfn) + 1 THEN 0 ELSE Filler

put_lfn(lfn, ord, sum) ==
    [kind |-> "lfn", ord |-> ord, last |-> ord = Pieces(Len(lfn)), sum |-> sum,
     chars |-> [i \in 1 .. LfnChars |-> StoredChar(lfn, (ord - 1) * LfnChars + i)]]

\* How many characters of a piece come before its zero.
PieceLength(e) == Longest({0} \cup {n \in 1 .. LfnChars : \A i \in 1 .. n : e.chars[i] # 0})

\* Mutant: a name that goes on after the last piece matches.
PrefixMatches(lfn, e) ==
    LET at == (e.ord - 1) * LfnChars IN
    /\ \A i \in 1 .. PieceLength(e) :
          at + i <= Len(lfn) /\ Upper(e.chars[i]) = Upper(lfn[at + i])
    /\ PieceLength(e) < LfnChars => Len(lfn) = at + PieceLength(e)

cmp_lfn(lfn, e) ==
    LET at == (e.ord - 1) * LfnChars IN
    /\ \A i \in 1 .. PieceLength(e) :
          at + i <= Len(lfn) /\ Upper(e.chars[i]) = Upper(lfn[at + i])
    /\ PieceLength(e) < LfnChars => Len(lfn) = at + PieceLength(e)
    /\ e.last /\ PieceLength(e) = LfnChars => Len(lfn) = at + LfnChars

-----------------------------------------------------------------------------
(* What a name is shown as. *)

\* The short name with its dot, in the case its flags keep.
ShownShort(fn, flags) ==
    LET field(a, b, low) ==
            [i \in 1 .. Cardinality({k \in a .. b : fn[k] # Space}) |->
                LET ch == fn[a + i - 1] IN IF low /\ IsUpper(ch) THEN ch + 32 ELSE ch]
        ext == field(9, 11, "EXT" \in flags)
    IN field(1, 8, "BODY" \in flags) \o (IF ext = <<>> THEN <<>> ELSE <<Period>> \o ext)

-----------------------------------------------------------------------------
(* Drives. *)

FF_VOLUMES == 1
CurrVol == 0

\* The drive of a path: the digit before a colon, the current drive if there is no colon.
HasColon(path) == 58 \in {path[i] : i \in DOMAIN path}

get_ldnumber(path) ==
    CASE ~HasColon(path) -> CurrVol
      [] HasColon(path) /\ Len(path) > 1 /\ path[2] = 58 /\ path[1] \in 48 .. 47 + FF_VOLUMES ->
            path[1] - 48
      [] OTHER -> -1

AfterDrive(path) == IF HasColon(path) THEN SubSeq(path, 3, Len(path)) ELSE path
=============================================================================
