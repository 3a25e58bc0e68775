--------------------------- MODULE NetworkProofs ---------------------------
(***************************************************************************)
(* Proofs about the two programs that use the network.  The file server    *)
(* answers the request it read last with what that request asks for,       *)
(* whatever was in its buffer before; the network monitor's decoder counts *)
(* repeated acknowledgements right.  For any requests and frames, in any   *)
(* number, however they come between the programs' reads.                  *)
(***************************************************************************)
EXTENDS FileServer, Monitor, OrderProofs

(* The file server *)

\* A sequence's first place with some property, or 0.
LEMMA FirstPlace ==
    ASSUME NEW n \in Nat, NEW P \in SUBSET (1 .. n), NEW m \in 1 .. n + 1,
           m \in 1 .. n => m \in P, \A k \in 1 .. m - 1 : k \notin P
    PROVE  (IF P # {} THEN Min(P) ELSE 0) = IF m <= n THEN m ELSE 0
<1>1. CASE m <= n
  <2>1. m \in P /\ \A y \in P : m <= y
    BY <1>1
  <2>2. P \in SUBSET Nat
    OBVIOUS
  <2> QED
    BY <1>1, <2>1, <2>2, MinOnly
<1>2. CASE m = n + 1
  <2>1. P = {}
    BY <1>2
  <2> QED
    BY <1>2, <2>1
<1> QED
  BY <1>1, <1>2

\* Words of a buffer that holds request r and its terminator: where the text ends,
\* where its first word starts and stops.
InText(buf, end, k) == k \in HeaderSize .. end - 1 /\ buf[k] # Space

TextEnd(buf, r, end) ==
    /\ end \in HeaderSize .. Len(r) /\ buf[end] = NUL
    /\ \A k \in HeaderSize .. end - 1 : buf[k] # NUL

Holds(buf, r) ==
    /\ \A k \in 0 .. Len(r) - 1 : buf[k] = r[k + 1]
    /\ buf[Len(r)] = NUL

WordBounds(buf, end, from, stop) ==
    /\ from \in HeaderSize .. end - 1 /\ InText(buf, end, from)
    /\ \A k \in HeaderSize .. from - 1 : ~InText(buf, end, k)
    /\ stop \in from + 1 .. end /\ ~InText(buf, end, stop)
    /\ \A k \in from .. stop - 1 : InText(buf, end, k)

\* What strtok finds first in the buffer.
LEMMA WordsFirst ==
    ASSUME NEW buf, NEW r \in Seq(Nat), Len(r) >= HeaderSize, Len(r) < BufSize, Holds(buf, r),
           Len(Words(buf)) > 0
    PROVE  \E end, from, stop :
              /\ TextEnd(buf, r, end) /\ WordBounds(buf, end, from, stop)
              /\ Words(buf)[1] = [j \in 1 .. stop - from |-> buf[from + j - 1]]
<1> DEFINE t == Words(buf)
<1>0. Len(r) \in Nat /\ BufSize \in Nat /\ HeaderSize = 7
  BY ServerAssumption DEF HeaderSize
<1> DEFINE end == CHOOSE e \in HeaderSize .. BufSize :
                      buf[e] = NUL /\ \A k \in HeaderSize .. e - 1 : buf[k] # NUL
           Inside(k) == k \in HeaderSize .. end - 1 /\ buf[k] # Space
           starts == {k \in HeaderSize .. end : Inside(k) /\ ~Inside(k - 1)}
           Stop(k) == CHOOSE e \in k + 1 .. end : ~Inside(e) /\ \A j \in k .. e - 1 : Inside(j)
           Word(n) == LET k == Nth(starts, n) IN [j \in 1 .. Stop(k) - k |-> buf[k + j - 1]]
<1>1. t = [n \in 1 .. Cardinality(starts) |-> Word(n)]
  BY DEF Words
<1> HIDE DEF t
<1>2. TextEnd(buf, r, end)
  <2> DEFINE N == {e \in HeaderSize .. BufSize : buf[e] = NUL}
  <2>1. N \in SUBSET Nat /\ Len(r) \in N
    BY <1>0 DEF Holds
  <2>2. PICK e \in N : \A y \in N : e <= y
    BY <2>1, LeastExists
  <2>3. e \in HeaderSize .. BufSize /\ buf[e] = NUL /\ \A k \in HeaderSize .. e - 1 : buf[k] # NUL
    BY <1>0, <2>2
  <2>4. end \in HeaderSize .. BufSize /\ buf[end] = NUL /\ \A k \in HeaderSize .. end - 1 : buf[k] # NUL
    BY <2>3
  <2> HIDE DEF end
  <2>5. end <= Len(r)
    <3> SUFFICES ASSUME ~(end <= Len(r)) PROVE FALSE
      OBVIOUS
    <3>1. Len(r) \in HeaderSize .. end - 1
      BY <1>0, <2>4
    <3> QED
      BY <2>4, <3>1 DEF Holds
  <2> QED
    BY <1>0, <2>4, <2>5 DEF TextEnd
<1> HIDE DEF end
<1>3. end \in Nat /\ end >= 7
  BY <1>0, <1>2 DEF TextEnd
<1>4. IsFiniteSet(starts) /\ starts \in SUBSET Nat
  <2>1. starts \in SUBSET Nat /\ \A s \in starts : s <= end
    BY <1>0, <1>3
  <2> HIDE DEF starts
  <2> QED
    BY <1>3, <2>1, FS_BoundedSetOfNaturals
<1>5. Cardinality(starts) \in Nat
  BY <1>4, FS_CardinalityType
<1>6. Cardinality(starts) >= 1 /\ starts # {}
  <2> HIDE DEF starts, Word
  <2>1. Len(t) = Cardinality(starts)
    BY <1>1, <1>5
  <2>2. Cardinality(starts) # 0
    BY <2>1 DEF t
  <2>3. starts # {}
    BY <2>2, FS_EmptySet
  <2> QED
    BY <1>5, <2>2, <2>3
<1>7. PICK from \in starts : \A y \in starts : from <= y
  BY <1>4, <1>6, LeastExists
<1>8. Nth(starts, 1) = from
  BY <1>4, <1>7, NthFirst
<1>9. t[1] = Word(1)
  <2> HIDE DEF starts, Word
  <2> QED
    BY <1>1, <1>5, <1>6
<1>10. t[1] = [j \in 1 .. Stop(from) - from |-> buf[from + j - 1]]
  <2> HIDE DEF starts, Stop
  <2> QED
    BY <1>8, <1>9
<1>11. from \in HeaderSize .. end - 1 /\ InText(buf, end, from)
  BY <1>0, <1>3, <1>7 DEF InText
<1>12. ASSUME NEW k \in HeaderSize .. from - 1 PROVE ~InText(buf, end, k)
  <2> SUFFICES ASSUME InText(buf, end, k) PROVE FALSE
    OBVIOUS
  <2> DEFINE T == {i \in HeaderSize .. k : InText(buf, end, i)}
  <2>1. T \in SUBSET Nat /\ k \in T
    BY <1>0, <1>11
  <2>2. PICK i \in T : \A y \in T : i <= y
    BY <2>1, LeastExists
  <2>3. i \in 7 .. k /\ InText(buf, end, i) /\ k \in Nat /\ k < from /\ k >= 7
    BY <1>0, <1>11, <2>2
  <2>4. ~InText(buf, end, i - 1)
    <3> SUFFICES ASSUME InText(buf, end, i - 1) PROVE FALSE
      OBVIOUS
    <3>1. i - 1 \in T
      BY <1>0, <2>3 DEF InText
    <3> HIDE DEF T
    <3> QED
      BY <2>2, <2>3, <3>1
  <2>5. i \in starts
    BY <1>0, <1>3, <2>3, <2>4 DEF InText
  <2> HIDE DEF starts
  <2> QED
    BY <1>4, <1>7, <2>3, <2>5
<1>13. Stop(from) \in from + 1 .. end /\ ~InText(buf, end, Stop(from)) /\ \A j \in from .. Stop(from) - 1 : InText(buf, end, j)
  <2> DEFINE T == {e \in from + 1 .. end : ~InText(buf, end, e)}
  <2>0. from \in Nat /\ from < end
    BY <1>0, <1>3, <1>11
  <2>1. T \in SUBSET Nat /\ end \in T
    BY <1>3, <2>0 DEF InText
  <2>2. PICK e \in T : \A y \in T : e <= y
    BY <2>1, LeastExists
  <2>3. e \in from + 1 .. end /\ ~InText(buf, end, e)
    BY <2>2
  <2>4. \A j \in from .. e - 1 : InText(buf, end, j)
    <3> SUFFICES ASSUME NEW j \in from .. e - 1, ~InText(buf, end, j) PROVE FALSE
      OBVIOUS
    <3>1. j # from
      BY <1>11
    <3>2. j \in T
      BY <1>3, <2>0, <2>3, <3>1
    <3> HIDE DEF T
    <3> QED
      BY <2>0, <2>2, <2>3, <3>2
  <2>5. \E x \in from + 1 .. end : ~InText(buf, end, x) /\ \A j \in from .. x - 1 : InText(buf, end, j)
    BY <2>3, <2>4
  <2>6. Stop(from) = CHOOSE x \in from + 1 .. end : ~InText(buf, end, x) /\ \A j \in from .. x - 1 : InText(buf, end, j)
    BY DEF InText
  <2> QED
    BY <2>5, <2>6
<1>14. WordBounds(buf, end, from, Stop(from))
  <2> HIDE DEF Stop
  <2> QED
    BY <1>11, <1>12, <1>13 DEF WordBounds
<1> HIDE DEF starts, Stop
<1> QED
  BY <1>2, <1>10, <1>14 DEF t

\* What the request asks for first is the same text.
LEMMA FirstWordIs ==
    ASSUME NEW buf, NEW r \in Seq(Nat), Len(r) >= HeaderSize, Holds(buf, r),
           NEW end, NEW from, NEW stop, TextEnd(buf, r, end), WordBounds(buf, end, from, stop)
    PROVE  FirstWord(r) = [j \in 1 .. stop - from |-> buf[from + j - 1]]
<1>0. /\ Len(r) \in Nat /\ HeaderSize = 7 /\ end \in 7 .. Len(r)
      /\ from \in 7 .. end - 1 /\ stop \in from + 1 .. end
      /\ end \in Nat /\ from \in Nat /\ stop \in Nat
  BY DEF HeaderSize, TextEnd, WordBounds
<1>1. \A k \in 7 .. Len(r) - 1 : buf[k] = r[k + 1]
  BY <1>0 DEF Holds
<1> DEFINE payload == SubSeq(r, HeaderSize + 1, Len(r))
           IsNul(x) == x = NUL
           I == {i \in 1 .. Len(payload) : payload[i] = NUL}
           nul == SelectInSeq(payload, LAMBDA x : x = NUL)
           text == IF Contains(payload, NUL) THEN SubSeq(payload, 1, nul - 1) ELSE payload
           first == SelectInSeq(text, LAMBDA x : x # Space)
           rest == SubSeq(text, first, Len(text))
           to == SelectInSeq(rest, LAMBDA x : x = Space)
<1>2. FirstWord(r) = IF first = 0 THEN <<>> ELSE IF to = 0 THEN rest ELSE SubSeq(rest, 1, to - 1)
  BY DEF FirstWord
<1>3. payload = [i \in 1 .. Len(r) - 7 |-> buf[i + 6]]
  <2>1. payload \in Seq(Nat) /\ Len(payload) = Len(r) - 7 /\ \A i \in 1 .. Len(r) - 7 : payload[i] = r[i + 7]
    BY <1>0
  <2>2. \A i \in 1 .. Len(r) - 7 : r[i + 7] = buf[i + 6]
    BY <1>0, <1>1
  <2> HIDE DEF payload
  <2>3. \A i \in 1 .. Len(r) - 7 : payload[i] = buf[i + 6]
    BY <2>1, <2>2
  <2>4. payload = [i \in 1 .. Len(payload) |-> payload[i]]
    BY <2>1
  <2> QED
    BY <2>1, <2>3, <2>4
<1> HIDE DEF payload
<1>4. Len(payload) = Len(r) - 7 /\ \A i \in 1 .. Len(r) - 7 : payload[i] = buf[i + 6]
  BY <1>0, <1>3
<1>5. nul = IF end < Len(r) THEN end - 6 ELSE 0
  <2>1. nul = IF I # {} THEN Min(I) ELSE 0
    BY DEF SelectInSeq
  <2> DEFINE n == Len(r) - 7
             m == end - 6
  <2>2. n \in Nat /\ m \in 1 .. n + 1 /\ I \in SUBSET (1 .. n)
    BY <1>0, <1>4
  <2>3. m \in 1 .. n => m \in I
    BY <1>0, <1>4 DEF TextEnd
  <2>4. ASSUME NEW k \in 1 .. m - 1 PROVE k \notin I
    <3>1. k + 6 \in 7 .. end - 1 /\ k \in 1 .. Len(r) - 7
      BY <1>0
    <3> QED
      BY <1>0, <1>4, <3>1 DEF TextEnd
  <2> HIDE DEF I, n, m
  <2>5. nul = IF m <= n THEN m ELSE 0
    BY <2>1, <2>2, <2>3, <2>4, FirstPlace
  <2> QED
    BY <1>0, <2>5 DEF n, m
<1>6. Contains(payload, NUL) <=> end < Len(r)
  <2>1. end < Len(r) => end - 6 \in 1 .. Len(r) - 7 /\ payload[end - 6] = NUL
    <3> SUFFICES ASSUME end < Len(r) PROVE end - 6 \in 1 .. Len(r) - 7 /\ payload[end - 6] = NUL
      OBVIOUS
    <3>1. end - 6 \in 1 .. Len(r) - 7 /\ end - 6 + 6 = end
      BY <1>0
    <3>2. payload[end - 6] = buf[end - 6 + 6]
      BY <1>4, <3>1
    <3> QED
      BY <3>1, <3>2 DEF TextEnd
  <2>2. ~(end < Len(r)) => \A i \in 1 .. Len(r) - 7 : payload[i] # NUL
    <3> SUFFICES ASSUME ~(end < Len(r)), NEW i \in 1 .. Len(r) - 7 PROVE payload[i] # NUL
      OBVIOUS
    <3>1. i + 6 \in 7 .. end - 1
      BY <1>0
    <3> QED
      BY <1>0, <1>4, <3>1 DEF TextEnd
  <2> QED
    BY <1>0, <1>4, <2>1, <2>2 DEF Contains
<1> HIDE DEF nul
<1>7. text = [i \in 1 .. end - 7 |-> buf[i + 6]]
  <2>1. CASE end < Len(r)
    <3>1. text = SubSeq(payload, 1, end - 7) /\ end - 7 \in 0 .. Len(r) - 7
      BY <1>0, <1>5, <1>6, <2>1
    <3>2. SubSeq(payload, 1, end - 7) = [i \in 1 .. end - 7 |-> buf[i + 6]]
      BY <1>0, <1>3, <1>4, <3>1
    <3> QED
      BY <3>1, <3>2
  <2>2. CASE ~(end < Len(r))
    <3>1. end = Len(r)
      BY <1>0, <2>2
    <3> QED
      BY <1>3, <1>6, <2>2, <3>1
  <2> QED
    BY <2>1, <2>2
<1> HIDE DEF text
<1>8. Len(text) = end - 7 /\ \A i \in 1 .. end - 7 : text[i] = buf[i + 6]
  BY <1>0, <1>7
<1>9. first = from - 6
  <2> DEFINE J == {i \in 1 .. Len(text) : text[i] # Space}
             n == end - 7
             m == from - 6
  <2>1. first = IF J # {} THEN Min(J) ELSE 0
    BY DEF SelectInSeq
  <2>2. n \in Nat /\ m \in 1 .. n + 1 /\ J \in SUBSET (1 .. n) /\ m <= n
    BY <1>0, <1>8
  <2>3. m \in 1 .. n => m \in J
    BY <1>0, <1>8 DEF WordBounds, InText
  <2>4. ASSUME NEW k \in 1 .. m - 1 PROVE k \notin J
    <3>1. k + 6 \in 7 .. from - 1 /\ k + 6 \in 7 .. end - 1 /\ k \in 1 .. end - 7
      BY <1>0
    <3> QED
      BY <1>0, <1>8, <3>1 DEF WordBounds, InText
  <2> HIDE DEF J, n, m
  <2>5. first = m
    BY <2>1, <2>2, <2>3, <2>4, FirstPlace
  <2> QED
    BY <2>5 DEF m
<1> HIDE DEF first
<1>10. rest = [i \in 1 .. end - from |-> buf[i + from - 1]]
  <2>1. rest = SubSeq(text, from - 6, end - 7)
    BY <1>8, <1>9
  <2>2. SubSeq(text, from - 6, end - 7) = [i \in 1 .. end - from |-> buf[i + from - 1]]
    BY <1>0, <1>7, <1>8
  <2> QED
    BY <2>1, <2>2
<1> HIDE DEF rest
<1>11. Len(rest) = end - from /\ \A i \in 1 .. end - from : rest[i] = buf[i + from - 1]
  BY <1>0, <1>10
<1>12. to = IF stop < end THEN stop - from + 1 ELSE 0
  <2> DEFINE J == {i \in 1 .. Len(rest) : rest[i] = Space}
             n == end - from
             m == stop - from + 1
  <2>1. to = IF J # {} THEN Min(J) ELSE 0
    BY DEF SelectInSeq
  <2>2. n \in Nat /\ m \in 1 .. n + 1 /\ J \in SUBSET (1 .. n)
    BY <1>0, <1>11
  <2>3. m \in 1 .. n => m \in J
    <3> SUFFICES ASSUME m \in 1 .. n PROVE m \in J
      OBVIOUS
    <3>1. stop < end /\ stop \in 7 .. end - 1 /\ m + from - 1 = stop /\ m \in 1 .. end - from
      BY <1>0
    <3>2. rest[m] = buf[m + from - 1]
      BY <1>11, <3>1
    <3> QED
      BY <1>0, <1>11, <3>1, <3>2 DEF WordBounds, InText
  <2>4. \A k \in 1 .. m - 1 : k \notin J
    <3> TAKE k \in 1 .. m - 1
    <3>1. k + from - 1 \in from .. stop - 1 /\ k \in 1 .. end - from
      BY <1>0
    <3> QED
      BY <1>11, <3>1 DEF WordBounds, InText
  <2> HIDE DEF J, n, m
  <2>5. to = IF m <= n THEN m ELSE 0
    BY <2>1, <2>2, <2>3, <2>4, FirstPlace
  <2> QED
    BY <1>0, <2>5 DEF m, n
<1> HIDE DEF to
<1>13. CASE stop < end
  <2>1. FirstWord(r) = SubSeq(rest, 1, stop - from)
    BY <1>0, <1>2, <1>9, <1>12, <1>13
  <2>2. SubSeq(rest, 1, stop - from) = [j \in 1 .. stop - from |-> buf[from + j - 1]]
    BY <1>0, <1>10, <1>11
  <2> QED
    BY <2>1, <2>2
<1>14. CASE stop = end
  <2>1. FirstWord(r) = rest
    BY <1>0, <1>2, <1>9, <1>12, <1>14
  <2> QED
    BY <1>0, <1>10, <1>14, <2>1
<1> QED
  BY <1>0, <1>13, <1>14

\* A command of a buffer that holds request r is the request's.
LEMMA CommandIs ==
    ASSUME NEW buf, NEW r \in Seq(Nat), Len(r) > HeaderSize, Len(r) < BufSize, Holds(buf, r),
           args(buf) # <<>>
    PROVE  args(buf)[1] = FirstWord(r)
<1> DEFINE t == Words(buf)
           n == Min({Len(t), StarArgs})
<1>0. HeaderSize \in Nat /\ Len(r) \in Nat
  BY DEF HeaderSize
<1>1. args(buf) = SubSeq(t, 1, n)
  BY DEF args
<1>2. Len(t) \in Nat /\ t = [i \in 1 .. Len(t) |-> t[i]]
  <2> DEFINE end == CHOOSE e \in HeaderSize .. BufSize :
                        buf[e] = NUL /\ \A k \in HeaderSize .. e - 1 : buf[k] # NUL
             Inside(k) == k \in HeaderSize .. end - 1 /\ buf[k] # Space
             starts == {k \in HeaderSize .. end : Inside(k) /\ ~Inside(k - 1)}
             Stop(k) == CHOOSE e \in k + 1 .. end : ~Inside(e) /\ \A j \in k .. e - 1 : Inside(j)
             Word(i) == LET k == Nth(starts, i) IN [j \in 1 .. Stop(k) - k |-> buf[k + j - 1]]
  <2>1. t = [i \in 1 .. Cardinality(starts) |-> Word(i)]
    BY DEF Words
  <2>2. Cardinality(starts) \in Nat
    <3> DEFINE e0 == end
    <3>1. \E e \in HeaderSize .. BufSize : buf[e] = NUL /\ \A k \in HeaderSize .. e - 1 : buf[k] # NUL
      <4> DEFINE N == {e \in HeaderSize .. BufSize : buf[e] = NUL}
      <4>1. N \in SUBSET Nat /\ Len(r) \in N
        BY <1>0, ServerAssumption DEF Holds
      <4>2. PICK e \in N : \A y \in N : e <= y
        BY <4>1, LeastExists
      <4>3. buf[e] = NUL /\ \A k \in HeaderSize .. e - 1 : buf[k] # NUL
        BY <1>0, ServerAssumption, <4>2
      <4> QED
        BY <4>2, <4>3
    <3>2. end \in HeaderSize .. BufSize
      BY <3>1
    <3> HIDE DEF end
    <3>3. end \in Nat
      BY <1>0, <3>2, ServerAssumption
    <3>4. starts \in SUBSET Nat /\ \A s \in starts : s <= end
      BY <1>0, <3>3
    <3> HIDE DEF starts
    <3> QED
      BY <3>3, <3>4, FS_BoundedSetOfNaturals, FS_CardinalityType
  <2> HIDE DEF starts, Word, t
  <2> QED
    BY <2>1, <2>2
<1> HIDE DEF t
<1>3. n \in Nat /\ n <= Len(t)
  <2>1. {Len(t), StarArgs} \in SUBSET Nat /\ {Len(t), StarArgs} # {}
    BY <1>2, ServerAssumption
  <2>2. n \in {Len(t), StarArgs} /\ \A y \in {Len(t), StarArgs} : n <= y
    BY <2>1, MinIs
  <2> QED
    BY <2>1, <2>2
<1> HIDE DEF n
<1>4. n > 0
  <2> SUFFICES ASSUME n = 0 PROVE FALSE
    BY <1>3
  <2>1. SubSeq(t, 1, 0) = <<>>
    BY <1>2
  <2> QED
    BY <1>1, <2>1
<1>5. Len(t) > 0 /\ args(buf)[1] = t[1]
  <2>1. SubSeq(t, 1, n)[1] = t[1]
    BY <1>2, <1>3, <1>4
  <2> QED
    BY <1>1, <1>2, <1>3, <1>4, <2>1
<1>6. t = Words(buf) /\ Len(r) >= HeaderSize
  BY <1>0 DEF t
<1>7. PICK end, from, stop :
         /\ TextEnd(buf, r, end) /\ WordBounds(buf, end, from, stop)
         /\ t[1] = [j \in 1 .. stop - from |-> buf[from + j - 1]]
  <2>1. Len(Words(buf)) > 0 /\ Len(r) >= HeaderSize
    BY <1>5, <1>6
  <2>2. \E end, from, stop :
          /\ TextEnd(buf, r, end) /\ WordBounds(buf, end, from, stop)
          /\ Words(buf)[1] = [j \in 1 .. stop - from |-> buf[from + j - 1]]
    BY <2>1, WordsFirst
  <2> QED
    BY <1>6, <2>2
<1>8. FirstWord(r) = t[1]
  BY <1>6, <1>7, FirstWordIs
<1> QED
  BY <1>5, <1>8

\* The buffer holds the request that was read last, up to its terminator, for as
\* long as that request is being handled; and no reply was sent to it yet.
ServerTypes ==
    /\ inbox # <<>> => inbox[1] \in Requests
    /\ taken \in Seq(Requests)
    /\ DOMAIN econet_buf = 0 .. BufSize

Replier(r) == [station |-> r[1], net |-> r[2], port |-> r[3]]

HandledInv ==
    msg # Idle =>
        /\ Len(taken) > 0
        /\ LET r == taken[Len(taken)]
           IN  /\ Len(r) >= HeaderSize /\ Holds(econet_buf, r)
               /\ msg.size = Len(r) /\ msg.reply = Replier(r) /\ msg.function_code = r[4]
        /\ \A k \in DOMAIN replies : replies[k].nth < Len(taken)

Answers(p, r) ==
    /\ Len(r) > HeaderSize /\ r[4] = 0
    /\ p.to = Replier(r)
    /\ cmdfunc(FirstWord(r)) # "none" /\ p.bytes = Answer(cmdfunc(FirstWord(r)))

RepliesInv ==
    /\ \E S : replies \in Seq(S)
    /\ \A k \in DOMAIN replies : /\ replies[k].nth \in 1 .. Len(taken)
                                 /\ Answers(replies[k], taken[replies[k].nth])
    /\ \A k \in DOMAIN replies : \A j \in 1 .. k - 1 : replies[j].nth < replies[k].nth

ServerInv == ServerTypes /\ HandledInv /\ RepliesInv

LEMMA ServerStart == ServerInit => ServerInv
<1> SUFFICES ASSUME ServerInit PROVE ServerInv
  OBVIOUS
<1>1. ServerTypes
  BY DEF ServerInit, ServerTypes
<1>2. HandledInv
  BY DEF ServerInit, HandledInv
<1>3. RepliesInv
  <2>1. replies = <<>> /\ replies \in Seq({})
    BY DEF ServerInit
  <2> QED
    BY <2>1 DEF RepliesInv
<1> QED
  BY <1>1, <1>2, <1>3 DEF ServerInv

\* What read leaves in the buffer.
LEMMA ReceivedHolds ==
    ASSUME NEW buf, DOMAIN buf = 0 .. BufSize, NEW r \in Requests
    PROVE  /\ DOMAIN Received(buf, r) = 0 .. BufSize
           /\ Len(r) >= HeaderSize => Holds(Received(buf, r), r)
<1>1. r \in Seq(Nat) /\ Len(r) \in Nat /\ Len(r) < BufSize /\ BufSize \in Nat
  BY ServerAssumption
<1>2. DOMAIN Received(buf, r) = 0 .. BufSize
  BY DEF Received
<1>3. \A k \in 0 .. Len(r) - 1 : Received(buf, r)[k] = r[k + 1]
  BY <1>1 DEF Received
<1>4. Len(r) >= HeaderSize => Received(buf, r)[Len(r)] = NUL
  BY <1>1 DEF Received
<1> QED
  BY <1>2, <1>3, <1>4 DEF Holds

LEMMA LoopReads == ASSUME ServerInv, econet_msgloop PROVE ServerInv'
<1> DEFINE r == inbox[1]
<1>1. /\ r \in Requests /\ econet_buf' = Received(econet_buf, r) /\ taken' = Append(taken, r)
      /\ inbox' = <<>> /\ replies' = replies /\ msg = Idle
      /\ msg' = IF Len(r) < HeaderSize THEN Idle
                ELSE [size |-> Len(r),
                      reply |-> [station |-> Received(econet_buf, r)[0], net |-> Received(econet_buf, r)[1],
                                 port |-> Received(econet_buf, r)[2]],
                      function_code |-> Received(econet_buf, r)[3]]
  BY DEF econet_msgloop, ServerInv, ServerTypes
<1> HIDE DEF r
<1>2. r \in Seq(Nat) /\ Len(r) \in Nat /\ HeaderSize = 7
  BY <1>1, ServerAssumption DEF HeaderSize
<1>3. taken \in Seq(Requests) /\ DOMAIN econet_buf = 0 .. BufSize
  BY DEF ServerInv, ServerTypes
<1>4. /\ Len(taken) \in Nat /\ Len(taken') = Len(taken) + 1 /\ taken' \in Seq(Requests)
      /\ taken'[Len(taken')] = r /\ \A k \in 1 .. Len(taken) : taken'[k] = taken[k]
  BY <1>1, <1>3
<1>5. ServerTypes'
  BY <1>1, <1>3, <1>4, ReceivedHolds DEF ServerTypes
<1>6. \A k \in DOMAIN replies : replies[k].nth \in 1 .. Len(taken)
  BY DEF ServerInv, RepliesInv
<1>7. HandledInv'
  <2> SUFFICES ASSUME msg' # Idle PROVE HandledInv'
    BY DEF HandledInv, Idle
  <2>1. ~(Len(r) < HeaderSize)
    BY <1>1
  <2>2. Len(r) >= HeaderSize
    BY <1>2, <2>1
  <2>3. Holds(econet_buf', r)
    BY <1>1, <1>3, <2>2, ReceivedHolds
  <2>4. econet_buf'[0] = r[1] /\ econet_buf'[1] = r[2] /\ econet_buf'[2] = r[3] /\ econet_buf'[3] = r[4]
    <3>1. \A k \in 0 .. 3 : k \in 0 .. Len(r) - 1 /\ econet_buf'[k] = r[k + 1]
      BY <1>2, <2>2, <2>3 DEF Holds
    <3> QED
      BY <3>1
  <2>5. msg'.size = Len(r) /\ msg'.reply = Replier(r) /\ msg'.function_code = r[4]
    BY <1>1, <2>1, <2>4 DEF Replier
  <2>6. \A k \in DOMAIN replies : replies[k].nth < Len(taken')
    BY <1>4, <1>6
  <2> QED
    BY <1>1, <1>4, <2>2, <2>3, <2>5, <2>6 DEF HandledInv
<1>8. RepliesInv'
  <2>1. \A k \in DOMAIN replies : /\ replies[k].nth \in 1 .. Len(taken')
                                  /\ taken'[replies[k].nth] = taken[replies[k].nth]
    BY <1>4, <1>6
  <2>2. \A k \in DOMAIN replies : Answers(replies[k], taken'[replies[k].nth])
    BY <2>1 DEF ServerInv, RepliesInv
  <2> QED
    BY <1>1, <2>1, <2>2 DEF ServerInv, RepliesInv
<1> QED
  BY <1>5, <1>7, <1>8 DEF ServerInv

\* The reply to a command is what the request asks for.
LEMMA HandlerAnswers ==
    ASSUME ServerInv, handle_starcmd, replies' # replies
    PROVE  LET r == taken[Len(taken)]
               p == [to |-> Replier(r), bytes |-> Answer(cmdfunc(FirstWord(r))), nth |-> Len(taken)]
           IN  replies' = Append(replies, p) /\ Answers(p, r)
<1> DEFINE words == IF msg.function_code = 0 /\ msg.size > HeaderSize THEN args(econet_buf) ELSE <<>>
           f == IF words = <<>> THEN "none" ELSE cmdfunc(words[1])
           r == taken[Len(taken)]
<1>1. msg # Idle /\ (IF f = "none" THEN UNCHANGED <<destmap, replies>> ELSE econet_send(msg.reply, Answer(f)))
  BY DEF handle_starcmd
<1>2. f # "none" /\ econet_send(msg.reply, Answer(f))
  BY <1>1
<1>3. words # <<>> /\ f = cmdfunc(words[1])
  BY <1>2
<1>4. msg.function_code = 0 /\ msg.size > HeaderSize /\ words = args(econet_buf) /\ args(econet_buf) # <<>>
  BY <1>3
<1> HIDE DEF words, f
<1>5. /\ Len(taken) > 0 /\ Holds(econet_buf, r)
      /\ msg.size = Len(r) /\ msg.reply = Replier(r) /\ msg.function_code = r[4]
  BY <1>1 DEF ServerInv, HandledInv
<1>6. r \in Seq(Nat) /\ Len(r) < BufSize /\ Len(r) > HeaderSize
  <2>1. r \in Requests
    BY <1>5 DEF ServerInv, ServerTypes
  <2> QED
    BY <1>4, <1>5, <2>1, ServerAssumption
<1>7. words[1] = FirstWord(r)
  BY <1>4, <1>5, <1>6, CommandIs
<1>8. f = cmdfunc(FirstWord(r))
  BY <1>3, <1>7
<1>9. replies' = Append(replies, [to |-> msg.reply, bytes |-> Answer(f), nth |-> Len(taken)])
  BY <1>2 DEF econet_send
<1> HIDE DEF r
<1>10. Answers([to |-> Replier(r), bytes |-> Answer(cmdfunc(FirstWord(r))), nth |-> Len(taken)], r)
  BY <1>2, <1>4, <1>5, <1>6, <1>8 DEF Answers
<1> QED
  BY <1>5, <1>8, <1>9, <1>10 DEF r

LEMMA HandlerKeeps == ASSUME ServerInv, handle_starcmd PROVE ServerInv'
<1>1. msg # Idle /\ msg' = Idle /\ UNCHANGED <<inbox, econet_buf, taken>>
  BY DEF handle_starcmd
<1>2. ServerTypes'
  BY <1>1 DEF ServerInv, ServerTypes
<1>3. HandledInv'
  BY <1>1 DEF HandledInv, Idle
<1>4. RepliesInv'
  <2>1. CASE replies' = replies
    BY <1>1, <2>1 DEF ServerInv, RepliesInv
  <2>2. CASE replies' # replies
    <3> DEFINE r == taken[Len(taken)]
               p == [to |-> Replier(r), bytes |-> Answer(cmdfunc(FirstWord(r))), nth |-> Len(taken)]
    <3>1. replies' = Append(replies, p) /\ Answers(p, r)
      BY <2>2, HandlerAnswers
    <3>2. p.nth = Len(taken)
      OBVIOUS
    <3> HIDE DEF p, r
    <3>3. PICK S : replies \in Seq(S)
      BY DEF ServerInv, RepliesInv
    <3>4. replies \in Seq(S \cup {p}) /\ p \in S \cup {p}
      BY <3>3
    <3>5. /\ Len(replies) \in Nat /\ DOMAIN replies = 1 .. Len(replies) /\ DOMAIN replies' = 1 .. Len(replies) + 1
          /\ replies' \in Seq(S \cup {p})
          /\ replies'[Len(replies) + 1] = p /\ \A k \in 1 .. Len(replies) : replies'[k] = replies[k]
      BY <3>1, <3>4
    <3>6. Len(taken) \in Nat /\ Len(taken) > 0 /\ \A k \in DOMAIN replies : replies[k].nth < Len(taken)
      BY <1>1 DEF ServerInv, ServerTypes, HandledInv
    <3>7. \A k \in DOMAIN replies' : k \in DOMAIN replies \/ k = Len(replies) + 1
      BY <3>5
    <3>8. \A k \in DOMAIN replies' : /\ replies'[k].nth \in 1 .. Len(taken)
                                    /\ Answers(replies'[k], taken[replies'[k].nth])
      <4> TAKE k \in DOMAIN replies'
      <4>1. CASE k \in DOMAIN replies
        BY <3>5, <4>1 DEF ServerInv, RepliesInv
      <4>2. CASE k = Len(replies) + 1
        BY <3>1, <3>2, <3>5, <3>6, <4>2 DEF r
      <4> QED
        BY <3>7, <4>1, <4>2
    <3>9. \A k \in DOMAIN replies' : \A j \in 1 .. k - 1 : replies'[j].nth < replies'[k].nth
      <4> TAKE k \in DOMAIN replies'
      <4> TAKE j \in 1 .. k - 1
      <4>1. j \in DOMAIN replies /\ replies'[j] = replies[j]
        BY <3>5
      <4>2. CASE k \in DOMAIN replies
        BY <3>5, <4>1, <4>2 DEF ServerInv, RepliesInv
      <4>3. CASE k = Len(replies) + 1
        BY <3>2, <3>5, <3>6, <4>1, <4>3
      <4> QED
        BY <3>7, <4>2, <4>3
    <3> QED
      BY <1>1, <3>5, <3>8, <3>9 DEF RepliesInv
  <2> QED
    BY <2>1, <2>2
<1> QED
  BY <1>2, <1>3, <1>4 DEF ServerInv

LEMMA ServerStep == ServerInv /\ [ServerNext]_servervars => ServerInv'
<1> SUFFICES ASSUME ServerInv, [ServerNext]_servervars PROVE ServerInv'
  OBVIOUS
<1>1. ASSUME NEW r \in Requests, RequestArrives(r) PROVE ServerInv'
  <2>1. inbox' = <<r>> /\ UNCHANGED <<econet_buf, msg, taken, replies>>
    BY <1>1 DEF RequestArrives
  <2>2. ServerTypes'
    BY <2>1 DEF ServerInv, ServerTypes
  <2>3. HandledInv' /\ RepliesInv'
    BY <2>1 DEF ServerInv, HandledInv, RepliesInv
  <2> QED
    BY <2>2, <2>3 DEF ServerInv
<1>2. CASE UNCHANGED servervars
  BY <1>2 DEF servervars, ServerInv, ServerTypes, HandledInv, RepliesInv
<1> QED
  BY <1>1, <1>2, LoopReads, HandlerKeeps DEF ServerNext

\* The file server answers every command for what it is, to the station that sent it
\* and at most once, for any requests in any order and number: longer messages that
\* were in the buffer before, and requests that arrive while one is being handled, do
\* not show in a reply.
THEOREM RepliesAreAnswers == ServerSpec => []RepliesAnswer
<1>1. ServerInv => RepliesAnswer
  BY DEF ServerInv, RepliesInv, RepliesAnswer, Answers, Replier
<1> QED
  BY <1>1, ServerStart, ServerStep, PTL DEF ServerSpec

-----------------------------------------------------------------------------
(* The network monitor *)

\* The four zero bytes that lastack holds after a clearing are no frame's that is an
\* acknowledgement; of the acknowledgements that came the newest is the last.
FrameInv ==
    /\ frame \in [addr : FrameAddrs \cup {NoAddress}, len : Nat]
    /\ frame.len = ACK_LEN => /\ frame.addr \in FrameAddrs
                              /\ Len(acks) > 0 /\ acks[Len(acks)] = frame.addr
    /\ frames \in Nat /\ total \in Nat /\ frames <= total
    /\ ~missed => frames <= 1

DecoderTypes ==
    /\ acks \in Seq(FrameAddrs) /\ missed \in BOOLEAN
    /\ lastack \in FrameAddrs \cup {NoAddress}
    /\ ack_count \in 0 .. CountMod - 1

\* The last acknowledgements up to the n-th are as many more of that address as counted.
Tells(seq, n, count, addr) == count < n /\ \A k \in 0 .. count : seq[n - k] = addr

Came(seq, addr) == \E k \in 1 .. Len(seq) : seq[k] = addr

\* What holds of the address in lastack, also before the first repeat of it.
RepeatsInv ==
    /\ lastack = NoAddress => ack_count = 0
    /\ lastack # NoAddress => /\ Came(acks, lastack) /\ ack_count < total - frames
                              /\ ~missed => Tells(acks, Decoded, ack_count, lastack)

MonInv == FrameInv /\ DecoderTypes /\ RepeatsInv

LEMMA MonInit == MonitorInit => MonInv
<1> SUFFICES ASSUME MonitorInit PROVE MonInv
  OBVIOUS
<1>1. FrameInv
  BY DEF MonitorInit, FrameInv, ACK_LEN, SCOUT_LEN
<1>2. DecoderTypes
  <2>1. acks = <<>> /\ ack_count = 0 /\ lastack = NoAddress /\ missed \in BOOLEAN
    BY Zenon DEF MonitorInit
  <2>2. 0 \in 0 .. CountMod - 1
    BY MonitorAssumption
  <2> QED
    BY <2>1, <2>2 DEF DecoderTypes
<1>3. RepeatsInv
  BY DEF MonitorInit, RepeatsInv
<1> QED
  BY <1>1, <1>2, <1>3 DEF MonInv

\* The counter goes up by one or wraps to zero.
LEMMA Counter ==
    \A c, m \in Nat : c < m => (c + 1) % m \in 0 .. m - 1 /\ (c + 1) % m \in {0, c + 1}
<1> SUFFICES ASSUME NEW c \in Nat, NEW m \in Nat, c < m
             PROVE  (c + 1) % m \in 0 .. m - 1 /\ (c + 1) % m \in {0, c + 1}
  OBVIOUS
<1>1. CASE c + 1 < m
  BY <1>1
<1>2. CASE c + 1 = m
  BY <1>2
<1> QED
  BY <1>1, <1>2

\* What the history tells up to n it still tells when it is longer.
LEMMA TellsLonger ==
    ASSUME NEW seq \in Seq(FrameAddrs), NEW n \in 0 .. Len(seq), NEW a, NEW count \in Nat, NEW addr,
           Tells(seq, n, count, addr)
    PROVE  Tells(Append(seq, a), n, count, addr)
<1>1. ASSUME NEW k \in 0 .. count PROVE n - k \in 1 .. Len(seq)
  BY DEF Tells
<1>2. \A j \in 1 .. Len(seq) : Append(seq, a)[j] = seq[j]
  OBVIOUS
<1> QED
  BY <1>1, <1>2 DEF Tells

LEMMA CameLonger ==
    ASSUME NEW seq \in Seq(FrameAddrs), NEW a, NEW addr, Came(seq, addr) PROVE Came(Append(seq, a), addr)
BY DEF Came

\* One more acknowledgement of the same address is given to the decoder.
LEMMA TellsNext ==
    ASSUME NEW seq \in Seq(FrameAddrs), NEW n \in Nat, NEW count \in Nat, NEW more \in {0, count + 1},
           NEW addr, seq[n + 1] = addr, Tells(seq, n, count, addr)
    PROVE  Tells(seq, n + 1, more, addr)
<1>1. more < n + 1
  BY DEF Tells
<1>2. ASSUME NEW k \in 0 .. more PROVE seq[n + 1 - k] = addr
  <2>1. CASE k = 0
    BY <2>1
  <2>2. CASE k # 0
    <3>1. k - 1 \in 0 .. count /\ n + 1 - k = n - (k - 1)
      BY <2>2
    <3> QED
      BY <3>1 DEF Tells
  <2> QED
    BY <2>1, <2>2
<1> QED
  BY <1>1, <1>2 DEF Tells

\* A frame comes: the decoder was given the same ones as before, if none is overtaken.
LEMMA ArrivalKeeps ==
    ASSUME MonInv, NEW a \in FrameAddrs, NEW len \in Lengths, FrameArrives(a, len) PROVE MonInv'
<1>1. /\ frame' = [addr |-> a, len |-> len] /\ frames' = frames + 1 /\ total' = total + 1
      /\ acks' = (IF len = ACK_LEN THEN Append(acks, a) ELSE acks)
      /\ missed' = (missed \/ frames > 0) /\ lastack' = lastack /\ ack_count' = ack_count
  BY DEF FrameArrives, decoder
<1>2. acks \in Seq(FrameAddrs) /\ Len(acks) \in Nat /\ frames \in Nat /\ total \in Nat /\ frames <= total
  BY DEF MonInv, DecoderTypes, FrameInv
<1>3. acks' \in Seq(FrameAddrs) /\ (len = ACK_LEN => Len(acks') = Len(acks) + 1 /\ acks'[Len(acks')] = a)
  <2>1. CASE len = ACK_LEN
    BY <1>1, <1>2, <2>1
  <2>2. CASE len # ACK_LEN
    BY <1>1, <1>2, <2>2
  <2> QED
    BY <2>1, <2>2
<1>4. len \in Nat
  BY DEF Lengths, ACK_LEN, SCOUT_LEN, IMMSCOUT_LEN
<1>5. missed' \in BOOLEAN /\ (~missed' => ~missed /\ frames = 0)
  <2>1. missed' \in BOOLEAN
    BY <1>1, Zenon
  <2>2. ~missed' => ~missed /\ ~(frames > 0)
    BY <1>1, Zenon
  <2> QED
    BY <1>2, <2>1, <2>2
<1>6. FrameInv'
  <2>1. frame'.addr = a /\ frame'.len = len /\ frame' \in [addr : FrameAddrs \cup {NoAddress}, len : Nat]
    BY <1>1, <1>4
  <2>2. len = ACK_LEN => Len(acks') > 0 /\ acks'[Len(acks')] = a
    BY <1>2, <1>3
  <2>3. frames' \in Nat /\ total' \in Nat /\ frames' <= total' /\ (~missed' => frames' <= 1)
    BY <1>1, <1>2, <1>5
  <2> QED
    BY <2>1, <2>2, <2>3 DEF FrameInv
<1>7. DecoderTypes'
  BY <1>1, <1>3, <1>5 DEF MonInv, DecoderTypes
<1>8. RepeatsInv'
  <2>1. CASE lastack = NoAddress
    BY <1>1, <2>1 DEF MonInv, RepeatsInv
  <2>2. CASE lastack # NoAddress
    <3>1. Came(acks', lastack)
      BY <1>1, <1>2, <2>2, CameLonger DEF MonInv, RepeatsInv
    <3>2. ack_count < total' - frames'
      BY <1>1, <1>2, <2>2 DEF MonInv, RepeatsInv, DecoderTypes
    <3>3. ASSUME ~missed' PROVE Tells(acks', Decoded', ack_count, lastack)
      <4>1. Decoded = Len(acks) /\ Tells(acks, Len(acks), ack_count, lastack)
        BY <1>2, <1>5, <2>2, <3>3 DEF Decoded, MonInv, RepeatsInv
      <4>2. frame'.len = len /\ frames' > 0
        BY <1>1, <1>2
      <4>3. CASE len = ACK_LEN
        <5>1. Decoded' = Len(acks) /\ acks' = Append(acks, a)
          BY <1>1, <1>2, <1>3, <4>2, <4>3 DEF Decoded
        <5>2. Len(acks) \in 0 .. Len(acks) /\ ack_count \in Nat
          BY <1>2, MonitorAssumption DEF MonInv, DecoderTypes
        <5>3. Tells(Append(acks, a), Len(acks), ack_count, lastack)
          BY <1>2, <4>1, <5>2, TellsLonger
        <5> QED
          BY <5>1, <5>3
      <4>4. CASE len # ACK_LEN
        BY <1>1, <1>2, <4>1, <4>2, <4>4 DEF Decoded
      <4> QED
        BY <4>3, <4>4
    <3> QED
      BY <1>1, <2>2, <3>1, <3>2, <3>3 DEF RepeatsInv
  <2> QED
    BY <2>1, <2>2
<1> QED
  BY <1>6, <1>7, <1>8 DEF MonInv

\* What a read leaves of the frames.
LEMMA ReadTakes ==
    ASSUME MonInv, ReadFrame
    PROVE  /\ FrameInv' /\ acks' = acks /\ missed' = missed /\ missed \in BOOLEAN
           /\ frames \in Nat /\ frames > 0 /\ frames' = frames - 1 /\ total \in Nat /\ total' = total
           /\ frames <= total /\ frame' = frame /\ acks \in Seq(FrameAddrs) /\ Len(acks) \in Nat
           /\ ~missed => frames' = 0
<1>1. /\ frame' = frame /\ frames > 0 /\ frames' = frames - 1 /\ total' = total
      /\ acks' = acks /\ missed' = missed
  BY DEF ReadFrame
<1>2. /\ frames \in Nat /\ total \in Nat /\ frames <= total /\ (~missed => frames <= 1)
      /\ acks \in Seq(FrameAddrs) /\ missed \in BOOLEAN
  BY DEF MonInv, FrameInv, DecoderTypes
<1>3. FrameInv'
  BY <1>1, <1>2 DEF MonInv, FrameInv
<1> QED
  BY <1>1, <1>2, <1>3

\* An acknowledgement is decoded.
LEMMA AckKeeps ==
    ASSUME MonInv, ReadFrame, frame.len = ACK_LEN, DecodeAck(frame.addr) PROVE MonInv'
<1> DEFINE a == frame.addr
           n == Len(acks) - 1
<1>1. /\ FrameInv' /\ acks' = acks /\ missed' = missed /\ missed \in BOOLEAN
      /\ frames \in Nat /\ frames > 0 /\ frames' = frames - 1 /\ total \in Nat /\ total' = total
      /\ frames <= total /\ frame' = frame /\ acks \in Seq(FrameAddrs) /\ Len(acks) \in Nat
      /\ ~missed => frames' = 0
  BY ReadTakes
<1>2. a \in FrameAddrs /\ a # NoAddress /\ Len(acks) > 0 /\ acks[Len(acks)] = a
  BY MonitorAssumption DEF MonInv, FrameInv
<1>3. ack_count \in Nat /\ ack_count < CountMod /\ CountMod \in Nat /\ CountMod > 1
  BY MonitorAssumption DEF MonInv, DecoderTypes
<1>4. Came(acks, a)
  BY <1>1, <1>2 DEF Came
<1>5. Decoded = n /\ n \in Nat /\ n + 1 = Len(acks)
  BY <1>1, <1>2 DEF Decoded
<1>6. ~missed' => Decoded' = n + 1
  BY <1>1, <1>5 DEF Decoded
<1> HIDE DEF n, a
<1>7. CASE a = lastack
  <2>1. ack_count' = (ack_count + 1) % CountMod /\ lastack' = lastack
    BY <1>7 DEF DecodeAck, a
  <2>2. ack_count' \in 0 .. CountMod - 1 /\ ack_count' \in {0, ack_count + 1}
    BY <1>3, <2>1, Counter
  <2>3. ack_count < total - frames /\ (~missed => Tells(acks, n, ack_count, a))
    BY <1>2, <1>5, <1>7 DEF MonInv, RepeatsInv
  <2>4. ack_count' < total' - frames'
    BY <1>1, <1>3, <2>2, <2>3
  <2>5. ASSUME ~missed PROVE Tells(acks, n + 1, ack_count', a)
    BY <1>1, <1>2, <1>3, <1>5, <2>2, <2>3, <2>5, TellsNext
  <2>6. DecoderTypes'
    BY <1>1, <1>2, <1>7, <2>1, <2>2 DEF DecoderTypes
  <2>7. RepeatsInv'
    BY <1>1, <1>2, <1>4, <1>6, <1>7, <2>1, <2>4, <2>5 DEF RepeatsInv
  <2> QED
    BY <1>1, <2>6, <2>7 DEF MonInv
<1>8. CASE a # lastack
  <2>1. lastack' = a /\ ack_count' = 0
    BY <1>8 DEF DecodeAck, a
  <2>2. DecoderTypes'
    BY <1>1, <1>2, <1>3, <2>1 DEF DecoderTypes
  <2>3. 0 < total' - frames'
    BY <1>1
  <2>4. Tells(acks, n + 1, 0, a)
    BY <1>2, <1>5 DEF Tells
  <2>5. RepeatsInv'
    BY <1>1, <1>2, <1>4, <1>6, <2>1, <2>3, <2>4 DEF RepeatsInv
  <2> QED
    BY <1>1, <2>2, <2>5 DEF MonInv
<1> QED
  BY <1>7, <1>8

\* Another frame is decoded, or one that is too short: counter and address are
\* cleared together or kept, and no acknowledgement was waiting.
LEMMA OtherKeeps ==
    ASSUME MonInv, ReadFrame, frame.len # ACK_LEN,
           \/ UNCHANGED <<ack_count, lastack>>
           \/ ack_count' = 0 /\ lastack' = NoAddress
    PROVE  MonInv'
<1>1. /\ FrameInv' /\ acks' = acks /\ missed' = missed /\ missed \in BOOLEAN
      /\ frames \in Nat /\ frames > 0 /\ frames' = frames - 1 /\ total \in Nat /\ total' = total
      /\ frames <= total /\ frame' = frame /\ acks \in Seq(FrameAddrs) /\ Len(acks) \in Nat
      /\ ~missed => frames' = 0
  BY ReadTakes
<1>2. CASE ack_count' = 0 /\ lastack' = NoAddress
  <2>1. DecoderTypes' /\ RepeatsInv'
    BY <1>1, <1>2, MonitorAssumption DEF MonInv, DecoderTypes, RepeatsInv
  <2> QED
    BY <1>1, <2>1 DEF MonInv
<1>3. CASE UNCHANGED <<ack_count, lastack>>
  <2>1. Decoded' = Decoded
    BY <1>1 DEF Decoded
  <2>2. ack_count < total - frames => ack_count < total' - frames'
    BY <1>1, MonitorAssumption DEF MonInv, DecoderTypes
  <2>3. DecoderTypes' /\ RepeatsInv'
    BY <1>1, <1>3, <2>1, <2>2 DEF MonInv, DecoderTypes, RepeatsInv
  <2> QED
    BY <1>1, <2>3 DEF MonInv
<1> QED
  BY <1>2, <1>3

LEMMA MonStep == MonInv /\ [MonitorNext]_monitorvars => MonInv'
<1> SUFFICES ASSUME MonInv, [MonitorNext]_monitorvars PROVE MonInv'
  OBVIOUS
<1>1. ASSUME NEW a \in FrameAddrs, NEW len \in Lengths, FrameArrives(a, len) PROVE MonInv'
  BY <1>1, ArrivalKeeps
<1>2. CASE ReadFrame
  <2>1. frame.len \in Nat
    BY DEF MonInv, FrameInv
  <2>2. CASE frame.len = ACK_LEN
    <3>1. DecodeAck(frame.addr)
      BY <1>2, <2>2 DEF ReadFrame, decode_frame, ACK_LEN
    <3> QED
      BY <1>2, <2>2, <3>1, AckKeeps
  <2>3. CASE frame.len # ACK_LEN
    <3>1. UNCHANGED <<ack_count, lastack>> \/ (ack_count' = 0 /\ lastack' = NoAddress)
      BY <1>2, <2>3 DEF ReadFrame, decode_frame, DecodeOther
    <3> QED
      BY <1>2, <2>3, <3>1, OtherKeeps
  <2> QED
    BY <2>2, <2>3
<1>3. CASE UNCHANGED <<frame, frames, total, lastack, ack_count, acks, missed>>
  BY <1>3 DEF MonInv, FrameInv, DecoderTypes, RepeatsInv, Decoded
<1>4. CASE PeekFrame \/ PeekKey \/ Press
  BY <1>3, <1>4 DEF PeekFrame, PeekKey, Press, decoder
<1>5. CASE UNCHANGED monitorvars
  BY <1>3, <1>5 DEF monitorvars, decoder
<1> QED
  BY <1>1, <1>2, <1>4, <1>5 DEF MonitorNext, MonitorLoop

\* decode_frame's report of repeated acknowledgements for every order of frames and
\* reads, and also after its 16-bit counter wrapped: an acknowledgement of the address
\* came, and as many frames as it reports; as long as each frame is read before the
\* next one comes, all of them were acknowledgements of that address.
THEOREM RepeatsAreCounted == MonitorSpec => []CountsRepeats
<1>1. MonInv => CountsRepeats
  <2> SUFFICES ASSUME MonInv, ack_count > 0
               PROVE  /\ \E k \in 1 .. Len(acks) : acks[k] = lastack
                      /\ ack_count < total - frames
                      /\ ~missed => /\ ack_count < Decoded
                                    /\ \A k \in 0 .. ack_count : acks[Decoded - k] = lastack
    BY DEF CountsRepeats
  <2>1. lastack # NoAddress
    BY DEF MonInv, RepeatsInv
  <2> QED
    BY <2>1 DEF MonInv, RepeatsInv, Came, Tells
<1> QED
  BY <1>1, MonInit, MonStep, PTL DEF MonitorSpec
=============================================================================
