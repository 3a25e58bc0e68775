----------------------------- MODULE MCPrograms -----------------------------
(* User programs for TLC: what the kernel does to load and run them, or    *)
(* the file server, or the network monitor, which share no state.          *)
EXTENDS Programs, FileServer, Monitor, TLC

VARIABLE part

allvars == <<vars, servervars, monitorvars, part>>

AllInit == Init /\ ServerInit /\ MonitorInit /\ part \in {"kernel", "server", "monitor"}

AllNext ==
    /\ UNCHANGED part
    /\ \/ part = "kernel" /\ Next /\ UNCHANGED <<servervars, monitorvars>>
       \/ part = "server" /\ ServerNext /\ UNCHANGED <<vars, monitorvars>>
       \/ part = "monitor" /\ MonitorNext /\ UNCHANGED <<vars, servervars>>

AllSpec == AllInit /\ [][AllNext]_allvars

-----------------------------------------------------------------------------
(* Requests: a long one, short ones of another station that end where the  *)
(* long one goes on, one of more words than arguments, one of blanks, one  *)
(* of another function, one from station 0 and one without a header.       *)
Request(station, port, code, payload) == <<station, 0, port, code, 0, 0, 0>> \o payload
MCRequests ==
    {Request(1, 9, 0, <<UpperI, Space, 5, 5>>), Request(2, 8, 0, <<LetterE>>),
     Request(2, 8, 0, <<LetterI, NUL, 5>>), Request(1, 9, 0, <<5>>), Request(1, 9, 0, <<>>),
     Request(2, 9, 0, <<Space, LetterE, Space, 5, Space>>), Request(1, 9, 0, <<Space>>),
     Request(2, 8, 6, <<LetterI>>), Request(0, 9, 0, <<LetterI>>), <<1, 0>>}

Segment(a, f, m, h) == [load |-> TRUE, paddr |-> a, filesz |-> f, memsz |-> m, have |-> h]
Note == [load |-> FALSE, paddr |-> 0, filesz |-> 2, memsz |-> 2, have |-> 2]

Elf(n, headers, g) == [id |-> n, elf |-> TRUE, phdr |-> headers, entry |-> 16, gp |-> g]

a == 2
b == 3
c == 4
d == 5
i == 6
w == 7
e == 8

(* init, a flash that was erased or is being rewritten, and one with a     *)
(* program that has no start address.                                      *)
MCFlashes == {Elf(1, <<Segment(16, 3, 5, 3)>>, 21),
              [NoProgram EXCEPT !.id = 1],
              [Elf(1, <<Segment(16, 3, 5, 3)>>, 21) EXCEPT !.entry = 0]}

(* a: text, a note, and data with bss; b: one segment, cut short in the    *)
(* file; c: below user memory; d: segments in descending order; e: leaves  *)
(* no room for a pool; i: has no start address.                            *)
MCFiles ==
    (<<a>> :> Elf(2, <<Segment(16, 4, 4, 4), Note, Segment(21, 2, 5, 2)>>, 20)) @@
    (<<b>> :> Elf(3, <<Segment(16, 6, 6, 4)>>, 16)) @@
    (<<c>> :> Elf(4, <<Segment(16, 2, 2, 2), Segment(8, 2, 2, 2)>>, 16)) @@
    (<<d>> :> Elf(5, <<Segment(22, 2, 3, 2), Segment(16, 2, 2, 2)>>, 16)) @@
    (<<e>> :> Elf(6, <<Segment(16, 1, 38, 1)>>, 16)) @@
    (<<i>> :> [Elf(7, <<Segment(16, 2, 3, 2)>>, 17) EXCEPT !.entry = 0])

(* One argument, blanks around them, more than MAXARGS of them, a line     *)
(* that fills its block of the stack, one that names no program, one with  *)
(* an invalid program, one whose program has no start address and one that *)
(* begins with a blank.                                                    *)
MCLines == {<<a>>, <<a, 1, b, 1, 1, c, 1>>, <<a, 1, b, 1, c, 1, d, 1, i>>, <<a, 1, b, c>>,
            <<b, 1, a>>, <<c, 1, a>>, <<d>>, <<w, 1, a>>, <<1, a>>, <<e>>, <<i, 1, a>>}
MCWarm == <<i, 1, w>>
MCCold == <<i, 1, c>>
MCIncrements == {3, 12, -3}

(* What the theorem about arguments asks of command lines. *)
ASSUME LinesAssumption == LinesFit
=============================================================================
