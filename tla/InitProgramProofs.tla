------------------------- MODULE InitProgramProofs -------------------------
(***************************************************************************)
(* The proofs that the init program keeps the network's settings as they   *)
(* were asked for, and runs its script once, in order and for one          *)
(* descriptor at most, for any script, any typed lines and any number of   *)
(* starts; and that its XMODEM receiver acknowledges what is in the file.  *)
(***************************************************************************)
EXTENDS InitProgram, Xmodem, OrderProofs

\* The settings a pair of address and register stands for.
Agrees(addr, reg, w) ==
    /\ addr = w.station
    /\ reg = ShiftedBy8(w.div) \cup (IF w.clock THEN CLOCK_ENABLE ELSE {})
                               \cup (IF w.term THEN TERM_ENABLE ELSE {})

WantedOK(w) ==
    /\ w = [station |-> w.station, div |-> w.div, clock |-> w.clock, term |-> w.term]
    /\ w.div \in 1 .. 7 /\ w.clock \in BOOLEAN /\ w.term \in BOOLEAN

Steps == {"start", "script", "prompt", "program"}
OfScript == IF at = "script" THEN 1 ELSE 0

\* Descriptors: stdio, the volume's once it is mounted, the script's while it is read,
\* and the one a program left that the script ran.
OpenInv ==
    /\ open \in Int /\ left \in {0, 1} /\ at \in Steps /\ warm \in BOOLEAN
    /\ open - left - OfScript \in {3, 4}
    /\ at = "script" => left = 0
    /\ at = "start" /\ ~warm => open = 3 /\ left = 0

SetInv == WantedOK(wanted) /\ SettingsAgree

NextInv == next \in Nat /\ next >= 1

IInv == OpenInv /\ SetInv /\ NextInv

-----------------------------------------------------------------------------
(* The register. *)

\* A divider of three bits stays clear of the enable bits.
LEMMA Divider == \A n \in 1 .. 7 : ShiftedBy8(n) \subseteq {8, 9, 10}
<1> SUFFICES ASSUME NEW n \in 1 .. 7 PROVE ShiftedBy8(n) \subseteq {8, 9, 10}
  OBVIOUS
<1>1. 2^3 = 8 /\ 2^4 = 16 /\ 2^5 = 32 /\ 2^6 = 64 /\ 2^7 = 128
  OBVIOUS
<1>2. \A d \in {8, 16, 32, 64, 128} : n \div d = 0
  OBVIOUS
<1>3. \A b \in 3 .. 7 : 2^b \in {8, 16, 32, 64, 128}
  <2>1. \A b \in 3 .. 7 : b = 3 \/ b = 4 \/ b = 5 \/ b = 6 \/ b = 7
    OBVIOUS
  <2> QED
    BY <1>1, <2>1, ZenonT(60)
<1>4. ASSUME NEW b \in 3 .. 7 PROVE (n \div 2^b) % 2 # 1
  <2>1. PICK d \in {8, 16, 32, 64, 128} : d = 2^b
    BY <1>3, ZenonT(60)
  <2>2. n \div d = 0
    BY <1>2
  <2>3. (n \div d) % 2 # 1
    BY <2>2
  <2> QED
    BY <2>1, <2>3
<1>5. \A b \in BitsOf(n) : b \in 0 .. 7 /\ b \notin 3 .. 7
  BY <1>4 DEF BitsOf
<1>6. \A b \in BitsOf(n) : b = 0 \/ b = 1 \/ b = 2
  BY <1>5
<1> QED
  BY <1>6 DEF ShiftedBy8

\* What a configure command is about.
Item(argv, w) == argv[2] = w

LEMMA Tails ==
    ASSUME NEW argv \in Seq(STRING), Len(argv) >= 2
    PROVE  /\ Len(argv) \in Nat /\ (Len(argv) = 2 \/ Len(argv) > 2) /\ Len(Tail(argv)) = Len(argv) - 1
           /\ Len(argv) > 2 => Tail(argv)[2] = argv[3]
           /\ Len(argv) > 3 => Tail(argv)[3] = argv[4]
<1>1. Len(argv) \in Nat /\ Len(Tail(argv)) = Len(argv) - 1
  OBVIOUS
<1>2. /\ Len(argv) > 2 => Tail(argv)[2] = argv[3]
      /\ Len(argv) > 3 => Tail(argv)[3] = argv[4]
  OBVIOUS
<1>3. \A n \in Nat : n >= 2 => n = 2 \/ n > 2
  OBVIOUS
<1> QED
  BY <1>1, <1>2, <1>3

-----------------------------------------------------------------------------
(* configure *)

Asked(argv) == IF Len(argv) > 2 /\ open < MAX_FILE_DESCRIPTORS THEN Ask(wanted, argv) ELSE wanted

\* A configure command leaves the settings that were asked for, and the descriptors.
Keeps(s, w) == s.fds = open /\ WantedOK(w) /\ Agrees(s.addr, s.reg, w)

LEMMA Nothing == ASSUME OpenInv, SetInv PROVE Keeps(State, wanted)
BY DEF SetInv, SettingsAgree, Keeps, State, Agrees

LEMMA Device ==
    ASSUME OpenInv, SetInv, NEW argv, NEW addr, NEW reg, NEW after,
           open < MAX_FILE_DESCRIPTORS => after = [addr |-> addr, reg |-> reg, fds |-> open + 1],
           open < MAX_FILE_DESCRIPTORS =>
              WantedOK(Asked(argv)) /\ Agrees(addr, reg, Asked(argv))
    PROVE  Keeps(WithDevice(State, after), Asked(argv))
<1>1. open <= MAX_FILE_DESCRIPTORS /\ open \in Int /\ MAX_FILE_DESCRIPTORS \in Nat
  BY InitAssumption DEF OpenInv, OfScript
<1>2. CASE open = MAX_FILE_DESCRIPTORS
  <2>1. WithDevice(State, after) = State /\ Asked(argv) = wanted
    BY <1>1, <1>2 DEF WithDevice, State, Asked
  <2> QED
    BY <2>1, Nothing
<1>3. CASE open < MAX_FILE_DESCRIPTORS
  <2>1. after = [addr |-> addr, reg |-> reg, fds |-> open + 1] /\ open # MAX_FILE_DESCRIPTORS
    BY <1>1, <1>3
  <2>2. WithDevice(State, after) = [addr |-> addr, reg |-> reg, fds |-> (open + 1) - 1]
    BY <2>1 DEF WithDevice, State, Closed
  <2>3. (open + 1) - 1 = open
    BY <1>1
  <2> QED
    BY <1>3, <2>2, <2>3 DEF Keeps
<1> QED
  BY <1>1, <1>2, <1>3

LEMMA OpenedState ==
    Opened(State) = [addr |-> econet_address, reg |-> econet_clkterm, fds |-> open + 1]
BY DEF Opened, State

\* The command is refused, or changes nothing.
LEMMA Refused ==
    ASSUME OpenInv, SetInv, NEW argv, Asked(argv) = wanted
    PROVE  Keeps(WithDevice(State, Opened(State)), Asked(argv))
<1>1. WantedOK(Asked(argv)) /\ Agrees(econet_address, econet_clkterm, Asked(argv))
  BY Nothing DEF Keeps, State
<1> QED
  BY <1>1, OpenedState, Device

LEMMA Register ==
    \A a, b, c, w : econet_set_clkterm([addr |-> a, reg |-> b, fds |-> c], w)
                       = [addr |-> a, reg |-> w \cap RegisterBits, fds |-> c]
<1> SUFFICES ASSUME NEW a, NEW b, NEW c, NEW w
             PROVE  econet_set_clkterm([addr |-> a, reg |-> b, fds |-> c], w)
                       = [addr |-> a, reg |-> w \cap RegisterBits, fds |-> c]
  OBVIOUS
<1> DEFINE x == w \cap RegisterBits
           s == [addr |-> a, reg |-> b, fds |-> c]
<1>1. econet_set_clkterm(s, w) = [s EXCEPT !.reg = x]
  BY DEF econet_set_clkterm
<1> HIDE DEF x
<1>2. [s EXCEPT !.reg = x] = [addr |-> a, reg |-> x, fds |-> c]
  OBVIOUS
<1> QED
  BY <1>1, <1>2 DEF x

LEMMA ForStation ==
    ASSUME OpenInv, SetInv, NEW argv \in Seq(STRING), Len(argv) >= 2, Item(argv, "netstation")
    PROVE  Keeps(WithDevice(State, cfg_station(Opened(State), Tail(argv))), Asked(argv))
<1> DEFINE n == atoi[argv[3]]
<1>0. Len(argv) \in Nat /\ (Len(argv) = 2 \/ Len(argv) > 2)
  BY Tails
<1>1. CASE Len(argv) = 2 \/ n % 256 = 0
  <2>1. Asked(argv) = wanted
    BY <1>1 DEF Asked, Ask, Item
  <2>2. cfg_station(Opened(State), Tail(argv)) = Opened(State)
    <3>1. CASE Len(argv) = 2
      <4>1. Len(Tail(argv)) = 1
        BY <3>1, Tails
      <4> QED
        BY <4>1 DEF cfg_station
    <3>2. CASE Len(argv) > 2 /\ n % 256 = 0
      <4>1. Tail(argv)[2] = argv[3]
        BY <3>2, Tails
      <4> QED
        BY <3>2, <4>1 DEF cfg_station
    <3> QED
      BY <1>0, <1>1, <3>1, <3>2
  <2> QED
    BY <2>1, <2>2, Refused
<1>2. CASE Len(argv) > 2 /\ n % 256 # 0
  <2>1. cfg_station(Opened(State), Tail(argv)) =
           [addr |-> n % 256, reg |-> econet_clkterm, fds |-> open + 1]
    BY <1>2, Tails, OpenedState DEF cfg_station
  <2>2. ASSUME open < MAX_FILE_DESCRIPTORS
        PROVE  Asked(argv) = [wanted EXCEPT !.station = n % 256]
    BY <1>2, <2>2 DEF Asked, Ask, Item
  <2>3. ASSUME open < MAX_FILE_DESCRIPTORS
        PROVE  WantedOK(Asked(argv)) /\ Agrees(n % 256, econet_clkterm, Asked(argv))
    <3> DEFINE w == Asked(argv)
    <3>1. /\ w = [station |-> n % 256, div |-> wanted.div, clock |-> wanted.clock, term |-> wanted.term]
      BY <2>2, <2>3 DEF SetInv, WantedOK
    <3> HIDE DEF w, n
    <3> QED
      BY <3>1 DEF SetInv, SettingsAgree, WantedOK, Agrees, w
  <2> QED
    BY <2>1, <2>3, Device
<1> QED
  BY <1>0, <1>1, <1>2

LEMMA ForClock ==
    ASSUME OpenInv, SetInv, NEW argv \in Seq(STRING), Len(argv) >= 2, Item(argv, "netclock")
    PROVE  Keeps(WithDevice(State, cfg_netclock(Opened(State), Tail(argv))), Asked(argv))
<1> DEFINE n == atoi[argv[3]]
           on == Len(argv) > 3 /\ argv[4] = "enable"
           enabled == IF on THEN econet_clkterm \cup CLOCK_ENABLE ELSE econet_clkterm \ CLOCK_ENABLE
           reg == ((enabled \cap (0 .. 7)) \cup ShiftedBy8(n)) \cap RegisterBits
<1>0. Len(argv) \in Nat /\ (Len(argv) = 2 \/ Len(argv) > 2)
  BY Tails
<1>1. CASE Len(argv) = 2 \/ n \notin 1 .. 7
  <2>1. Asked(argv) = wanted
    BY <1>1 DEF Asked, Ask, Item
  <2>2. cfg_netclock(Opened(State), Tail(argv)) = Opened(State)
    <3>1. CASE Len(argv) = 2
      <4>1. Len(Tail(argv)) = 1
        BY <3>1, Tails
      <4> QED
        BY <4>1 DEF cfg_netclock
    <3>2. CASE Len(argv) > 2 /\ n \notin 1 .. 7
      <4>1. Tail(argv)[2] = argv[3]
        BY <3>2, Tails
      <4> QED
        BY <3>2, <4>1 DEF cfg_netclock
    <3> QED
      BY <1>0, <1>1, <3>1, <3>2
  <2> QED
    BY <2>1, <2>2, Refused
<1>2. CASE Len(argv) > 2 /\ n \in 1 .. 7
  <2>1. Len(Tail(argv)) # 1 /\ Tail(argv)[2] = argv[3]
        /\ ((Len(Tail(argv)) > 2 /\ Tail(argv)[3] = "enable") <=> on)
    BY <1>0, <1>2, Tails
  <2>2. cfg_netclock(Opened(State), Tail(argv)) =
           [addr |-> econet_address, reg |-> reg, fds |-> open + 1]
    <3> DEFINE s == Opened(State)
               fds == open + 1
    <3>1. s = [addr |-> econet_address, reg |-> econet_clkterm, fds |-> fds]
      BY OpenedState
    <3> HIDE DEF s, fds
    <3>2. s.reg = econet_clkterm
      BY <3>1
    <3>3. cfg_netclock(s, Tail(argv)) =
             econet_set_clkterm(s, (enabled \cap (0 .. 7)) \cup ShiftedBy8(n))
      BY <1>2, <2>1, <3>2 DEF cfg_netclock
    <3> HIDE DEF n, enabled
    <3>4. econet_set_clkterm(s, (enabled \cap (0 .. 7)) \cup ShiftedBy8(n)) =
             [addr |-> econet_address, reg |-> reg, fds |-> fds]
      BY <3>1, Register
    <3> QED
      BY <3>3, <3>4 DEF s, fds
  <2>3. ASSUME open < MAX_FILE_DESCRIPTORS
        PROVE  Asked(argv) = [wanted EXCEPT !.div = n, !.clock = on]
    BY <1>2, <2>3 DEF Asked, Ask, Item
  <2>4. on \in BOOLEAN
    OBVIOUS
  <2>5. reg = ShiftedBy8(n) \cup (IF on THEN CLOCK_ENABLE ELSE {})
                            \cup (IF wanted.term THEN TERM_ENABLE ELSE {})
    <3>1. ShiftedBy8(n) \subseteq {8, 9, 10} /\ ShiftedBy8(wanted.div) \subseteq {8, 9, 10}
      BY <1>2, Divider DEF SetInv, WantedOK
    <3>2. econet_clkterm = ShiftedBy8(wanted.div) \cup (IF wanted.clock THEN {0} ELSE {})
                                                  \cup (IF wanted.term THEN {1} ELSE {})
      BY DEF SetInv, SettingsAgree, CLOCK_ENABLE, TERM_ENABLE
    <3> HIDE DEF n, on
    <3>3. enabled \cap (0 .. 7) = (IF on THEN {0} ELSE {}) \cup (IF wanted.term THEN {1} ELSE {})
      BY <3>1, <3>2 DEF CLOCK_ENABLE
    <3> QED
      BY <3>1, <3>3 DEF CLOCK_ENABLE, TERM_ENABLE, RegisterBits
  <2>6. ASSUME open < MAX_FILE_DESCRIPTORS
        PROVE  WantedOK(Asked(argv)) /\ Agrees(econet_address, reg, Asked(argv))
    <3> DEFINE w == Asked(argv)
    <3> HIDE DEF n, on, reg
    <3>1. w = [station |-> wanted.station, div |-> n, clock |-> on, term |-> wanted.term]
      BY <2>3, <2>6 DEF SetInv, WantedOK
    <3> HIDE DEF w
    <3>2. w.station = wanted.station /\ w.div = n /\ w.clock = on /\ w.term = wanted.term
      BY <3>1
    <3>3. WantedOK(w)
      BY <1>2, <2>4, <3>1, <3>2 DEF SetInv, WantedOK
    <3>4. Agrees(econet_address, reg, w)
      BY <2>5, <3>2 DEF SetInv, SettingsAgree, Agrees
    <3> QED
      BY <3>3, <3>4 DEF w
  <2> HIDE DEF n, on, reg
  <2> QED
    BY <2>2, <2>6, Device
<1> QED
  BY <1>0, <1>1, <1>2

LEMMA ForTerminate ==
    ASSUME OpenInv, SetInv, NEW argv \in Seq(STRING), Len(argv) >= 2, Item(argv, "netterminate")
    PROVE  Keeps(WithDevice(State, cfg_netterminate(Opened(State), Tail(argv))), Asked(argv))
<1> DEFINE on == argv[3] = "on"
           reg == (IF on THEN econet_clkterm \cup TERM_ENABLE ELSE econet_clkterm \ TERM_ENABLE)
                  \cap RegisterBits
<1>0. Len(argv) \in Nat /\ (Len(argv) = 2 \/ Len(argv) > 2)
  BY Tails
<1>1. CASE Len(argv) = 2
  <2>1. Asked(argv) = wanted
    BY <1>1 DEF Asked
  <2>2. cfg_netterminate(Opened(State), Tail(argv)) = Opened(State)
    BY <1>1, Tails DEF cfg_netterminate
  <2> QED
    BY <2>1, <2>2, Refused
<1>2. CASE Len(argv) > 2
  <2>1. Len(Tail(argv)) # 1 /\ Tail(argv)[2] = argv[3]
    BY <1>0, <1>2, Tails
  <2>2. cfg_netterminate(Opened(State), Tail(argv)) =
           [addr |-> econet_address, reg |-> reg, fds |-> open + 1]
    <3> DEFINE s == Opened(State)
               fds == open + 1
               r == IF on THEN econet_clkterm \cup TERM_ENABLE ELSE econet_clkterm \ TERM_ENABLE
    <3>1. s = [addr |-> econet_address, reg |-> econet_clkterm, fds |-> fds]
      BY OpenedState
    <3> HIDE DEF s, fds
    <3>2. s.reg = econet_clkterm
      BY <3>1
    <3>3. cfg_netterminate(s, Tail(argv)) = econet_set_clkterm(s, r)
      BY <2>1, <3>2 DEF cfg_netterminate
    <3> HIDE DEF r
    <3>4. econet_set_clkterm(s, r) = [addr |-> econet_address, reg |-> r \cap RegisterBits, fds |-> fds]
      BY <3>1, Register
    <3> QED
      BY <3>3, <3>4 DEF s, r, fds
  <2>3. ASSUME open < MAX_FILE_DESCRIPTORS PROVE Asked(argv) = [wanted EXCEPT !.term = on]
    BY <1>2, <2>3 DEF Asked, Ask, Item
  <2>4. on \in BOOLEAN
    OBVIOUS
  <2>5. reg = ShiftedBy8(wanted.div) \cup (IF wanted.clock THEN CLOCK_ENABLE ELSE {})
                                     \cup (IF on THEN TERM_ENABLE ELSE {})
    <3>1. ShiftedBy8(wanted.div) \subseteq {8, 9, 10}
      BY Divider DEF SetInv, WantedOK
    <3>2. econet_clkterm = ShiftedBy8(wanted.div) \cup (IF wanted.clock THEN {0} ELSE {})
                                                  \cup (IF wanted.term THEN {1} ELSE {})
      BY DEF SetInv, SettingsAgree, CLOCK_ENABLE, TERM_ENABLE
    <3> HIDE DEF on
    <3> QED
      BY <3>1, <3>2 DEF CLOCK_ENABLE, TERM_ENABLE, RegisterBits
  <2>6. ASSUME open < MAX_FILE_DESCRIPTORS
        PROVE  WantedOK(Asked(argv)) /\ Agrees(econet_address, reg, Asked(argv))
    <3> DEFINE w == Asked(argv)
    <3> HIDE DEF on, reg
    <3>1. w = [station |-> wanted.station, div |-> wanted.div, clock |-> wanted.clock, term |-> on]
      BY <2>3, <2>6 DEF SetInv, WantedOK
    <3> HIDE DEF w
    <3>2. w.station = wanted.station /\ w.div = wanted.div /\ w.clock = wanted.clock /\ w.term = on
      BY <3>1
    <3>3. WantedOK(w)
      BY <2>4, <3>1, <3>2 DEF SetInv, WantedOK
    <3>4. Agrees(econet_address, reg, w)
      BY <2>5, <3>2 DEF SetInv, SettingsAgree, Agrees
    <3> QED
      BY <3>3, <3>4 DEF w
  <2> HIDE DEF on, reg
  <2> QED
    BY <2>2, <2>6, Device
<1> QED
  BY <1>0, <1>1, <1>2

LEMMA ConfigureKeeps ==
    ASSUME OpenInv, SetInv, NEW argv \in Seq(STRING)
    PROVE  Keeps(i_configure(State, argv), Asked(argv))
<1>0. Len(argv) \in Nat
  OBVIOUS
<1>1. CASE Len(argv) >= 2 /\ argv[2] = "netstation"
  <2>1. i_configure(State, argv) = WithDevice(State, cfg_station(Opened(State), Tail(argv)))
    BY <1>0, <1>1 DEF i_configure
  <2> QED
    BY <1>1, <2>1, ForStation DEF Item
<1>2. CASE Len(argv) >= 2 /\ argv[2] = "netclock"
  <2>1. i_configure(State, argv) = WithDevice(State, cfg_netclock(Opened(State), Tail(argv)))
    BY <1>0, <1>2 DEF i_configure
  <2> QED
    BY <1>2, <2>1, ForClock DEF Item
<1>3. CASE Len(argv) >= 2 /\ argv[2] = "netterminate"
  <2>1. i_configure(State, argv) = WithDevice(State, cfg_netterminate(Opened(State), Tail(argv)))
    BY <1>0, <1>3 DEF i_configure
  <2> QED
    BY <1>3, <2>1, ForTerminate DEF Item
<1>4. CASE Len(argv) < 2 \/ argv[2] \notin {"netstation", "netclock", "netterminate"}
  <2>1. i_configure(State, argv) = State
    BY <1>0, <1>4 DEF i_configure
  <2>2. Asked(argv) = wanted
    BY <1>0, <1>4 DEF Asked, Ask, Item
  <2> QED
    BY <2>1, <2>2, Nothing
<1> QED
  BY <1>0, <1>1, <1>2, <1>3, <1>4

-----------------------------------------------------------------------------
(* Command lines *)

LEMMA CommandOf ==
    ASSUME NEW l, l.words \in Seq(STRING)
    PROVE  Command(l) = <<>> \/ \E argv \in Seq(STRING) : Command(l) = <<argv>>
<1>1. clean_cmdbuf(l) \in Seq(STRING)
  <2>1. <<>> \in Seq(STRING)
    OBVIOUS
  <2>2. clean_cmdbuf(l) = <<>> \/ clean_cmdbuf(l) = l.words
    BY DEF clean_cmdbuf
  <2> QED
    BY <2>1, <2>2
<1> QED
  BY <1>1 DEF Command

\* The state a command leaves, and the settings it asked for.
Does(argv) == IF argv[1] \in Internal THEN run_internal_command(State, argv) ELSE State
Asks(argv) == IF argv[1] = "configure" THEN Asked(argv) ELSE wanted

LEMMA HexdumpKeeps == ASSUME OpenInv, SetInv, NEW argv PROVE Keeps(i_hexdump(State, argv), wanted)
<1>1. Closed(Opened(State)) = [addr |-> econet_address, reg |-> econet_clkterm, fds |-> (open + 1) - 1]
  BY OpenedState DEF Closed
<1>2. (open + 1) - 1 = open
  BY DEF OpenInv
<1>3. i_hexdump(State, argv) = State
  BY <1>1, <1>2 DEF i_hexdump, State
<1> QED
  BY <1>3, Nothing

LEMMA CommandKeeps ==
    ASSUME OpenInv, SetInv, NEW argv \in Seq(STRING)
    PROVE  Keeps(Does(argv), Asks(argv))
<1>1. CASE argv[1] = "configure"
  <2>1. Does(argv) = i_configure(State, argv) /\ Asks(argv) = Asked(argv)
    BY <1>1 DEF Does, Asks, run_internal_command, Internal
  <2> QED
    BY <2>1, ConfigureKeeps
<1>2. CASE argv[1] \in {"hexdump", "rx"}
  <2>1. Does(argv) = i_hexdump(State, argv) /\ Asks(argv) = wanted
    BY <1>2 DEF Does, Asks, run_internal_command, Internal
  <2> QED
    BY <2>1, HexdumpKeeps
<1>3. CASE argv[1] \notin {"configure", "hexdump", "rx"}
  <2>1. Does(argv) = State /\ Asks(argv) = wanted
    BY <1>3 DEF Does, Asks, run_internal_command
  <2> QED
    BY <2>1, Nothing
<1> QED
  BY <1>1, <1>2, <1>3

LEMMA ParseKeeps ==
    ASSUME OpenInv, SetInv, NEW l, l.words \in Seq(STRING), parse_cmd(l), wanted' = Wanted(l)
    PROVE  SetInv' /\ (open' = open \/ (open' = open + 1 /\ ~Mounted(open)))
<1> DEFINE c == Command(l)
           s == IF c # <<>> /\ c[1][1] \in Internal THEN run_internal_command(State, c[1]) ELSE State
<1>1. Keeps(s, wanted')
  <2>1. CASE c = <<>>
    <3>1. s = State /\ wanted' = wanted
      BY <2>1 DEF Wanted
    <3> QED
      BY <3>1, Nothing
  <2>2. CASE c # <<>>
    <3>1. PICK argv \in Seq(STRING) : c = <<argv>>
      BY <2>2, CommandOf
    <3>2. c # <<>> /\ c[1] = argv
      BY <2>2, <3>1
    <3>3. s = Does(argv)
      BY <3>2 DEF Does
    <3>4. wanted' = Asks(argv)
      BY <3>2 DEF Wanted, Asks, Asked
    <3> QED
      BY <3>3, <3>4, CommandKeeps
  <2> QED
    BY <2>1, <2>2
<1>2. /\ econet_address' = s.addr /\ econet_clkterm' = s.reg
      /\ open' = s.fds \/ (open' = s.fds + 1 /\ ~Mounted(open))
  BY DEF parse_cmd
<1> HIDE DEF s
<1>3. s.fds = open /\ WantedOK(wanted') /\ Agrees(s.addr, s.reg, wanted')
  BY <1>1 DEF Keeps
<1>4. SetInv'
  BY <1>2, <1>3 DEF SetInv, WantedOK, SettingsAgree, Agrees
<1> QED
  BY <1>2, <1>3, <1>4

-----------------------------------------------------------------------------
(* The invariant *)

LEMMA IInit == InitProgramInit => IInv
<1> SUFFICES ASSUME InitProgramInit PROVE IInv
  OBVIOUS
<1>1. OpenInv
  <2>1. open = 3 /\ left = 0 /\ at = "start" /\ warm = FALSE
    BY DEF InitProgramInit
  <2>2. OfScript = 0
    BY <2>1 DEF OfScript
  <2>3. open - left - OfScript = 3
    BY <2>1, <2>2
  <2>4. open \in Int /\ left \in {0, 1} /\ open - left - OfScript \in {3, 4}
    BY <2>1, <2>3
  <2>5. warm \in BOOLEAN /\ at \in Steps /\ at # "script"
    BY <2>1, Zenon DEF Steps
  <2> QED
    BY <2>1, <2>4, <2>5, Zenon DEF OpenInv
<1>2. ShiftedBy8(7) = {8, 9, 10}
  <2>1. ShiftedBy8(7) \subseteq {8, 9, 10}
    BY Divider
  <2>2. 2^0 = 1 /\ 2^1 = 2 /\ 2^2 = 4
    OBVIOUS
  <2>3. (7 \div 1) % 2 = 1 /\ (7 \div 2) % 2 = 1 /\ (7 \div 4) % 2 = 1
    OBVIOUS
  <2>4. 0 \in BitsOf(7) /\ 1 \in BitsOf(7) /\ 2 \in BitsOf(7)
    BY <2>2, <2>3 DEF BitsOf
  <2>5. 0 + 8 = 8 /\ 1 + 8 = 9 /\ 2 + 8 = 10
    OBVIOUS
  <2>6. 8 \in ShiftedBy8(7) /\ 9 \in ShiftedBy8(7) /\ 10 \in ShiftedBy8(7)
    BY <2>4, <2>5 DEF ShiftedBy8
  <2> QED
    BY <2>1, <2>6
<1>3. SetInv
  BY <1>2 DEF InitProgramInit, SetInv, WantedOK, SettingsAgree
<1>4. NextInv
  BY DEF InitProgramInit, NextInv
<1> QED
  BY <1>1, <1>3, <1>4 DEF IInv

\* A line that was parsed, and what follows it.
LEMMA OpenAfterLine ==
    ASSUME OpenInv, at \in {"script", "prompt"},
           open' = open \/ (open' = open + 1 /\ ~Mounted(open)),
           \/ UNCHANGED <<at, left>>
           \/ at' = "program" /\ left' = left + OfScript,
           UNCHANGED warm
    PROVE  OpenInv'
<1>1. /\ open \in Int /\ left \in {0, 1} /\ at \in Steps /\ warm \in BOOLEAN
      /\ open - left - OfScript \in {3, 4} /\ (at = "script" => left = 0)
  BY DEF OpenInv
<1>2. open' - left - OfScript \in {3, 4} /\ open' \in Int
  BY <1>1 DEF Mounted, OfScript
<1>3. CASE UNCHANGED <<at, left>>
  BY <1>1, <1>2, <1>3 DEF OpenInv, OfScript
<1>4. CASE at' = "program" /\ left' = left + OfScript
  <2>1. OfScript' = 0 /\ OfScript \in {0, 1}
    BY <1>4 DEF OfScript
  <2>2. left' \in {0, 1}
    BY <1>1, <1>4 DEF OfScript
  <2>3. open' - left' - OfScript' \in {3, 4}
    <3>1. \A x \in Int, y, z \in {0, 1} : x - y - z \in {3, 4} => x - (y + z) - 0 \in {3, 4}
      OBVIOUS
    <3> QED
      BY <1>1, <1>2, <1>4, <2>1, <3>1
  <2> QED
    BY <1>1, <1>2, <1>4, <2>2, <2>3 DEF OpenInv, Steps
<1> QED
  BY <1>3, <1>4

LEMMA IStep == IInv /\ [InitProgramNext]_initvars => IInv'
<1> SUFFICES ASSUME IInv, [InitProgramNext]_initvars PROVE IInv'
  OBVIOUS
<1>0. OpenInv /\ SetInv /\ NextInv
  BY DEF IInv
<1>1. CASE run_script
  <2>1. OpenInv'
    BY <1>0, <1>1 DEF run_script, ColdStart, OpenInv, OfScript, Steps
  <2>2. SetInv'
    BY <1>0, <1>1 DEF run_script, settings, SetInv, SettingsAgree
  <2>3. NextInv'
    BY <1>0, <1>1 DEF run_script, WarmStart, ProgramEnds, ScriptEnd, NextInv
  <2> QED
    BY <2>1, <2>2, <2>3 DEF IInv
<1>2. CASE WarmStart \/ ProgramEnds
  <2>1. OpenInv'
    BY <1>0, <1>2 DEF WarmStart, ProgramEnds, OpenInv, OfScript, Steps
  <2>2. SetInv'
    BY <1>0, <1>2 DEF WarmStart, ProgramEnds, settings, SetInv, SettingsAgree
  <2>3. NextInv'
    BY <1>0, <1>2 DEF run_script, WarmStart, ProgramEnds, ScriptEnd, NextInv
  <2> QED
    BY <2>1, <2>2, <2>3 DEF IInv
<1>3. CASE ScriptEnd
  <2>1. OpenInv'
    BY <1>0, <1>3 DEF ScriptEnd, OpenInv, OfScript, Steps
  <2>2. SetInv'
    BY <1>0, <1>3 DEF ScriptEnd, settings, SetInv, SettingsAgree
  <2>3. NextInv'
    BY <1>0, <1>3 DEF run_script, WarmStart, ProgramEnds, ScriptEnd, NextInv
  <2> QED
    BY <2>1, <2>2, <2>3 DEF IInv
<1>4. CASE ScriptLine
  <2> DEFINE l == Script[next]
  <2>1. /\ at = "script" /\ parse_cmd(l) /\ wanted' = Wanted(l) /\ UNCHANGED warm
        /\ UNCHANGED <<at, left>> \/ (at' = "program" /\ left' = left + 1)
    BY <1>4 DEF ScriptLine, exec_elf
  <2>2. l.words \in Seq(STRING)
    <3>1. l \in CommandLines
      BY <1>4, InitAssumption DEF ScriptLine, IInv, NextInv
    <3> QED
      BY <3>1 DEF CommandLines
  <2> HIDE DEF l
  <2>3. SetInv' /\ (open' = open \/ (open' = open + 1 /\ ~Mounted(open)))
    BY <1>0, <2>1, <2>2, ParseKeeps
  <2>4. OfScript = 1
    BY <2>1 DEF OfScript
  <2>5. OpenInv'
    BY <1>0, <2>1, <2>3, <2>4, OpenAfterLine
  <2>6. NextInv'
    BY <1>0, <1>4 DEF ScriptLine, cli, NextInv
  <2> QED
    BY <2>3, <2>5, <2>6 DEF IInv
<1>5. ASSUME NEW l \in Typed, cli(l) PROVE IInv'
  <2>1. /\ at = "prompt" /\ parse_cmd(l) /\ wanted' = Wanted(l) /\ UNCHANGED warm
        /\ UNCHANGED <<at, left>> \/ (at' = "program" /\ left' = left + 0)
    BY <1>5 DEF cli, exec_elf
  <2>2. l.words \in Seq(STRING)
    BY InitAssumption DEF CommandLines
  <2>3. SetInv' /\ (open' = open \/ (open' = open + 1 /\ ~Mounted(open)))
    BY <1>0, <2>1, <2>2, ParseKeeps
  <2>4. OfScript = 0
    BY <2>1 DEF OfScript
  <2>5. OpenInv'
    BY <1>0, <2>1, <2>3, <2>4, OpenAfterLine
  <2>6. NextInv'
    BY <1>0, <1>5 DEF ScriptLine, cli, NextInv
  <2> QED
    BY <2>3, <2>5, <2>6 DEF IInv
<1>6. CASE UNCHANGED initvars
  BY <1>0, <1>6 DEF initvars, IInv, OpenInv, OfScript, SetInv, SettingsAgree, NextInv
<1> QED
  BY <1>1, <1>2, <1>3, <1>4, <1>5, <1>6 DEF InitProgramNext

\* The clock divider, the clock's enable bit and the terminator of configure.c share
\* one register, which each command reads, changes and writes back; for every script
\* and every sequence of commands, over any number of starts, they and the station
\* are what was last asked of each.
THEOREM SettingsAlwaysAgree == InitProgramSpec => []SettingsAgree
<1>1. IInv => SettingsAgree
  BY DEF IInv, SetInv
<1> QED
  BY <1>1, IInit, IStep, PTL DEF InitProgramSpec

-----------------------------------------------------------------------------
(* The script *)

Before(n) == {i \in CommandsOfScript : i < n}

LEMMA ScriptPositions ==
    /\ CommandsOfScript \in SUBSET Nat /\ IsFiniteSet(CommandsOfScript)
    /\ Cardinality(CommandsOfScript) \in Nat
<1>1. Len(Script) \in Nat /\ DOMAIN Script = 1 .. Len(Script)
  BY InitAssumption
<1>2. CommandsOfScript \in SUBSET Nat /\ \A i \in CommandsOfScript : i <= Len(Script)
  BY <1>1 DEF CommandsOfScript
<1> QED
  BY <1>1, <1>2, FS_BoundedSetOfNaturals, FS_CardinalityType

\* Number of commands before a line, and before the next.
LEMMA BeforeNext ==
    ASSUME NEW n \in DOMAIN Script
    PROVE  /\ Cardinality(Before(n)) \in Nat
           /\ n \in CommandsOfScript => /\ Cardinality(Before(n + 1)) = Cardinality(Before(n)) + 1
                                       /\ Nth(CommandsOfScript, Cardinality(Before(n)) + 1) = n
                                       /\ Cardinality(Before(n)) + 1 <= Cardinality(CommandsOfScript)
           /\ n \notin CommandsOfScript => Before(n + 1) = Before(n)
<1> DEFINE C == CommandsOfScript
<1>0. n \in Nat
  BY InitAssumption
<1>1. C \in SUBSET Nat /\ IsFiniteSet(C) /\ Cardinality(C) \in Nat
  BY ScriptPositions
<1>2. Cardinality(Before(n)) \in Nat
  <2>1. Before(n) \in SUBSET C
    BY DEF Before
  <2> QED
    BY <1>1, <2>1, FS_Subset, FS_CardinalityType
<1>3. ASSUME n \in C
      PROVE  /\ Cardinality(Before(n + 1)) = Cardinality(Before(n)) + 1
             /\ Nth(C, Cardinality(Before(n)) + 1) = n
             /\ Cardinality(Before(n)) + 1 <= Cardinality(C)
  <2> HIDE DEF C
  <2>1. n <= n /\ \A j \in C : n <= j => n <= j
    BY <1>0
  <2>2. Rank(C, n) = Cardinality({j \in C : j < n}) + 1
    BY <1>0, <1>1, <1>3, <2>1, RankNext
  <2>3. Nth(C, Cardinality({j \in C : j < n}) + 1) = n
    BY <1>0, <1>1, <1>3, <2>1, NthNext
  <2>4. {j \in C : j < n + 1} = {j \in C : j <= n}
    BY <1>0, <1>1, Below
  <2>5. Rank(C, n) \in 1 .. Cardinality(C)
    BY <1>1, <1>3, RankBound
  <2>6. Cardinality({j \in C : j < n}) + 1 <= Cardinality(C)
    BY <1>1, <2>2, <2>5
  <2> QED
    BY <2>2, <2>3, <2>4, <2>6 DEF Before, C, Rank
<1>4. ASSUME n \notin C PROVE Before(n + 1) = Before(n)
  <2>1. \A j \in C : j \in Nat /\ j # n
    BY <1>1, <1>4
  <2>2. \A j \in C : j < n + 1 <=> j < n
    BY <1>0, <2>1
  <2> QED
    BY <2>2 DEF Before
<1> QED
  BY <1>2, <1>3, <1>4

\* parse_cmd takes for a command what is one.
LEMMA CommandOfLine ==
    ASSUME NEW n \in DOMAIN Script
    PROVE  /\ n \in CommandsOfScript => Command(Script[n]) = <<Script[n].words>>
           /\ n \notin CommandsOfScript => Command(Script[n]) = <<>>
<1> DEFINE l == Script[n]
<1>1. l \in CommandLines
  BY InitAssumption
<1>2. l.lead \in Nat /\ l.words \in Seq(STRING)
  BY <1>1 DEF CommandLines
<1>3. n \in CommandsOfScript <=> IsCommand(l)
  BY DEF CommandsOfScript
<1> HIDE DEF l
<1>4. l.lead >= PointerSize <=> ~(l.lead < PointerSize)
  BY <1>2 DEF PointerSize
<1>5. IsCommand(l) => Command(l) = <<l.words>>
  BY <1>4 DEF IsCommand, Command, clean_cmdbuf, comment
<1>6. ~IsCommand(l) => Command(l) = <<>>
  BY <1>4 DEF IsCommand, Command, clean_cmdbuf, comment
<1> QED
  BY <1>3, <1>5, <1>6 DEF l

\* While the script is read, what was done are its commands up to the next line, and
\* none was a program: the volume is mounted and a descriptor is left for its file, so
\* that a program would have taken init's place.  Before the script nothing was done.
OrderInv ==
    /\ done \in Seq(Seq(STRING)) /\ ScriptInOrder
    /\ at = "start" /\ ~warm => done = <<>>
    /\ at = "script" =>
          /\ ~warm /\ open = 5 /\ left = 0 /\ Len(done) = Cardinality(Before(next))
          /\ \A k \in DOMAIN done : done[k][1] \notin ProgramNames \ Internal

LEMMA OrderInit == InitProgramInit => OrderInv
<1> SUFFICES ASSUME InitProgramInit PROVE OrderInv
  OBVIOUS
<1>1. done = <<>> /\ at = "start"
  BY DEF InitProgramInit
<1>2. ScriptInOrder
  BY <1>1, ScriptPositions DEF ScriptInOrder
<1> QED
  BY <1>1, <1>2 DEF OrderInv

\* A program in the script is run.
LEMMA ScriptExecs ==
    ASSUME IInv, OrderInv, ScriptLine, Command(Script[next]) = <<Script[next].words>>,
           Script[next].words[1] \in ProgramNames \ Internal
    PROVE  at' = "program"
<1> DEFINE l == Script[next]
           argv == l.words
<1>1. at = "script" /\ open = 5 /\ left = 0
  BY DEF ScriptLine, OrderInv
<1>2. Mounted(5)
  BY <1>1 DEF Mounted
<1>3. open' = 5
  <2> DEFINE c == Command(l)
             s == IF c # <<>> /\ c[1][1] \in Internal THEN run_internal_command(State, c[1]) ELSE State
             mounts == c # <<>> /\ UsesVolume(c[1]) /\ ~Mounted(open)
  <2>1. open' \in IF mounts THEN {s.fds, s.fds + 1} ELSE {s.fds}
    BY DEF ScriptLine, parse_cmd
  <2>2. c = <<argv>> /\ c[1] = argv
    OBVIOUS
  <2>3. s = State
    BY <2>2
  <2>4. ~mounts
    BY <1>1, <1>2
  <2> HIDE DEF mounts, s
  <2> QED
    BY <1>1, <2>1, <2>3, <2>4 DEF State
<1>4. Execs(argv)
  <2>1. 5 < MAX_FILE_DESCRIPTORS
    BY InitAssumption
  <2> QED
    BY <1>2, <1>3, <2>1 DEF Execs
<1> DEFINE c == Command(l)
<1>5. c # <<>> /\ Execs(c[1])
  <2>1. c = <<argv>>
    OBVIOUS
  <2> HIDE DEF c, argv
  <2>2. c # <<>> /\ c[1] = argv
    BY <2>1
  <2> QED
    BY <1>4, <2>2
<1>6. IF c # <<>> /\ Execs(c[1]) THEN exec_elf(1) ELSE UNCHANGED <<at, left>>
  BY DEF ScriptLine
<1> HIDE DEF c
<1> QED
  BY <1>5, <1>6 DEF exec_elf

LEMMA LineInOrder == ASSUME IInv, OrderInv, ScriptLine PROVE OrderInv'
<1> DEFINE l == Script[next]
           n == Cardinality(Before(next))
<1>1. /\ at = "script" /\ next' = next + 1 /\ done' = done \o Command(l) /\ UNCHANGED warm
      /\ parse_cmd(l) /\ wanted' = Wanted(l)
      /\ UNCHANGED <<at, left>> \/ at' = "program"
  BY DEF ScriptLine, exec_elf
<1>2. next \in DOMAIN Script
  BY InitAssumption DEF ScriptLine, IInv, NextInv
<1>3. /\ ~warm /\ open = 5 /\ left = 0 /\ Len(done) = n /\ done \in Seq(Seq(STRING)) /\ ScriptInOrder
      /\ \A k \in DOMAIN done : done[k][1] \notin ProgramNames \ Internal
  BY <1>1 DEF OrderInv
<1>4. l.words \in Seq(STRING)
  <2>1. l \in CommandLines
    BY <1>2, InitAssumption
  <2> QED
    BY <2>1 DEF CommandLines
<1>5. open' = 5
  <2>1. Mounted(open)
    BY <1>1, <1>3 DEF Mounted
  <2> HIDE DEF l
  <2>2. open' = open
    BY <1>1, <1>4, <2>1, ParseKeeps DEF IInv
  <2> QED
    BY <1>3, <2>2
<1>6. CASE next \notin CommandsOfScript
  <2>1. done' = done /\ Before(next') = Before(next)
    <3>1. Command(l) = <<>>
      BY <1>2, <1>6, CommandOfLine
    <3>2. done \o <<>> = done
      BY <1>3
    <3> QED
      BY <1>1, <1>2, <1>6, <3>1, <3>2, BeforeNext
  <2>2. ScriptInOrder'
    BY <1>3, <2>1 DEF ScriptInOrder
  <2>3. at' # "start" /\ (at' = "script" => left' = left)
    BY <1>1
  <2> QED
    BY <1>1, <1>3, <1>5, <2>1, <2>2, <2>3 DEF OrderInv
<1>7. CASE next \in CommandsOfScript
  <2>1. Command(l) = <<l.words>>
    BY <1>2, <1>7, CommandOfLine
  <2>2. /\ n \in Nat /\ Cardinality(Before(next')) = n + 1 /\ Nth(CommandsOfScript, n + 1) = next
        /\ n + 1 <= Cardinality(CommandsOfScript)
    BY <1>1, <1>2, <1>7, BeforeNext
  <2>3. l.words[1] \in ProgramNames \ Internal => at' = "program"
    BY <2>1, ScriptExecs
  <2> DEFINE w == l.words
  <2>4. w = Script[Nth(CommandsOfScript, n + 1)].words
    BY <2>2
  <2> HIDE DEF w, l, n
  <2>5. /\ done' \in Seq(Seq(STRING)) /\ Len(done') = n + 1 /\ done'[n + 1] = w
        /\ \A k \in 1 .. n : done'[k] = done[k]
        /\ DOMAIN done = 1 .. n /\ DOMAIN done' = 1 .. n + 1
    <3>1. done' = done \o <<w>> /\ w \in Seq(STRING)
      BY <1>1, <1>4, <2>1 DEF w
    <3> DEFINE T == Seq(STRING)
    <3>2. w \in T /\ done \in Seq(T)
      BY <1>3, <3>1
    <3> HIDE DEF T
    <3> DEFINE d == done \o <<w>>
    <3>3. /\ d \in Seq(T) /\ Len(d) = n + 1 /\ d[n + 1] = w
          /\ \A k \in 1 .. n : d[k] = done[k]
          /\ DOMAIN done = 1 .. n /\ DOMAIN d = 1 .. n + 1
      BY <1>3, <2>2, <3>2
    <3> QED
      BY <3>1, <3>3 DEF T
  <2>6. \A k \in 1 .. n + 1 : k \in 1 .. n \/ k = n + 1
    BY <2>2
  <2>7. ScriptInOrder'
    <3>1. \A k \in 1 .. n + 1 : done'[k] = Script[Nth(CommandsOfScript, k)].words
      <4> TAKE k \in 1 .. n + 1
      <4>1. CASE k \in 1 .. n
        BY <1>3, <2>5, <4>1 DEF ScriptInOrder
      <4>2. CASE k = n + 1
        BY <2>4, <2>5, <4>2
      <4> QED
        BY <2>6, <4>1, <4>2
    <3>2. \A k \in 1 .. n + 1 : done'[k][1] \in ProgramNames \ Internal => k = n + 1
      BY <1>3, <2>5, <2>6
    <3> QED
      BY <2>2, <2>5, <3>1, <3>2 DEF ScriptInOrder
  <2>8. at' = "script" => \A k \in DOMAIN done' : done'[k][1] \notin ProgramNames \ Internal
    BY <1>3, <2>3, <2>5, <2>6 DEF w
  <2>9. at' # "start" /\ (at' = "script" => left' = left)
    BY <1>1
  <2> QED
    BY <1>1, <1>3, <1>5, <2>2, <2>5, <2>7, <2>8, <2>9 DEF OrderInv
<1> QED
  BY <1>6, <1>7

LEMMA OrderStep == IInv /\ OrderInv /\ [InitProgramNext]_initvars => OrderInv'
<1> SUFFICES ASSUME IInv, OrderInv, [InitProgramNext]_initvars PROVE OrderInv'
  OBVIOUS
<1>1. CASE run_script
  <2>1. at = "start" /\ ~warm /\ done = <<>> /\ done' = done /\ open = 3 /\ left = 0 /\ left' = left /\ warm' = warm
    BY <1>1 DEF run_script, ColdStart, OrderInv, IInv, OpenInv
  <2>2. at' = "script" => open' = 5 /\ next' = 1
    BY <1>1, <2>1 DEF run_script
  <2>3. Cardinality(Before(1)) = 0
    <3>1. Before(1) = {}
      <4>1. \A i \in CommandsOfScript : i >= 1 /\ i \in Nat
        BY InitAssumption DEF CommandsOfScript
      <4> QED
        BY <4>1 DEF Before
    <3> QED
      BY <3>1, FS_EmptySet
  <2>4. ScriptInOrder'
    BY <2>1 DEF OrderInv, ScriptInOrder
  <2>5. at' \in {"script", "prompt"}
    BY <1>1 DEF run_script
  <2>6. done' = <<>> /\ Len(done') = 0 /\ done' \in Seq(Seq(STRING))
    BY <2>1
  <2> QED
    BY <2>1, <2>2, <2>3, <2>4, <2>5, <2>6 DEF OrderInv
<1>2. CASE WarmStart \/ ProgramEnds \/ ScriptEnd
  <2>1. done' = done /\ at' \in {"prompt", "start"} /\ (at' = "start" => warm')
    BY <1>2 DEF WarmStart, ProgramEnds, ScriptEnd
  <2>2. ScriptInOrder'
    BY <2>1 DEF OrderInv, ScriptInOrder
  <2> QED
    BY <2>1, <2>2 DEF OrderInv
<1>3. ASSUME NEW l \in Typed, cli(l) PROVE OrderInv'
  <2>1. done' = done /\ at' \in {"prompt", "program"}
    BY <1>3 DEF cli, exec_elf
  <2>2. ScriptInOrder'
    BY <2>1 DEF OrderInv, ScriptInOrder
  <2> QED
    BY <2>1, <2>2 DEF OrderInv
<1>4. CASE UNCHANGED initvars
  <2>1. done' = done /\ UNCHANGED <<at, warm, open, left, next>>
    BY <1>4 DEF initvars
  <2>2. ScriptInOrder'
    BY <2>1 DEF OrderInv, ScriptInOrder
  <2> QED
    BY <2>1, <2>2 DEF OrderInv
<1> QED
  BY <1>1, <1>2, <1>3, <1>4, LineInOrder DEF InitProgramNext

\* The boot script runs once since power-up, however often programs end and init is
\* started again: what is carried out of it are its first commands, in order, and
\* nothing behind its first program.  It costs one descriptor at most, and at the prompt
\* everything else that init opened is closed but the volume's.
THEOREM ScriptRunsJustOnce == InitProgramSpec => []ScriptRunsOnce
<1>1. IInv /\ OrderInv => ScriptRunsOnce
  BY DEF IInv, OpenInv, OfScript, OrderInv, ScriptLeftOnce, ScriptRunsOnce
<1> QED
  BY <1>1, IInit, IStep, OrderInit, OrderStep, PTL DEF InitProgramSpec

-----------------------------------------------------------------------------
(* XMODEM *)

Answers == {"C", "ACK", "NACK", "CAN"}

\* How many acknowledgements are among the answers in s.
AcksAt(s) == {i \in 1 .. Len(s) : s[i] = "ACK"}
Acks(s) == Cardinality(AcksAt(s))

LEMMA AcksType ==
    ASSUME NEW s \in Seq(Answers)
    PROVE  IsFiniteSet(AcksAt(s)) /\ Acks(s) \in Nat /\ Len(s) \in Nat
<1>1. Len(s) \in Nat /\ AcksAt(s) \in SUBSET (1 .. Len(s))
  BY DEF AcksAt
<1>2. IsFiniteSet(1 .. Len(s))
  BY <1>1, FS_Interval
<1>3. IsFiniteSet(AcksAt(s))
  BY <1>1, <1>2, FS_Subset
<1> QED
  BY <1>1, <1>3, FS_CardinalityType DEF Acks

LEMMA AcksJoin ==
    ASSUME NEW p \in Seq(Answers), NEW q \in Seq(Answers)
    PROVE  p \o q \in Seq(Answers) /\ Len(p \o q) = Len(p) + Len(q) /\ Acks(p \o q) = Acks(p) + Acks(q)
<1> DEFINE n == Len(p)
           s == p \o q
           A == AcksAt(p)
           B == AcksAt(q)
           C == {n + j : j \in B}
           f == [j \in B |-> n + j]
<1>1. n \in Nat /\ Len(q) \in Nat /\ IsFiniteSet(A) /\ IsFiniteSet(B) /\ Acks(p) \in Nat /\ Acks(q) \in Nat
  BY AcksType
<1>2. /\ s \in Seq(Answers) /\ Len(s) = n + Len(q)
      /\ \A i \in 1 .. n : s[i] = p[i]
      /\ \A j \in 1 .. Len(q) : s[n + j] = q[j]
  OBVIOUS
<1>3. \A j \in B : j \in 1 .. Len(q) /\ q[j] = "ACK"
  BY DEF AcksAt
<1>4. \A i \in A : i \in 1 .. n /\ p[i] = "ACK"
  BY DEF AcksAt
<1>5. AcksAt(s) = A \cup C
  <2>1. ASSUME NEW i \in AcksAt(s) PROVE i \in A \cup C
    <3>1. i \in 1 .. n + Len(q) /\ s[i] = "ACK"
      BY <1>2, <2>1 DEF AcksAt
    <3>2. CASE i <= n
      <4>1. i \in 1 .. n
        BY <1>1, <3>1, <3>2
      <4> QED
        BY <1>2, <3>1, <4>1 DEF AcksAt
    <3>3. CASE ~(i <= n)
      <4> DEFINE j == i - n
      <4>1. j \in 1 .. Len(q) /\ i = n + j
        BY <1>1, <3>1, <3>3
      <4> HIDE DEF j
      <4>2. j \in B
        BY <1>2, <3>1, <4>1 DEF AcksAt
      <4> QED
        BY <4>1, <4>2
    <3> QED
      BY <3>2, <3>3
  <2>2. ASSUME NEW i \in A PROVE i \in AcksAt(s)
    <3>1. i \in 1 .. n + Len(q)
      BY <1>1, <1>4, <2>2
    <3> QED
      BY <1>2, <1>4, <2>2, <3>1 DEF AcksAt
  <2>3. ASSUME NEW j \in B PROVE n + j \in AcksAt(s)
    <3>1. n + j \in 1 .. n + Len(q)
      BY <1>1, <1>3, <2>3
    <3> QED
      BY <1>2, <1>3, <2>3, <3>1 DEF AcksAt
  <2> HIDE DEF A, B
  <2> QED
    BY <2>1, <2>2, <2>3
<1> HIDE DEF A, B, s
<1>6. A \cap C = {}
  BY <1>1, <1>3, <1>4
<1>7. ExistsBijection(B, C)
  <2>1. f \in Bijection(B, C)
    <3>1. f \in Injection(B, C)
      BY <1>1, <1>3 DEF Injection, IsInjective
    <3>2. f \in Surjection(B, C)
      BY DEF Surjection
    <3> QED
      BY <3>1, <3>2 DEF Bijection
  <2> QED
    BY <2>1 DEF ExistsBijection
<1>8. IsFiniteSet(C) /\ Cardinality(C) = Cardinality(B)
  BY <1>1, <1>7, FS_Bijection
<1> HIDE DEF C
<1>9. Cardinality(A \cup C) = Cardinality(A) + Cardinality(C) - Cardinality(A \cap C)
  BY <1>1, <1>8, FS_Union
<1>10. Cardinality(A \cap C) = 0
  BY <1>6, FS_EmptySet
<1>11. Acks(s) = Acks(p) + Acks(q)
  BY <1>1, <1>5, <1>8, <1>9, <1>10 DEF Acks, A, B
<1> QED
  BY <1>2, <1>11 DEF s, n

LEMMA AcksOne ==
    /\ \A x \in Answers : <<x>> \in Seq(Answers) /\ Acks(<<x>>) = IF x = "ACK" THEN 1 ELSE 0
    /\ <<>> \in Seq(Answers) /\ Acks(<<>>) = 0
<1>1. ASSUME NEW x \in Answers PROVE <<x>> \in Seq(Answers) /\ Acks(<<x>>) = IF x = "ACK" THEN 1 ELSE 0
  <2>1. AcksAt(<<x>>) = IF x = "ACK" THEN {1} ELSE {}
    BY DEF AcksAt
  <2>2. Cardinality({1}) = 1 /\ Cardinality({}) = 0
    BY FS_Singleton, FS_EmptySet
  <2> QED
    BY <2>1, <2>2 DEF Acks
<1>2. AcksAt(<<>>) = {}
  BY DEF AcksAt
<1>3. Acks(<<>>) = 0
  BY <1>2, FS_EmptySet DEF Acks
<1> QED
  BY <1>1, <1>3

LEMMA AcksAppend ==
    ASSUME NEW s \in Seq(Answers), NEW x \in Answers
    PROVE  /\ Append(s, x) \in Seq(Answers)
           /\ Acks(Append(s, x)) = Acks(s) + (IF x = "ACK" THEN 1 ELSE 0)
<1> DEFINE o == <<x>>
<1>1. Append(s, x) = s \o o
  OBVIOUS
<1>2. o \in Seq(Answers) /\ Acks(o) = IF x = "ACK" THEN 1 ELSE 0
  BY AcksOne
<1> HIDE DEF o
<1> QED
  BY <1>1, <1>2, AcksJoin

LEMMA AcksTail ==
    ASSUME NEW s \in Seq(Answers), s # <<>>
    PROVE  /\ Tail(s) \in Seq(Answers) /\ Head(s) \in Answers
           /\ Acks(s) = Acks(Tail(s)) + (IF Head(s) = "ACK" THEN 1 ELSE 0)
<1> DEFINE o == <<Head(s)>>
           r == Tail(s)
<1>1. Head(s) \in Answers /\ r \in Seq(Answers) /\ s = o \o r
  OBVIOUS
<1>2. o \in Seq(Answers) /\ Acks(o) = IF Head(s) = "ACK" THEN 1 ELSE 0
  BY <1>1, AcksOne
<1>3. Acks(r) \in Nat
  BY <1>1, AcksType
<1> HIDE DEF o, r
<1>4. Acks(s) = Acks(o) + Acks(r)
  BY <1>1, <1>2, AcksJoin
<1>5. Acks(s) = Acks(r) + Acks(o)
  BY <1>2, <1>3, <1>4
<1> QED
  BY <1>1, <1>2, <1>5 DEF r

-----------------------------------------------------------------------------
(* What the receiver's functions answer and deliver. *)

IsSeq(s) == \E S : s \in Seq(S)

\* A packet is delivered exactly when it is acknowledged.
Delivers(p) ==
    /\ p.tx \in Seq(Answers)
    /\ \/ p.data = <<>> /\ Acks(p.tx) = 0
       \/ (\E d : p.data = <<d>>) /\ Acks(p.tx) = 1

HasState(x) == "state" \in DOMAIN x
Shape(p) == p = [xdm |-> p.xdm, idle |-> p.idle, tx |-> p.tx, data |-> p.data] /\ HasState(p.xdm)
EmptyHanded(p) == p.tx \in Seq(Answers) /\ Acks(p.tx) = 0 /\ p.data = <<>>

LEMMA AcksKnown ==
    /\ <<"C">> \in Seq(Answers) /\ Acks(<<"C">>) = 0
    /\ <<"NACK">> \in Seq(Answers) /\ Acks(<<"NACK">>) = 0
    /\ <<"ACK">> \in Seq(Answers) /\ Acks(<<"ACK">>) = 1
    /\ <<>> \in Seq(Answers) /\ Acks(<<>>) = 0
<1>1. ASSUME NEW x \in Answers, x # "ACK" PROVE <<x>> \in Seq(Answers) /\ Acks(<<x>>) = 0
  BY <1>1, AcksOne
<1>2. "C" \in Answers /\ "NACK" \in Answers /\ "ACK" \in Answers /\ "C" # "ACK" /\ "NACK" # "ACK"
  BY DEF Answers
<1>3. <<"ACK">> \in Seq(Answers) /\ Acks(<<"ACK">>) = 1
  BY <1>2, AcksOne
<1>4. <<"C">> \in Seq(Answers) /\ Acks(<<"C">>) = 0
  BY <1>1, <1>2, Zenon
<1>5. <<"NACK">> \in Seq(Answers) /\ Acks(<<"NACK">>) = 0
  BY <1>1, <1>2, Zenon
<1> QED
  BY <1>3, <1>4, <1>5, AcksOne

LEMMA TimeoutsDeliverNothing ==
    ASSUME NEW x, NEW t, HasState(x)
    PROVE  Shape(Timeouts(x, t)) /\ EmptyHanded(Timeouts(x, t))
<1> DEFINE p == Timeouts(x, t)
<1>1. HasState(TimedOut(x))
  BY DEF HasState, TimedOut
<1>2. /\ Shape(p) /\ p.data = <<>>
      /\ p.tx = <<"C">> \/ p.tx = <<"NACK">> \/ p.tx = <<>>
  <2>1. CASE x.state = "START" /\ t > START_TIMEOUT
    BY <2>1 DEF Timeouts, Shape
  <2>2. CASE x.state # "START" /\ t > PACKET_TIMEOUT
    BY <1>1, <2>2 DEF Timeouts, Shape
  <2>3. CASE ~(x.state = "START" /\ t > START_TIMEOUT) /\ ~(x.state # "START" /\ t > PACKET_TIMEOUT)
    BY <2>3 DEF Timeouts, Shape
  <2> QED
    BY <2>1, <2>2, <2>3
<1> HIDE DEF p
<1>3. p.tx \in Seq(Answers) /\ Acks(p.tx) = 0
  BY <1>2, AcksKnown, Zenon
<1>4. Shape(p) /\ EmptyHanded(p)
  BY <1>2, <1>3 DEF EmptyHanded
<1> QED
  BY <1>4 DEF p

LEMMA GiveUpDeliversNothing ==
    ASSUME NEW p, Shape(p), EmptyHanded(p)
    PROVE  Shape(GiveUp(p)) /\ EmptyHanded(GiveUp(p))
<1>1. CASE p.xdm.error_count < MAX_ERRORS
  BY <1>1 DEF GiveUp
<1>2. CASE ~(p.xdm.error_count < MAX_ERRORS)
  <2> DEFINE x == [p.xdm EXCEPT !.state = "FAILURE"]
             tx == Append(p.tx, "CAN")
  <2>1. GiveUp(p) = [xdm |-> x, idle |-> 0, tx |-> tx, data |-> p.data]
    BY <1>2 DEF GiveUp, Shape
  <2>2. HasState(x)
    BY DEF HasState, Shape
  <2>3. "CAN" \in Answers /\ "CAN" # "ACK"
    BY DEF Answers
  <2>4. tx \in Seq(Answers) /\ Acks(tx) = Acks(p.tx) + 0
    BY <2>3, AcksAppend DEF EmptyHanded
  <2> HIDE DEF x, tx
  <2> QED
    BY <2>1, <2>2, <2>4 DEF Shape, EmptyHanded
<1> QED
  BY <1>1, <1>2

LEMMA TakePacketDelivers ==
    ASSUME NEW p, Shape(p), EmptyHanded(p)
    PROVE  HasState(TakePacket(p).xdm) /\ Delivers(TakePacket(p))
<1>1. CASE p.xdm.state # "PROCESS_PACKET"
  BY <1>1 DEF TakePacket, Shape, EmptyHanded, Delivers
<1>2. CASE ~(p.xdm.state # "PROCESS_PACKET")
  <2> DEFINE x == [p.xdm EXCEPT !.block_num = @ + 1, !.state = "SOH"]
             tx == Append(p.tx, "ACK")
             d == p.xdm.packet_data
  <2>1. TakePacket(p) = [xdm |-> x, idle |-> 0, tx |-> tx, data |-> <<d>>]
    BY <1>2 DEF TakePacket
  <2>2. HasState(x)
    BY DEF HasState, Shape
  <2>3. "ACK" \in Answers
    BY DEF Answers
  <2>4. tx \in Seq(Answers) /\ Acks(tx) = Acks(p.tx) + 1
    BY <2>3, AcksAppend DEF EmptyHanded
  <2>5. Acks(tx) = 1
    BY <2>4 DEF EmptyHanded
  <2> HIDE DEF x, tx, d
  <2> QED
    BY <2>1, <2>2, <2>4, <2>5 DEF Delivers
<1> QED
  BY <1>1, <1>2

LEMMA ProcessDelivers ==
    ASSUME NEW x, NEW t, HasState(x)
    PROVE  /\ HasState(xmodem_server_process(x, t).xdm)
           /\ Delivers(xmodem_server_process(x, t))
           /\ is_done(x) => /\ xmodem_server_process(x, t).xdm = x
                            /\ xmodem_server_process(x, t).data = <<>>
<1>1. CASE is_done(x)
  <2>1. <<>> \in Seq(Answers) /\ Acks(<<>>) = 0
    BY AcksOne
  <2> QED
    BY <1>1, <2>1 DEF xmodem_server_process, Delivers
<1>2. CASE ~is_done(x)
  <2>1. xmodem_server_process(x, t) = TakePacket(GiveUp(Timeouts(x, t)))
    BY <1>2 DEF xmodem_server_process
  <2> QED
    BY <1>2, <2>1, TimeoutsDeliverNothing, GiveUpDeliversNothing, TakePacketDelivers
<1> QED
  BY <1>1, <1>2

\* A byte is acknowledged only as the end of the transmission.
Fine(q) ==
    /\ HasState(q.xdm)
    /\ q.tx = <<>> \/ q.tx = <<"NACK">> \/ (q.tx = <<"ACK">> /\ is_done(q.xdm))

LEMMA ByteIsFine ==
    ASSUME NEW x, NEW b, HasState(x)
    PROVE  Fine(xmodem_server_rx_byte(x, b))
<1> DEFINE r == xmodem_server_rx_byte(x, b)
<1>1. \A y : HasState(y) => Fine(Quiet(y))
  BY DEF Quiet, Fine
<1>2. \A st : HasState(To(x, st)) /\ To(x, st).state = st
  BY DEF To, HasState
<1>3. HasState(Resync(x, b))
  BY <1>2 DEF Resync
<1>4. CASE x.state \in {"START", "SOH"}
  <2>1. r = Begin(x, b)
    BY <1>4 DEF xmodem_server_rx_byte
  <2>2. Fine(Begin(x, b))
    <3> DEFINE y(n) == [x EXCEPT !.state = "BLOCK_NUM", !.packet_size = n]
    <3>1. HasState(y(ShortSize)) /\ HasState(y(LongSize))
      BY DEF HasState
    <3>2. CASE b = SOH
      BY <1>1, <3>1, <3>2 DEF Begin, SOH, STX, EOT
    <3>3. CASE b = STX
      BY <1>1, <3>1, <3>3 DEF Begin, SOH, STX, EOT
    <3>4. CASE b = EOT
      <4> DEFINE q == [xdm |-> To(x, "SUCCESSFUL"), tx |-> <<"ACK">>]
      <4>1. Begin(x, b) = q
        BY <3>4 DEF Begin, SOH, STX, EOT
      <4>2. is_done(To(x, "SUCCESSFUL"))
        BY <1>2 DEF is_done
      <4>3. Fine(q)
        BY <1>2, <4>2 DEF Fine
      <4> QED
        BY <4>1, <4>3
    <3>5. CASE b # SOH /\ b # STX /\ b # EOT
      BY <1>1, <3>5 DEF Begin
    <3> QED
      BY <3>2, <3>3, <3>4, <3>5
  <2> QED
    BY <2>1, <2>2
<1>5. CASE x.state = "BLOCK_NUM"
  <2>1. r = Quiet(BlockNum(x, b))
    BY <1>5 DEF xmodem_server_rx_byte
  <2>2. HasState(BlockNum(x, b))
    BY <1>3 DEF BlockNum, HasState
  <2> QED
    BY <1>1, <2>1, <2>2
<1>6. CASE x.state = "BLOCK_NEG"
  <2>1. r = Quiet(BlockNeg(x, b))
    BY <1>6 DEF xmodem_server_rx_byte
  <2>2. HasState(BlockNeg(x, b))
    BY <1>3 DEF BlockNeg, HasState
  <2> QED
    BY <1>1, <2>1, <2>2
<1>7. CASE x.state = "DATA"
  <2>1. r = Quiet(Data(x, b))
    BY <1>7 DEF xmodem_server_rx_byte
  <2>2. HasState(Data(x, b))
    BY DEF Data, HasState, To
  <2> QED
    BY <1>1, <2>1, <2>2
<1>8. CASE x.state = "CRC0"
  <2> DEFINE y == [x EXCEPT !.crc = 256 * b, !.state = "CRC1"]
  <2>1. r = Quiet(y)
    BY <1>8 DEF xmodem_server_rx_byte
  <2>2. HasState(y)
    BY DEF HasState
  <2> QED
    BY <1>1, <2>1, <2>2
<1>9. CASE x.state = "CRC1"
  <2>1. r = CheckPacket(x, b)
    BY <1>9 DEF xmodem_server_rx_byte
  <2>2. Fine(BadPacket(x))
    BY DEF BadPacket, HasState, Fine
  <2>3. Fine(Quiet(To(x, "SOH"))) /\ Fine(Quiet(To(x, "PROCESS_PACKET")))
    BY <1>1, <1>2
  <2>4. \/ CheckPacket(x, b) = BadPacket(x)
        \/ CheckPacket(x, b) = Quiet(To(x, "SOH"))
        \/ CheckPacket(x, b) = Quiet(To(x, "PROCESS_PACKET"))
    BY DEF CheckPacket
  <2> QED
    BY <2>1, <2>2, <2>3, <2>4
<1>10. CASE x.state \notin {"START", "SOH", "BLOCK_NUM", "BLOCK_NEG", "DATA", "CRC0", "CRC1"}
  <2>1. r = Quiet(x)
    BY <1>10 DEF xmodem_server_rx_byte
  <2> QED
    BY <1>1, <2>1
<1> QED
  BY <1>4, <1>5, <1>6, <1>7, <1>8, <1>9, <1>10

LEMMA ByteAnswers ==
    ASSUME NEW r, Fine(r)
    PROVE  /\ HasState(r.xdm) /\ r.tx \in Seq(Answers) /\ (~is_done(r.xdm) => Acks(r.tx) = 0)
           /\ Acks(r.tx) \in {0, 1}
<1>1. r.tx = <<>> \/ r.tx = <<"NACK">> \/ (r.tx = <<"ACK">> /\ is_done(r.xdm))
  BY DEF Fine
<1>2. r.tx \in Seq(Answers)
  BY <1>1, AcksKnown, Zenon
<1>3. ~is_done(r.xdm) => Acks(r.tx) = 0
  BY <1>1, AcksKnown, Zenon
<1>4. Acks(r.tx) = 0 \/ Acks(r.tx) = 1
  BY <1>1, AcksKnown, Zenon
<1> QED
  BY <1>2, <1>3, <1>4 DEF Fine

-----------------------------------------------------------------------------
(* What is on the line. *)

Roles == {"header", "data", "crc", "eot", "noise"}
RolesAt(n) == IF n > Len(Blocks) THEN Roles ELSE Roles \ {"eot"}
RolesIn(s, R) == IsSeq(s) /\ \A i \in 1 .. Len(s) : s[i].role \in R

LEMMA JoinIsSeq ==
    ASSUME NEW p, NEW q, IsSeq(p), IsSeq(q)
    PROVE  /\ IsSeq(p \o q) /\ Len(p) \in Nat /\ Len(q) \in Nat
           /\ Len(p \o q) = Len(p) + Len(q)
           /\ \A i \in 1 .. Len(p) : (p \o q)[i] = p[i]
           /\ \A j \in 1 .. Len(q) : (p \o q)[Len(p) + j] = q[j]
<1>1. PICK S : p \in Seq(S)
  BY DEF IsSeq
<1>2. PICK T : q \in Seq(T)
  BY DEF IsSeq
<1> DEFINE U == S \cup T
<1>3. p \in Seq(U) /\ q \in Seq(U)
  BY <1>1, <1>2
<1> HIDE DEF U
<1>4. p \o q \in Seq(U)
  BY <1>3
<1>5. IsSeq(p \o q)
  BY <1>4 DEF IsSeq
<1> QED
  BY <1>3, <1>5

LEMMA RolesJoin ==
    ASSUME NEW R, NEW p, NEW q, RolesIn(p, R), RolesIn(q, R)
    PROVE  RolesIn(p \o q, R)
<1> DEFINE s == p \o q
           n == Len(p)
<1>1. /\ IsSeq(s) /\ n \in Nat /\ Len(q) \in Nat /\ Len(s) = n + Len(q)
      /\ \A i \in 1 .. n : s[i] = p[i]
      /\ \A j \in 1 .. Len(q) : s[n + j] = q[j]
  BY JoinIsSeq DEF RolesIn
<1> HIDE DEF s, n
<1>2. ASSUME NEW i \in 1 .. Len(s) PROVE s[i].role \in R
  <2>1. CASE i <= n
    <3>1. i \in 1 .. n
      BY <1>1, <2>1
    <3>2. p[i].role \in R
      BY <3>1 DEF RolesIn, n
    <3> QED
      BY <1>1, <3>1, <3>2
  <2>2. CASE ~(i <= n)
    <3> DEFINE j == i - n
    <3>1. j \in 1 .. Len(q) /\ i = n + j
      BY <1>1, <2>2
    <3> HIDE DEF j
    <3>2. q[j].role \in R
      BY <3>1 DEF RolesIn
    <3>3. s[n + j] = q[j]
      BY <1>1, <3>1
    <3> QED
      BY <3>1, <3>2, <3>3
  <2> QED
    BY <2>1, <2>2
<1>3. RolesIn(s, R)
  BY <1>1, <1>2 DEF RolesIn
<1> QED
  BY <1>3 DEF s

LEMMA RolesAs ==
    ASSUME NEW R, NEW role \in R, NEW S, NEW bytes \in Seq(S)
    PROVE  RolesIn(As(role, bytes), R)
<1> DEFINE r(k) == [byte |-> bytes[k], role |-> role]
           T == {r(k) : k \in 1 .. Len(bytes)}
           a == As(role, bytes)
<1>1. Len(bytes) \in Nat /\ DOMAIN bytes = 1 .. Len(bytes)
  OBVIOUS
<1>2. a = [k \in 1 .. Len(bytes) |-> r(k)]
  BY <1>1 DEF As
<1>3. \A k \in 1 .. Len(bytes) : r(k) \in T /\ r(k).role = role
  OBVIOUS
<1> HIDE DEF r, T, a
<1>4. a \in Seq(T) /\ Len(a) = Len(bytes)
  BY <1>1, <1>2, <1>3
<1>5. IsSeq(a)
  BY <1>4 DEF IsSeq
<1>6. RolesIn(a, R)
  BY <1>2, <1>3, <1>4, <1>5 DEF RolesIn
<1> QED
  BY <1>6 DEF a

LEMMA RolesTail ==
    ASSUME NEW R, NEW s, RolesIn(s, R), s # <<>>
    PROVE  RolesIn(Tail(s), R) /\ Head(s).role \in R
<1>1. PICK S : s \in Seq(S)
  BY DEF RolesIn, IsSeq
<1> DEFINE t == Tail(s)
<1>2. Len(s) \in Nat /\ Len(s) >= 1 /\ Head(s) = s[1]
  BY <1>1
<1>3. t \in Seq(S) /\ Len(t) = Len(s) - 1 /\ \A i \in 1 .. Len(t) : t[i] = s[i + 1]
  BY <1>1, <1>2
<1> HIDE DEF t
<1>4. IsSeq(t)
  BY <1>3 DEF IsSeq
<1>5. ASSUME NEW i \in 1 .. Len(t) PROVE t[i].role \in R
  <2> DEFINE j == i + 1
  <2>1. j \in 1 .. Len(s) /\ t[i] = s[j]
    BY <1>2, <1>3
  <2> HIDE DEF j
  <2> QED
    BY <2>1 DEF RolesIn
<1>6. RolesIn(t, R)
  BY <1>4, <1>5 DEF RolesIn
<1>7. Head(s).role \in R
  BY <1>2 DEF RolesIn
<1> QED
  BY <1>6, <1>7 DEF t

LEMMA RolesGarbled ==
    ASSUME NEW R, NEW s, RolesIn(s, R), s # <<>>, "noise" \in R, NEW n
    PROVE  RolesIn([s EXCEPT ![1] = [byte |-> n, role |-> "noise"]], R)
<1>1. PICK S : s \in Seq(S)
  BY DEF RolesIn, IsSeq
<1> DEFINE b == [byte |-> n, role |-> "noise"]
           T == S \cup {b}
           g == [s EXCEPT ![1] = b]
<1>2. b.role \in R
  OBVIOUS
<1> HIDE DEF b
<1>3. b \in T /\ s \in Seq(T) /\ Len(s) \in Nat
  BY <1>1
<1> HIDE DEF T
<1>4. g \in Seq(T) /\ Len(g) = Len(s) /\ \A i \in 1 .. Len(g) : g[i] = IF i = 1 THEN b ELSE s[i]
  BY <1>3
<1> HIDE DEF g
<1>5. IsSeq(g)
  BY <1>4 DEF IsSeq
<1>6. RolesIn(g, R)
  BY <1>2, <1>4, <1>5 DEF RolesIn
<1> QED
  BY <1>6 DEF g, b

LEMMA RolesMore ==
    ASSUME NEW s, NEW m \in Int, NEW n \in Int, m <= n, RolesIn(s, RolesAt(m))
    PROVE  RolesIn(s, RolesAt(n))
<1>1. Len(Blocks) \in Nat
  BY XmodemAssumption
<1>2. RolesAt(m) \subseteq RolesAt(n)
  BY <1>1 DEF RolesAt
<1> QED
  BY <1>2 DEF RolesIn

LEMMA RolesOfPacket ==
    ASSUME NEW k \in 1 .. Len(Blocks), NEW num
    PROVE  RolesIn(Packet(k, num), Roles \ {"eot"})
<1> DEFINE R == Roles \ {"eot"}
           h == <<IF Len(Blocks[k]) = LongSize THEN STX ELSE SOH, num % 256, 255 - (num % 256)>>
           d == Blocks[k]
           c == <<BlockCrc[k] \div 256, BlockCrc[k] % 256>>
<1>1. "header" \in R /\ "data" \in R /\ "crc" \in R
  BY DEF Roles
<1>2. d \in Seq(Nat)
  BY XmodemAssumption
<1>3. h \in Seq({h[1], h[2], h[3]})
  OBVIOUS
<1>4. c \in Seq({c[1], c[2]})
  OBVIOUS
<1>5. Packet(k, num) = As("header", h) \o As("data", d) \o As("crc", c)
  BY DEF Packet
<1> HIDE DEF h, d, c, R
<1>6. RolesIn(As("header", h), R) /\ RolesIn(As("data", d), R) /\ RolesIn(As("crc", c), R)
  BY <1>1, <1>2, <1>3, <1>4, RolesAs
<1>7. RolesIn(As("header", h) \o As("data", d), R)
  BY <1>6, RolesJoin
<1>8. RolesIn(As("header", h) \o As("data", d) \o As("crc", c), R)
  BY <1>6, <1>7, RolesJoin
<1> QED
  BY <1>5, <1>8 DEF R

LEMMA RolesOfSending ==
    ASSUME NEW n \in 1 .. Len(Blocks) + 1
    PROVE  RolesIn(Sending(n), RolesAt(n))
<1>1. Len(Blocks) \in Nat
  BY XmodemAssumption
<1>2. CASE n > Len(Blocks)
  <2> DEFINE e == <<EOT>>
  <2>1. Sending(n) = As("eot", e) /\ RolesAt(n) = Roles
    BY <1>2 DEF Sending, RolesAt
  <2>2. e \in Seq({EOT}) /\ "eot" \in Roles
    BY DEF Roles
  <2> HIDE DEF e
  <2> QED
    BY <2>1, <2>2, RolesAs
<1>3. CASE ~(n > Len(Blocks))
  <2> DEFINE num == sender.first + n
  <2>1. Sending(n) = Packet(n, num) /\ RolesAt(n) = Roles \ {"eot"} /\ n \in 1 .. Len(Blocks)
    BY <1>1, <1>3 DEF Sending, RolesAt
  <2> HIDE DEF num
  <2> QED
    BY <2>1, RolesOfPacket
<1> QED
  BY <1>2, <1>3

-----------------------------------------------------------------------------
(* What was acknowledged, or is about to be, is in the file or in resp. *)

SenderInv ==
    /\ {"state", "next"} \subseteq DOMAIN sender
    /\ sender.next \in 1 .. Len(Blocks) + 1
    /\ RolesIn(line, RolesAt(sender.next))

Held == Len(file) + Len(resp)

\* The packets the sender counts as received when it has taken all its answers.
Promised == sender.next - 1 + Acks(back)

XmodemInv ==
    /\ SenderInv
    /\ back \in Seq(Answers) /\ IsSeq(file) /\ IsSeq(resp) /\ HasState(xdm) /\ room \in Nat
    /\ Full \/ Promised <= Held + (IF endRole = "none" THEN 0 ELSE 1)
    /\ endRole = "eot" => Full \/ Len(Blocks) <= Held
    /\ endRole # "none" => is_done(xdm) /\ resp = <<>>

LEMMA BlocksLen == Len(Blocks) \in Nat
  BY XmodemAssumption

LEMMA InitXmodem == XmodemInit => XmodemInv
<1> SUFFICES ASSUME XmodemInit PROVE XmodemInv
  OBVIOUS
<1>1. PICK n \in FirstNums :
        /\ xdm = [state |-> IF n = 0 THEN "START" ELSE "SOH", packet_data |-> <<>>, crc |-> 0,
                  packet_size |-> 0, repeating |-> FALSE, block_num |-> n, error_count |-> 0]
        /\ sender = [state |-> IF n = 0 THEN "starting" ELSE "sending", next |-> 1, first |-> n]
        /\ back = IF n = 0 THEN <<"C">> ELSE <<>>
        /\ line = IF n = 0 THEN <<>> ELSE Packet(1, n + 1)
        /\ idle = 0 /\ resp = <<>> /\ file = <<>> /\ room \in Rooms /\ receiving = TRUE /\ faults = 0 /\ endRole = "none"
  BY DEF XmodemInit
<1>2. sender.next = 1 /\ {"state", "next"} \subseteq DOMAIN sender
  BY <1>1
<1>3. RolesIn(line, RolesAt(1))
  <2>1. CASE n = 0
    <3>1. line = <<>>
      BY <1>1, <2>1
    <3>2. line \in Seq({}) /\ Len(line) = 0
      BY <3>1
    <3>3. IsSeq(line)
      BY <3>2 DEF IsSeq
    <3> QED
      BY <3>2, <3>3 DEF RolesIn
  <2>2. CASE n # 0
    <3> DEFINE m == n + 1
    <3>1. line = Packet(1, m)
      BY <1>1, <2>2
    <3> HIDE DEF m
    <3>2. Blocks # <<>>
      BY <1>1, <2>2, XmodemAssumption
    <3>3. 1 \in 1 .. Len(Blocks) /\ RolesAt(1) = Roles \ {"eot"}
      BY <3>2, XmodemAssumption DEF RolesAt
    <3> QED
      BY <3>1, <3>3, RolesOfPacket
  <2> QED
    BY <2>1, <2>2
<1>4. back \in Seq(Answers) /\ Acks(back) = 0
  BY <1>1, AcksKnown
<1>5. IsSeq(file) /\ IsSeq(resp) /\ Len(file) = 0 /\ Len(resp) = 0
  <2>1. file \in Seq({}) /\ Len(file) = 0 /\ resp \in Seq({}) /\ Len(resp) = 0
    BY <1>1
  <2> QED
    BY <2>1 DEF IsSeq
<1>6. HasState(xdm) /\ endRole = "none" /\ room \in Nat
  BY <1>1, XmodemAssumption DEF HasState
<1>7. SenderInv
  BY <1>2, <1>3, BlocksLen DEF SenderInv
<1>8. Promised <= Held + 0
  BY <1>2, <1>4, <1>5 DEF Promised, Held
<1> QED
  BY <1>4, <1>5, <1>6, <1>7, <1>8 DEF XmodemInv

\* The counts are numbers.
LEMMA Lengths ==
    ASSUME XmodemInv
    PROVE  /\ Len(file) \in Nat /\ Len(resp) \in Nat /\ Held \in Nat /\ Acks(back) \in Nat
           /\ sender.next \in Int /\ Promised \in Int
<1>1. Len(file) \in Nat /\ Len(resp) \in Nat
  BY JoinIsSeq DEF XmodemInv
<1>2. Acks(back) \in Nat
  BY AcksType DEF XmodemInv
<1>3. sender.next \in Int
  BY BlocksLen DEF XmodemInv, SenderInv
<1> QED
  BY <1>1, <1>2, <1>3 DEF Held, Promised

\* What a round of the receiver's loop keeps: the acknowledgements added to back are paid
\* for by a packet in resp, but for the one that answers an end of transmission.
LEMMA RoundKeeps ==
    ASSUME XmodemInv, endRole = "none", resp = <<>>, NEW rx, Fine(rx), Process(rx),
           UNCHANGED <<file, room, sender>>
    PROVE  /\ back' \in Seq(Answers) /\ IsSeq(resp') /\ HasState(xdm')
           /\ Promised' <= Held' + (IF is_done(rx.xdm) THEN 1 ELSE 0) \/ Full
           /\ is_done(rx.xdm) => is_done(xdm') /\ resp' = <<>> /\ Held' = Held
<1> DEFINE p == xmodem_server_process(rx.xdm, idle)
           tx == rx.tx \o p.tx
<1>1. /\ HasState(rx.xdm) /\ rx.tx \in Seq(Answers) /\ (~is_done(rx.xdm) => Acks(rx.tx) = 0)
      /\ Acks(rx.tx) \in {0, 1}
  BY ByteAnswers
<1>2. HasState(p.xdm) /\ Delivers(p) /\ (is_done(rx.xdm) => p.xdm = rx.xdm /\ p.data = <<>>)
  BY <1>1, ProcessDelivers
<1>3. xdm' = p.xdm /\ Answer(tx) /\ resp' = p.data
  BY DEF Process
<1> HIDE DEF p
<1>4. p.tx \in Seq(Answers) /\ Acks(p.tx) \in Nat
  BY <1>2, AcksType DEF Delivers
<1>5. tx \in Seq(Answers) /\ Acks(tx) = Acks(rx.tx) + Acks(p.tx)
  BY <1>1, <1>4, AcksJoin
<1> HIDE DEF tx
<1>6. /\ back' \in Seq(Answers) /\ Acks(back') \in Nat /\ Acks(back) \in Nat /\ Acks(tx) \in Nat
      /\ Acks(back') <= Acks(back) + Acks(tx)
  <2>1. back \in Seq(Answers)
    BY DEF XmodemInv
  <2>2. Acks(back) \in Nat /\ Acks(tx) \in Nat
    BY <1>5, <2>1, AcksType
  <2>3. back \o tx \in Seq(Answers) /\ Acks(back \o tx) = Acks(back) + Acks(tx)
    BY <1>5, <2>1, AcksJoin
  <2>4. CASE back' = back \o tx
    <3> DEFINE b == back \o tx
    <3>1. b \in Seq(Answers) /\ Acks(b) = Acks(back) + Acks(tx) /\ back' = b
      BY <2>3, <2>4
    <3> HIDE DEF b
    <3> QED
      BY <2>2, <3>1
  <2>5. CASE back' = back
    BY <2>1, <2>2, <2>5
  <2> QED
    BY <1>3, <2>4, <2>5 DEF Answer
<1>7. IsSeq(p.data) /\ Len(p.data) = Acks(p.tx)
  <2>1. CASE p.data = <<>> /\ Acks(p.tx) = 0
    <3>1. p.data \in Seq({}) /\ Len(p.data) = 0
      BY <2>1
    <3> QED
      BY <2>1, <3>1 DEF IsSeq
  <2>2. CASE (\E d : p.data = <<d>>) /\ Acks(p.tx) = 1
    <3>1. PICK d : p.data = <<d>>
      BY <2>2
    <3>2. p.data \in Seq({d}) /\ Len(p.data) = 1
      BY <3>1
    <3> QED
      BY <2>2, <3>2 DEF IsSeq
  <2> QED
    BY <1>2, <2>1, <2>2 DEF Delivers
<1>8. /\ Len(file) \in Nat /\ sender.next \in Int /\ Len(resp) = 0
      /\ Full \/ sender.next - 1 + Acks(back) <= Len(file)
  <2>1. Len(resp) = 0 /\ Len(file) \in Nat /\ sender.next \in Int
    BY Lengths
  <2> QED
    BY <2>1 DEF XmodemInv, Promised, Held
<1>9. Held' = Len(file) + Acks(p.tx) /\ Promised' = sender.next - 1 + Acks(back') /\ Held = Len(file)
  BY <1>3, <1>7, <1>8 DEF Held, Promised
<1>10. Promised' <= Held' + (IF is_done(rx.xdm) THEN 1 ELSE 0) \/ Full
  <2>1. CASE is_done(rx.xdm)
    <3>1. Acks(tx) <= 1 + Acks(p.tx)
      BY <1>1, <1>4, <1>5
    <3> QED
      BY <1>4, <1>6, <1>8, <1>9, <2>1, <3>1, SMTT(30)
  <2>2. CASE ~is_done(rx.xdm)
    <3>1. Acks(tx) = Acks(p.tx)
      BY <1>1, <1>4, <1>5, <2>2
    <3> QED
      BY <1>4, <1>6, <1>8, <1>9, <2>2, <3>1, SMTT(30)
  <2> QED
    BY <2>1, <2>2
<1>11. ASSUME is_done(rx.xdm) PROVE is_done(xdm') /\ resp' = <<>> /\ Held' = Held
  <2>1. xdm' = rx.xdm /\ p.data = <<>>
    BY <1>2, <1>3, <1>11
  <2>2. Acks(p.tx) = 0
    BY <1>2, <2>1 DEF Delivers
  <2> QED
    BY <1>3, <1>8, <1>9, <1>11, <2>1, <2>2
<1>12. IsSeq(resp') /\ HasState(xdm')
  BY <1>2, <1>3, <1>7
<1> QED
  BY <1>6, <1>10, <1>11, <1>12

LEMMA RoundStep ==
    ASSUME XmodemInv, RoundWithByte \/ RoundWithout
    PROVE  XmodemInv'
<1>1. endRole = "none" /\ resp = <<>> /\ UNCHANGED <<file, room, sender>>
  BY DEF XmodemInv, RoundWithByte, RoundWithout
<1>2. SenderInv
  BY DEF XmodemInv
<1>3. IsSeq(file') /\ room' \in Nat /\ Full' = Full
  BY <1>1 DEF XmodemInv, Full
<1>4. CASE RoundWithByte
  <2> DEFINE rx == xmodem_server_rx_byte(xdm, Head(line).byte)
             role == Head(line).role
  <2>1. /\ Process(rx) /\ endRole' = IF is_done(rx.xdm) THEN role ELSE endRole
        /\ line # <<>> /\ line' = Tail(line)
    BY <1>4 DEF RoundWithByte
  <2>2. HasState(xdm)
    BY DEF XmodemInv
  <2>3. Fine(rx)
    BY <2>2, ByteIsFine
  <2> HIDE DEF rx
  <2>4. /\ back' \in Seq(Answers) /\ IsSeq(resp') /\ HasState(xdm')
        /\ Promised' <= Held' + (IF is_done(rx.xdm) THEN 1 ELSE 0) \/ Full
        /\ is_done(rx.xdm) => is_done(xdm') /\ resp' = <<>> /\ Held' = Held
    BY <1>1, <2>1, <2>3, RoundKeeps
  <2>5. RolesIn(line', RolesAt(sender.next)) /\ role \in RolesAt(sender.next)
    BY <1>2, <2>1, RolesTail DEF SenderInv
  <2>6. SenderInv'
    BY <1>1, <1>2, <2>1, <2>5 DEF SenderInv
  <2> HIDE DEF role
  <2>7. role # "none" /\ (role = "eot" => sender.next > Len(Blocks))
    BY <2>5 DEF RolesAt, Roles
  <2>8. ASSUME role = "eot" PROVE Full \/ Len(Blocks) <= Held
    <3>1. sender.next > Len(Blocks) /\ sender.next \in Int /\ Acks(back) \in Nat /\ Held \in Nat
      BY <2>7, <2>8, Lengths
    <3>2. Full \/ sender.next - 1 + Acks(back) <= Held
      BY <1>1, <3>1 DEF XmodemInv, Promised
    <3> QED
      BY <3>1, <3>2, BlocksLen
  <2>9. CASE is_done(rx.xdm)
    <3>1. endRole' = role /\ is_done(xdm') /\ resp' = <<>> /\ Held' = Held
      BY <2>1, <2>4, <2>9
    <3>2. endRole' # "none" /\ (Full' \/ Promised' <= Held' + 1)
      BY <1>3, <2>4, <2>7, <2>9, <3>1
    <3>3. endRole' = "eot" => Full' \/ Len(Blocks) <= Held'
      BY <1>3, <2>8, <3>1
    <3> QED
      BY <1>3, <2>4, <2>6, <3>1, <3>2, <3>3 DEF XmodemInv
  <2>10. CASE ~is_done(rx.xdm)
    <3>1. endRole' = "none" /\ "none" # "eot"
      BY <1>1, <2>1, <2>10
    <3>2. Full' \/ Promised' <= Held' + 0
      BY <1>3, <2>4, <2>10
    <3> QED
      BY <1>3, <2>4, <2>6, <3>1, <3>2 DEF XmodemInv
  <2> QED
    BY <2>9, <2>10
<1>5. CASE RoundWithout
  <2> DEFINE rx == Quiet(xdm)
  <2>1. Process(rx) /\ endRole' = endRole /\ line' = line /\ ~is_done(xdm)
    BY <1>5 DEF RoundWithout
  <2>2. rx.xdm = xdm /\ Fine(rx)
    BY DEF Quiet, Fine, XmodemInv
  <2> HIDE DEF rx
  <2>3. /\ back' \in Seq(Answers) /\ IsSeq(resp') /\ HasState(xdm')
        /\ Promised' <= Held' + (IF is_done(rx.xdm) THEN 1 ELSE 0) \/ Full
    BY <1>1, <2>1, <2>2, RoundKeeps
  <2>4. Full' \/ Promised' <= Held' + 0
    BY <1>3, <2>1, <2>2, <2>3
  <2>5. SenderInv'
    BY <1>1, <1>2, <2>1 DEF SenderInv
  <2>6. endRole' = "none" /\ "none" # "eot"
    BY <1>1, <2>1
  <2> QED
    BY <1>3, <2>3, <2>4, <2>5, <2>6 DEF XmodemInv
<1> QED
  BY <1>4, <1>5

\* The write that follows an acknowledgement: the packet goes to the file, or the disc
\* is full, and stays so.
LEMMA WriteStep == ASSUME XmodemInv, WriteFile PROVE XmodemInv'
<1>1. /\ resp # <<>> /\ write /\ resp' = <<>>
      /\ UNCHANGED <<xdm, room, line, back, sender, endRole>>
  BY DEF WriteFile
<1>2. endRole = "none" /\ "none" # "eot"
  BY <1>1 DEF XmodemInv
<1>3. IsSeq(file) /\ IsSeq(resp) /\ Len(file) \in Nat /\ Len(resp) \in Nat /\ room \in Nat
  BY Lengths DEF XmodemInv
<1>4. IsSeq(file \o resp) /\ Len(file \o resp) = Len(file) + Len(resp)
  BY <1>3, JoinIsSeq
<1>5. resp' \in Seq({}) /\ Len(resp') = 0
  BY <1>1
<1>6. IsSeq(resp')
  BY <1>5 DEF IsSeq
<1>7. SenderInv' /\ back' \in Seq(Answers) /\ HasState(xdm') /\ room' \in Nat /\ endRole' = "none"
  BY <1>1, <1>2 DEF XmodemInv, SenderInv
<1>8. CASE Len(file) < room
  <2>1. file' = file \o resp
    BY <1>1, <1>8 DEF write
  <2>2. IsSeq(file') /\ Held' = Held
    BY <1>3, <1>4, <1>5, <2>1 DEF Held
  <2>3. ~Full /\ Promised' = Promised
    BY <1>1, <1>3, <1>8 DEF Full, Promised
  <2>4. Promised' <= Held' + 0
    BY <1>2, <2>2, <2>3 DEF XmodemInv
  <2> QED
    BY <1>2, <1>6, <1>7, <2>2, <2>4 DEF XmodemInv
<1>9. CASE ~(Len(file) < room)
  <2>1. file' = file
    BY <1>1, <1>9 DEF write
  <2>2. IsSeq(file') /\ Full'
    BY <1>1, <1>3, <1>9, <2>1 DEF Full
  <2> QED
    BY <1>2, <1>6, <1>7, <2>2 DEF XmodemInv
<1> QED
  BY <1>8, <1>9

\* Sending packet m when packet n or a later one is due.
LEMMA EmitKeepsRoles ==
    ASSUME NEW m \in 1 .. Len(Blocks) + 1, NEW n \in 1 .. Len(Blocks) + 1, m <= n,
           RolesIn(line, RolesAt(n)), Emit(m)
    PROVE  RolesIn(line', RolesAt(n))
<1>1. RolesIn(Sending(m), RolesAt(m))
  BY RolesOfSending
<1>2. RolesIn(Sending(m), RolesAt(n))
  BY <1>1, BlocksLen, RolesMore
<1>3. line' = line \o Sending(m)
  BY DEF Emit
<1> QED
  BY <1>2, <1>3, RolesJoin

LEMMA SenderStep ==
    ASSUME XmodemInv, SendFirst \/ SendNext \/ SendAgain \/ SenderCancelled \/ SenderTimeout
    PROVE  XmodemInv'
<1> DEFINE n == sender.next
<1>1. SenderInv /\ back \in Seq(Answers)
  BY DEF XmodemInv
<1>2. n \in 1 .. Len(Blocks) + 1 /\ n \in Int /\ 1 \in 1 .. Len(Blocks) + 1 /\ RolesIn(line, RolesAt(n)) /\ Acks(back) \in Nat
  BY <1>1, BlocksLen, AcksType DEF SenderInv
<1>3. Held \in Nat
  BY Lengths
<1>4. xdm' = xdm /\ file' = file /\ resp' = resp /\ room' = room /\ endRole' = endRole
  BY DEF SendFirst, SendNext, SendAgain, SenderCancelled, SenderTimeout, SenderTakes
<1>5. ASSUME NEW a, SenderTakes(a)
      PROVE  back' \in Seq(Answers) /\ Acks(back') \in Nat /\ Acks(back) = Acks(back') + (IF a = "ACK" THEN 1 ELSE 0)
  <2>1. back # <<>> /\ Head(back) = a /\ back' = Tail(back)
    BY <1>5 DEF SenderTakes
  <2>2. Tail(back) \in Seq(Answers) /\ Acks(back) = Acks(Tail(back)) + (IF Head(back) = "ACK" THEN 1 ELSE 0)
    BY <1>1, <2>1, AcksTail
  <2>3. Acks(Tail(back)) \in Nat
    BY <2>2, AcksType
  <2> QED
    BY <2>1, <2>2, <2>3
<1>6. ASSUME back' \in Seq(Answers), SenderInv', Acks(back') \in Nat,
             n' - 1 + Acks(back') <= n - 1 + Acks(back)
      PROVE  XmodemInv'
  <2>1. n' \in Int
    BY <1>6, BlocksLen DEF SenderInv
  <2> HIDE DEF n
  <2>2. Promised = n - 1 + Acks(back) /\ Promised' = n' - 1 + Acks(back')
    BY DEF Promised, n
  <2>3. Held' = Held /\ Full' = Full
    BY <1>4 DEF Held, Full
  <2>4. ASSUME NEW k \in Nat, Promised <= Held + k PROVE Promised' <= Held' + k
    BY <1>2, <1>3, <1>6, <2>1, <2>2, <2>3, <2>4
  <2>5. Full' \/ Promised' <= Held' + (IF endRole' = "none" THEN 0 ELSE 1)
    BY <1>4, <2>3, <2>4 DEF XmodemInv
  <2> QED
    BY <1>4, <1>6, <2>3, <2>5 DEF XmodemInv
<1>7. CASE SendFirst
  <2>1. SenderTakes("C") /\ Emit(1) /\ sender' = [sender EXCEPT !.state = "sending"]
    BY <1>7 DEF SendFirst
  <2>2. back' \in Seq(Answers) /\ Acks(back') \in Nat /\ Acks(back) = Acks(back')
    BY <1>2, <1>5, <2>1
  <2>3. sender'.next = n /\ {"state", "next"} \subseteq DOMAIN sender'
    BY <1>1, <2>1 DEF SenderInv
  <2>4. RolesIn(line', RolesAt(n))
    BY <1>2, <2>1, EmitKeepsRoles
  <2>5. SenderInv'
    BY <1>2, <2>3, <2>4 DEF SenderInv
  <2> QED
    BY <1>2, <1>6, <2>2, <2>3, <2>5
<1>8. CASE SendNext
  <2>1. SenderTakes("ACK")
    BY <1>8 DEF SendNext
  <2>2. back' \in Seq(Answers) /\ Acks(back') \in Nat /\ Acks(back) = Acks(back') + 1
    BY <1>5, <2>1
  <2>3. CASE n > Len(Blocks)
    <3>1. sender' = [sender EXCEPT !.state = "sent"] /\ line' = line
      BY <1>8, <2>3 DEF SendNext
    <3>2. sender'.next = n /\ {"state", "next"} \subseteq DOMAIN sender'
      BY <1>1, <3>1 DEF SenderInv
    <3>3. SenderInv'
      BY <1>2, <3>1, <3>2 DEF SenderInv
    <3> QED
      BY <1>2, <1>6, <2>2, <3>2, <3>3
  <2>4. CASE ~(n > Len(Blocks))
    <3> DEFINE m == n + 1
    <3>1. sender' = [sender EXCEPT !.next = m] /\ Emit(m)
      BY <1>8, <2>4 DEF SendNext
    <3>2. m \in 1 .. Len(Blocks) + 1 /\ m = n + 1 /\ m \in Int
      BY <1>2, <2>4, BlocksLen
    <3> HIDE DEF m
    <3>3. sender'.next = m /\ {"state", "next"} \subseteq DOMAIN sender'
      BY <1>1, <3>1 DEF SenderInv
    <3>4. RolesIn(line, RolesAt(m))
      BY <1>2, <3>2, RolesMore
    <3>5. RolesIn(line', RolesAt(m))
      BY <3>1, <3>2, <3>4, EmitKeepsRoles
    <3>6. SenderInv'
      BY <3>2, <3>3, <3>5 DEF SenderInv
    <3> QED
      BY <1>2, <1>6, <2>2, <3>2, <3>3, <3>6, SMTT(30)
  <2> QED
    BY <2>3, <2>4
<1>9. CASE SendAgain
  <2>1. (SenderTakes("NACK") \/ SenderTakes("C")) /\ Emit(n) /\ sender' = sender
    BY <1>9 DEF SendAgain
  <2>2. back' \in Seq(Answers) /\ Acks(back') \in Nat /\ Acks(back) = Acks(back')
    <3>1. CASE SenderTakes("NACK")
      BY <1>5, <3>1
    <3>2. CASE SenderTakes("C")
      BY <1>5, <3>2
    <3> QED
      BY <2>1, <3>1, <3>2
  <2>3. RolesIn(line', RolesAt(n))
    BY <1>2, <2>1, EmitKeepsRoles
  <2>4. SenderInv'
    BY <1>1, <2>1, <2>3 DEF SenderInv
  <2> QED
    BY <1>2, <1>6, <2>1, <2>2, <2>4
<1>10. CASE SenderCancelled
  <2>1. SenderTakes("CAN") /\ line' = line /\ (sender' = sender \/ sender' = [sender EXCEPT !.state = "stopped"])
    BY <1>10 DEF SenderCancelled
  <2>2. back' \in Seq(Answers) /\ Acks(back') \in Nat /\ Acks(back) = Acks(back')
    BY <1>5, <2>1
  <2>3. sender'.next = n /\ {"state", "next"} \subseteq DOMAIN sender'
    BY <1>1, <2>1 DEF SenderInv
  <2>4. SenderInv'
    BY <1>2, <2>1, <2>3 DEF SenderInv
  <2> QED
    BY <1>2, <1>6, <2>2, <2>3, <2>4
<1>11. CASE SenderTimeout
  <2>1. Emit(n) /\ sender' = sender /\ back' = back
    BY <1>11 DEF SenderTimeout
  <2>2. RolesIn(line', RolesAt(n))
    BY <1>2, <2>1, EmitKeepsRoles
  <2>3. SenderInv'
    BY <1>1, <2>1, <2>2 DEF SenderInv
  <2> QED
    BY <1>1, <1>2, <1>6, <2>1, <2>3
<1> QED
  BY <1>7, <1>8, <1>9, <1>10, <1>11

LEMMA LineStep ==
    ASSUME XmodemInv, LoseByte \/ (\E n \in Noise : GarbleByte(n)) \/ LoseAnswer
    PROVE  XmodemInv'
<1>1. SenderInv /\ back \in Seq(Answers)
  BY DEF XmodemInv
<1>2. /\ xdm' = xdm /\ file' = file /\ resp' = resp /\ room' = room
      /\ endRole' = endRole /\ sender' = sender
  BY DEF LoseByte, GarbleByte, LoseAnswer
<1>3. CASE LoseByte
  <2>1. line # <<>> /\ line' = Tail(line) /\ back' = back
    BY <1>3 DEF LoseByte
  <2>2. RolesIn(line', RolesAt(sender.next))
    BY <1>1, <2>1, RolesTail DEF SenderInv
  <2>3. SenderInv'
    BY <1>1, <1>2, <2>2 DEF SenderInv
  <2> QED
    BY <1>2, <2>1, <2>3 DEF XmodemInv, Full, Promised, Held
<1>4. ASSUME NEW n \in Noise, GarbleByte(n) PROVE XmodemInv'
  <2>1. line # <<>> /\ line' = [line EXCEPT ![1] = [byte |-> n, role |-> "noise"]] /\ back' = back
    BY <1>4 DEF GarbleByte
  <2>2. "noise" \in RolesAt(sender.next)
    BY DEF RolesAt, Roles
  <2>3. RolesIn(line', RolesAt(sender.next))
    BY <1>1, <2>1, <2>2, RolesGarbled DEF SenderInv
  <2>4. SenderInv'
    BY <1>1, <1>2, <2>3 DEF SenderInv
  <2> QED
    BY <1>2, <2>1, <2>4 DEF XmodemInv, Full, Promised, Held
<1>5. CASE LoseAnswer
  <2>1. back # <<>> /\ back' = Tail(back) /\ line' = line
    BY <1>5 DEF LoseAnswer
  <2>2. Tail(back) \in Seq(Answers) /\ Acks(back) = Acks(Tail(back)) + (IF Head(back) = "ACK" THEN 1 ELSE 0)
    BY <1>1, <2>1, AcksTail
  <2>3. Acks(Tail(back)) \in Nat /\ Acks(back) \in Nat
    BY <1>1, <2>2, AcksType
  <2>4. back' \in Seq(Answers) /\ Acks(back') \in Nat /\ Acks(back') <= Acks(back)
    BY <2>1, <2>2, <2>3
  <2>5. SenderInv' /\ sender.next \in Int
    BY <1>1, <1>2, <2>1, BlocksLen DEF SenderInv
  <2>6. Held \in Nat /\ Held' = Held /\ Full' = Full
    BY <1>2, Lengths DEF Held, Full
  <2>7. ASSUME NEW k \in Nat, Promised <= Held + k PROVE Promised' <= Held' + k
    BY <1>2, <2>3, <2>4, <2>5, <2>6, <2>7 DEF Promised
  <2>8. Full' \/ Promised' <= Held' + (IF endRole' = "none" THEN 0 ELSE 1)
    BY <1>2, <2>6, <2>7 DEF XmodemInv
  <2> QED
    BY <1>2, <2>4, <2>5, <2>6, <2>8 DEF XmodemInv
<1> QED
  BY <1>3, <1>4, <1>5

LEMMA NextXmodem == XmodemInv /\ [XmodemNext]_xmvars => XmodemInv'
<1> SUFFICES ASSUME XmodemInv, [XmodemNext]_xmvars PROVE XmodemInv'
  OBVIOUS
<1>1. CASE RoundWithByte \/ RoundWithout
  BY <1>1, RoundStep
<1>2. CASE EndReceive
  BY <1>2 DEF EndReceive, XmodemInv, SenderInv, Full, Promised, Held
<1>3. CASE SendFirst \/ SendNext \/ SendAgain \/ SenderCancelled \/ SenderTimeout
  BY <1>3, SenderStep
<1>4. CASE LoseByte \/ (\E n \in Noise : GarbleByte(n)) \/ LoseAnswer
  BY <1>4, LineStep
<1>5. CASE UNCHANGED xmvars
  BY <1>5 DEF xmvars, XmodemInv, SenderInv, Full, Promised, Held
<1>6. CASE WriteFile
  BY <1>6, WriteStep
<1> QED
  BY <1>1, <1>2, <1>3, <1>4, <1>5, <1>6 DEF XmodemNext

LEMMA XmodemInvAcked == XmodemInv => AckedIsWritten
<1> SUFFICES ASSUME XmodemInv, ~Full
             PROVE  sender.next - 1 <= Len(file) + Len(resp) + (IF StrayEnd THEN 1 ELSE 0)
  BY DEF AckedIsWritten
<1>1. /\ sender.next \in 1 .. Len(Blocks) + 1 /\ sender.next \in Int /\ Acks(back) \in Nat
      /\ Held \in Nat /\ Held = Len(file) + Len(resp)
  BY Lengths DEF XmodemInv, SenderInv, Held
<1>2. sender.next - 1 + Acks(back) <= Held + (IF endRole = "none" THEN 0 ELSE 1)
  BY DEF XmodemInv, Promised
<1>3. CASE endRole = "none"
  BY <1>1, <1>2, <1>3 DEF StrayEnd
<1>4. CASE endRole = "eot"
  <2>1. Len(Blocks) <= Held
    BY <1>4 DEF XmodemInv
  <2> QED
    BY <1>1, <1>4, <2>1, BlocksLen DEF StrayEnd
<1>5. CASE endRole \notin {"none", "eot"}
  <2>1. StrayEnd /\ endRole # "none"
    BY <1>5 DEF StrayEnd
  <2> QED
    BY <1>1, <1>2, <2>1
<1> QED
  BY <1>3, <1>4, <1>5

LEMMA XmodemInvComplete == XmodemInv => SuccessIsComplete
<1> SUFFICES ASSUME XmodemInv, endRole = "eot", ~Full PROVE Len(file) >= Len(Blocks)
  BY DEF SuccessIsComplete
<1>1. Len(Blocks) <= Held /\ resp = <<>>
  BY DEF XmodemInv
<1>2. Len(resp) = 0
  BY <1>1
<1>3. Held = Len(file) + Len(resp) /\ Len(file) \in Nat
  BY Lengths DEF Held
<1> QED
  BY <1>1, <1>2, <1>3, BlocksLen

\* i_receive_xmodem acknowledges a packet before it writes it and does not look at what
\* write() returns.  Whatever bytes and answers are lost, garbled, late or sent again
\* and however often, and also when the checksum lets damage through: the packets the
\* sender was told are received are in the file or the one about to be written, and when
\* its end of transmission ended the transfer all of them are in the file; unless the
\* disc is full, and but for the one packet that a stray end of transmission seems to
\* acknowledge.
THEOREM TransferIsComplete == XmodemSpec => []ReceivedIsWritten
<1>1. XmodemInit => XmodemInv
  BY InitXmodem
<1>2. XmodemInv /\ [XmodemNext]_xmvars => XmodemInv'
  BY NextXmodem
<1>3. XmodemInv => ReceivedIsWritten
  BY XmodemInvAcked, XmodemInvComplete DEF ReceivedIsWritten
<1> QED
  BY <1>1, <1>2, <1>3, PTL DEF XmodemSpec
=============================================================================
