------------------------------- MODULE MCInit -------------------------------
(* The init program for TLC: its settings and scripts, or a transfer of    *)
(* its rx command, which share no state.                                   *)
EXTENDS Xmodem, InitProgram

VARIABLE part

vars == <<xmvars, initvars, part>>

Init ==
    /\ XmodemInit /\ InitProgramInit /\ part \in {"rx", "prompt"}
    /\ part = "prompt" => xdm.state = "START" /\ room >= Len(Blocks)
    /\ room < Len(Blocks) => xdm.state = "START"

Next ==
    /\ UNCHANGED part
    /\ \/ part = "rx" /\ XmodemNext /\ UNCHANGED initvars
       \/ part = "prompt" /\ InitProgramNext /\ UNCHANGED xmvars

(* The receiver's loop does not stop.  The sender may. *)
Spec == Init /\ [][Next]_vars /\ WF_vars(part = "rx" /\ Receiver /\ UNCHANGED <<initvars, part>>)

-----------------------------------------------------------------------------
(* A short and a long packet; their data hold bytes that could begin a     *)
(* packet or end the transfer.                                             *)
MCBlocks == <<<<1>>, <<4, 2>>>>

MCatoi == [w \in {"netstation", "netclock", "netterminate", "on", "off", "enable", "x",
                  "0", "1", "6", "8", "254", "256", "257"} |->
    CASE w = "1" -> 1 [] w = "6" -> 6 [] w = "8" -> 8 [] w = "254" -> 254
      [] w = "256" -> 256 [] w = "257" -> 257 [] OTHER -> 0]

Line(lead, words) == [lead |-> lead, words |-> words]
Configure(words) == Line(0, <<"configure">> \o words)

MCTyped ==
    {Configure(<<"netclock", "1", "enable">>), Configure(<<"netclock", "6">>),
     Configure(<<"netclock", "8", "enable">>), Configure(<<"netclock">>),
     Configure(<<"netterminate", "on">>), Configure(<<"netterminate", "off">>),
     Configure(<<"netstation", "254">>), Configure(<<"netstation", "256">>),
     Configure(<<"netstation", "257">>), Configure(<<"x">>), Configure(<<>>),
     Line(1, <<"hexdump", "x">>), Line(4, <<"configure", "netclock", "1">>),
     Line(0, <<>>), Line(0, <<"prog", "x">>), Line(0, <<"other">>)}

MCScript ==
    <<Line(0, <<"#configure", "netclock", "6">>), Line(1, <<"#", "prog">>), Configure(<<"netstation", "254">>), Line(3, <<>>),
      Line(2, <<"configure", "netclock", "6", "enable">>), Line(0, <<"prog">>),
      Configure(<<"netterminate", "on">>)>>
=============================================================================
