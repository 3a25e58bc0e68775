----------------------------- MODULE MCConsole -----------------------------
(* Small instances of Console and Shell for TLC.  The console, the shell's *)
(* commands and printk share no state, so a behaviour exercises one of     *)
(* them, and printk, which keeps none, prints one message.                 *)
EXTENDS Console, Shell, TLC

VARIABLE part

vars == <<consvars, shellvars, part>>

Init == ConsoleInit /\ ShellInit /\ part \in {"console", "shell", "printk"}

Next ==
    /\ UNCHANGED part
    /\ \/ part = "console" /\ ConsoleNext /\ UNCHANGED shellvars
       \/ part = "shell" /\ (\E c \in Commands : super_shell(c)) /\ UNCHANGED consvars
       \/ part = "printk" /\ printed = Nothing /\ (\E m \in Messages : printk(m)) /\ UNCHANGED consvars

(* The kernel's loops run, the hardware works and the clock goes on.  The  *)
(* terminal and the program do what they like.                             *)
Fairness ==
    /\ WF_vars(Kernel /\ part = "console" /\ UNCHANGED <<shellvars, part>>)
    /\ WF_vars(Tick /\ part = "console" /\ UNCHANGED <<shellvars, part>>)

Spec == Init /\ [][Next]_vars /\ Fairness

-----------------------------------------------------------------------------
MCTimeouts == {0, 1, -1}
MCPollLists == {<<0>>, <<-3, 0>>, <<0, 5>>}

Peek(s, a) == <<<<"p", "e", "e", "k">>, <<s>>, a>>
Poke(s, a, v) == <<<<"p", "o", "k", "e">>, <<s>>, a, v>>
Dump(a, n) == <<<<"h", "e", "x", "d", "u", "m", "p">>, a, n>>

(* Values of fewer, as many and more digits than fit, and bad ones. *)
MCCommands ==
    {Peek("w", <<"4">>), Peek("h", <<"0", "2">>), Peek("b", <<"5">>), Peek("q", <<"0">>), Peek("b", <<"g">>),
     <<<<"p", "e", "e", "k">>>>, <<<<"r", "e", "a", "d">>>>,
     Poke("w", <<"4">>, <<"1", "a", "0", "f">>), Poke("h", <<"2">>, <<"5">>), Poke("b", <<"7">>, <<"5", "c">>),
     Poke("w", <<"0">>, <<"3">>), Poke("b", <<"0">>, <<"Z">>), Poke("q", <<"0">>, <<"1">>),
     Poke("b", <<"A">>, <<"1">>), <<<<"p", "o", "k", "e">>, <<"b">>>>,
     Dump(<<"0">>, <<"8">>), Dump(<<"1">>, <<"6">>), Dump(<<"2">>, <<"0">>), Dump(<<"3">>, <<"3">>),
     Dump(<<"x">>, <<"1">>), Dump(<<"1">>, <<"x">>), <<<<"h", "e", "x", "d", "u", "m", "p">>>>}

MCGlyph == (5 :> "A") @@ (10 :> "B")

Message(f, w, l, c, a, s) == [flags |-> f, width |-> w, mod |-> l, conv |-> c, arg |-> a, star |-> s]

(* Numbers at and beside the edges of their types. *)
Values == {0, 1, 9, 10, 15, 16, 200, 255, 4096, 32767, 32768, 65535, -1, -7, -32768}
Flags == {<<>>, <<"-">>, <<"0">>, <<"+">>, <<" ", "0">>, <<"#", "0">>, <<"-", "0">>, <<"0", "-", "+">>}
Widths == {<<>>, <<"3">>, <<"8">>, <<"1", "2">>}

(* Every conversion with every length, the flags C allows with it, and     *)
(* widths given as digits and as an argument of either sign.               *)
MCMessages ==
    {Message(f, w, <<>>, c, v, 0) : f \in Flags, w \in Widths, c \in {"d", "u", "x"}, v \in Values}
    \cup {Message(f, w, l, c, v, 0) :
              f \in Flags, w \in {<<>>, <<"8">>}, l \in {<<>>, <<"h">>, <<"h", "h">>, <<"l">>},
              c \in {"d", "o", "u", "x", "X"}, v \in {0, 1, 8, 200, 32768, -1, -7}}
    \cup {Message(f, <<"*">>, <<>>, c, v, s) :
              f \in Flags, c \in {"d", "o", "u", "x", "X"}, v \in {-7, 0, 200}, s \in {0, 6, -6}}
    \cup {Message(f, w, <<>>, c, v, s) :
              f \in {<<>>, <<"-">>}, w \in Widths \cup {<<"*">>}, s \in {6, -6},
              <<c, v>> \in {<<"s", <<"o", "k">>>>, <<"s", <<>>>>, <<"c", "k">>, <<"p", 0>>, <<"p", 4096>>}}
    \cup {Message(<<>>, <<>>, <<>>, "%", "%", 0)}

(* What the theorem about line and screen asks of the keys. *)
ASSUME KeysAssumption == PlainKeys
=============================================================================
