----------------------------- MODULE FileServer -----------------------------
(***************************************************************************)
(* The file server (message.c, starcmd.c) over the Econet driver: requests *)
(* arrive one behind the other in the driver's only buffer, are copied to  *)
(* the server's own, taken apart there and answered.                       *)
(*                                                                         *)
(* Bytes are numbers.  A command name is one letter, and the driver is     *)
(* modelled by what read, ioctl and write promise (module Econet).         *)
(***************************************************************************)
EXTENDS Ranks, Sequences, FiniteSetsExt, SequencesExt

CONSTANTS
    BufSize,        \* sizeof(econet_buf)
    Requests,       \* data frames that stations send, from the source on
    StarArgs,       \* MAXARGS of starcmd.c
    MaxRequests     \* how many of them arrive

NUL == 0
Space == 1
LetterI == 2
UpperI == 3
LetterE == 4
HeaderSize == 7

ASSUME ServerAssumption ==
    /\ StarArgs \in Nat \ {0} /\ BufSize \in Nat
    /\ Requests \subseteq Seq(Nat) /\ \A r \in Requests : Len(r) < BufSize

VARIABLES
    inbox,          \* <<>>, or <<r>>: the driver's buffer holds an unread frame
    econet_buf,     \* the server's buffer, as a function from 0
    msg,            \* the message that is being handled, if any
    destmap,        \* the driver's destination of the server's descriptor
    arrived,        \* how many requests arrived
    taken,          \* history: the requests that were read
    replies         \* history: what was sent
servervars == <<inbox, econet_buf, msg, destmap, arrived, taken, replies>>

Idle == [size |-> 0]

ServerInit ==
    /\ inbox = <<>> /\ econet_buf = [k \in 0 .. BufSize |-> NUL] /\ msg = Idle
    /\ destmap = [station |-> 0, net |-> 0, port |-> 0]
    /\ arrived = 0 /\ taken = <<>> /\ replies = <<>>

-----------------------------------------------------------------------------
(* A frame is acknowledged and stored whether or not the one before it was *)
(* read.                                                                   *)
RequestArrives(r) ==
    /\ arrived < MaxRequests /\ arrived' = arrived + 1
    /\ inbox' = <<r>>
    /\ UNCHANGED <<econet_buf, msg, destmap, taken, replies>>

(* Mutant: the buffer still holds the end of a longer message. *)
NoTerminator(buf, r) == [k \in DOMAIN buf |-> IF k < Len(r) THEN r[k + 1] ELSE buf[k]]

(* What the buffer holds when a message is handled: a terminator follows   *)
(* it.  A message without a header gets none.                              *)
Received(buf, r) ==
    [k \in DOMAIN buf |->
        IF k < Len(r) THEN r[k + 1]
        ELSE IF k = Len(r) /\ Len(r) >= HeaderSize THEN NUL ELSE buf[k]]

(* read, and the header of a message that has one. *)
econet_msgloop ==
    /\ msg = Idle /\ inbox # <<>>
    /\ LET r == inbox[1]
           buf == Received(econet_buf, r)
       IN  /\ econet_buf' = buf /\ taken' = Append(taken, r)
           /\ msg' = IF Len(r) < HeaderSize THEN Idle
                     ELSE [size |-> Len(r), reply |-> [station |-> buf[0], net |-> buf[1], port |-> buf[2]],
                           function_code |-> buf[3]]
    /\ inbox' = <<>>
    /\ UNCHANGED <<destmap, arrived, replies>>

(* strtok from the payload on: runs of other bytes between blanks, up to   *)
(* the terminator.                                                         *)
Words(buf) ==
    LET end == CHOOSE e \in HeaderSize .. BufSize :
                   buf[e] = NUL /\ \A k \in HeaderSize .. e - 1 : buf[k] # NUL
        Inside(k) == k \in HeaderSize .. end - 1 /\ buf[k] # Space
        starts == {k \in HeaderSize .. end : Inside(k) /\ ~Inside(k - 1)}
        Stop(k) == CHOOSE e \in k + 1 .. end : ~Inside(e) /\ \A j \in k .. e - 1 : Inside(j)
    IN  [n \in 1 .. Cardinality(starts) |->
            LET k == Nth(starts, n) IN [j \in 1 .. Stop(k) - k |-> buf[k + j - 1]]]

args(buf) == LET t == Words(buf) IN SubSeq(t, 1, Min({Len(t), StarArgs}))

(* strcasecmp with the table of commands. *)
cmdfunc(word) ==
    CASE word \in {<<LetterI>>, <<UpperI>>} -> "i" [] word = <<LetterE>> -> "echo" [] OTHER -> "none"

(* What each command answers. *)
cmd_i_am == <<5, 0, 3, 5, 6, 0>>
cmd_echo == <<0, 1, 84, 101, 115, 116, 10, 0>>
Answer(f) == IF f = "i" THEN cmd_i_am ELSE cmd_echo

(* The destination is set, and the driver sends; a station may not answer, *)
(* and station 0 is refused.                                               *)
econet_send(to, bytes) ==
    /\ destmap' = to
    /\ \/ to.station # 0 /\ replies' = Append(replies, [to |-> to, bytes |-> bytes, nth |-> Len(taken)])
       \/ UNCHANGED replies

(* econet_handle_message and handle_starcmd. *)
handle_starcmd ==
    /\ msg # Idle /\ msg' = Idle
    /\ LET words == IF msg.function_code = 0 /\ msg.size > HeaderSize THEN args(econet_buf) ELSE <<>>
           f == IF words = <<>> THEN "none" ELSE cmdfunc(words[1])
       IN  IF f = "none" THEN UNCHANGED <<destmap, replies>> ELSE econet_send(msg.reply, Answer(f))
    /\ UNCHANGED <<inbox, econet_buf, arrived, taken>>

ServerNext ==
    \/ econet_msgloop \/ handle_starcmd
    \/ \E r \in Requests : RequestArrives(r)

ServerSpec == ServerInit /\ [][ServerNext]_servervars

-----------------------------------------------------------------------------
(* What a request asks for: the first word of its payload, as the station  *)
(* sent it.                                                                *)
FirstWord(r) ==
    LET payload == SubSeq(r, HeaderSize + 1, Len(r))
        text == IF Contains(payload, NUL) THEN SubSeq(payload, 1, SelectInSeq(payload, LAMBDA x : x = NUL) - 1)
                                          ELSE payload
        from == SelectInSeq(text, LAMBDA x : x # Space)
        rest == SubSeq(text, from, Len(text))
        to == SelectInSeq(rest, LAMBDA x : x = Space)
    IN  IF from = 0 THEN <<>> ELSE IF to = 0 THEN rest ELSE SubSeq(rest, 1, to - 1)

(* Every reply goes to the station and the port of the request that was    *)
(* read last, says what that request's own command is answered with,       *)
(* whatever longer messages were in the buffer before, and is the only     *)
(* one to it.                                                              *)
RepliesAnswer ==
    \A k \in DOMAIN replies :
        LET p == replies[k]
            r == taken[p.nth]
        IN  /\ Len(r) > HeaderSize /\ r[4] = 0
            /\ p.to = [station |-> r[1], net |-> r[2], port |-> r[3]]
            /\ cmdfunc(FirstWord(r)) # "none" /\ p.bytes = Answer(cmdfunc(FirstWord(r)))
            /\ \A j \in 1 .. k - 1 : replies[j].nth < p.nth
=============================================================================
