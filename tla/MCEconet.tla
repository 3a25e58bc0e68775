------------------------------ MODULE MCEconet ------------------------------
(* Small instances of Econet for TLC. *)
EXTENDS Econet

Frame(l, fl, p) == [len |-> l, flag |-> fl, port |-> p]

Scouts == {Frame(8, 128, p) : p \in RxPorts}
Ack == Frame(6, 0, 0)
Data == Frame(10, 65, 0)

MCFrames == Scouts \cup {Ack, Data, Frame(12, 136, 0)}
LiveFrames == Scouts \cup {Ack}
ReadFrames == Scouts \cup {Data}
=============================================================================
