------------------------------ MODULE MCFatDir ------------------------------
(* FatDir with names that collide in their short forms and in their first pieces. *)
EXTENDS FatDir

averylongname == <<97, 118, 101, 114, 121, 108, 111, 110, 103, 110, 97, 109, 101>>
averylongname2 == Append(averylongname, 50)
averyl1 == <<97, 118, 101, 114, 121, 108, 126, 49>>                        \* averyl~1
Sub == <<83, 117, 98>>
SUB == <<83, 85, 66>>
Slash == <<47>>
Up == <<46, 46>>
Drive0 == <<48, 58>>                                                       \* 0:

Rel(text, segs) == [text |-> text, abs |-> FALSE, segs |-> segs]
Abs(text, segs) == [text |-> text, abs |-> TRUE, segs |-> segs]

PLong == Rel(averylongname, <<averylongname>>)
PLong2 == Rel(averylongname2, <<averylongname2>>)
PShort == Rel(averyl1, <<averyl1>>)
PSub == Rel(Sub, <<Sub>>)
PSubLong == Rel(SUB \o Slash \o Slash \o averylongname, <<SUB, averylongname>>)
PSubAbs == Abs(Drive0 \o Slash \o Sub \o Slash, <<Sub>>)
PUp == Rel(Up, <<Up>>)
PHere == Rel(<<>>, <<>>)
PUpLong == Rel(Drive0 \o Sub \o Slash \o Up \o Slash \o Up \o Slash \o UpperName(averylongname2),
               <<Sub, Up, Up, averylongname2>>)

MCCreate == {PLong, PLong2, PShort, PSubLong}
MCMkdir == {PSub}
MCUnlink == {PLong, PSubAbs, PSubLong}
MCChdir == {PSub, PUp}
MCOpendir == {PHere}
MCStat == {PUpLong}
MCUsed == {<<PLong>>, <<PLong2, PLong>>}
MCPaths == MCCreate \cup MCMkdir \cup MCUnlink \cup MCChdir \cup MCOpendir \cup MCStat
=============================================================================
