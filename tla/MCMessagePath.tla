---------------------------- MODULE MCMessagePath ----------------------------
(* Messages and packets for model checking MessagePath: payload lengths on *)
(* both sides of every block, threshold and chunk boundary; contents that  *)
(* look like another format, and characters of several bytes.              *)
EXTENDS MessagePath

Lengths == {0, 1, 100, 101, 234, 235, 489, 490, 491, 492, 600, 746, 747, 999, 1003, 1300,
            1770, 1771, 2026, 2027}

Plain(n, recipient, signed, run) ==
    [plain |-> n, deflated |-> n, version |-> 1, recipient |-> recipient, hops |-> 0,
     signed |-> signed, run |-> run, direct |-> FALSE]

(* No encoding ends in what looks like padding; some are compressible, and *)
(* some routed.                                                            *)
CleanPackets ==
    {Plain(n, r, s, 0) : n \in Lengths, r \in BOOLEAN, s \in BOOLEAN}
    \cup {[Plain(n, TRUE, FALSE, 0) EXCEPT !.hops = h, !.version = v] :
             n \in {100, 470, 800, 1300}, h \in {0, 2, 7}, v \in {1, 2}}
    \cup {[Plain(n, TRUE, FALSE, 0) EXCEPT !.deflated = n \div 3] :
             n \in {101, 1300, 2027}}
    \cup {[Plain(n, r, TRUE, 0) EXCEPT !.direct = TRUE] : n \in Lengths, r \in BOOLEAN}

(* The last byte of a ciphertext is 1 once in 256.                         *)
TailPackets == {Plain(n, TRUE, s, 1) : n \in Lengths \ {0}, s \in BOOLEAN}

-----------------------------------------------------------------------------
Times(n, b) == [i \in 1 .. n |-> b]

(* Two ids, as uuid4 prints them.                                          *)
Id(b) == Times(8, b) \o <<45>> \o Times(4, b) \o <<45>> \o Times(22, b)
Id1 == Id(50)
Id2 == Id(97)

Jpeg == <<255, 216, 255>>
Mp3 == <<73, 68, 51>>
Wave == <<82, 73, 70, 70, AnyByte, AnyByte, AnyByte, AnyByte, 87, 65, 86, 69>>
Ftyp == Times(4, AnyByte) \o <<102, 116, 121, 112>> \o Times(4, AnyByte)
MCSignatures == {Jpeg, Mp3, Wave, Ftyp}

JpegFile == Jpeg \o Times(40, 200)
WaveFile == <<82, 73, 70, 70, 9, 0, 0, 0, 87, 65, 86, 69>> \o Times(20, 0)
Mp4File == <<0, 0, 0, 28, 102, 116, 121, 112, 109, 112, 52, 50>> \o Times(20, 0)
Deflated == <<120, 156>> \o Times(10, 129)
MCZlib == [z \in {Deflated} |-> JpegFile]

Euro == <<226, 130, 172>>

Texts == {<<65>>, Mp3, Euro, Times(255, 66), Times(256, 66),
          Times(254, 66) \o Euro,
          FlattenSeq(Times(85, Euro)), <<2>> \o Id2}

Files == {JpegFile, WaveFile, Mp4File, <<7>>, Id2, JpegFile \o JpegFile,
          Jpeg \o Times(1100, 200), Times(40, 3) \o Jpeg}

(* An encoder for another kind of file writes a short header first.        *)
LongFiles == {<<1, 2, 3>> \o JpegFile, <<>>}

BitchatMessage ==
    [relay |-> FALSE, private |-> TRUE, encrypted |-> FALSE,
     timestamp |-> <<0, 0, 1, 155, 45, 45, 45, 45>>, id |-> Id1, sender |-> <<80>>,
     content |-> Euro, original |-> <<>>, recipient |-> <<>>, peer |-> <<>>, mentions |-> <<>>,
     channel |-> <<>>]

BitchatMessages ==
    {[BitchatMessage EXCEPT !.relay = r, !.original = o, !.mentions = ms, !.channel = c] :
        r \in BOOLEAN, o \in {<<>>, <<81>>}, ms \in {<<>>, <<<<82>>>>, <<<<82>>, <<>>>>},
        c \in {<<>>, <<35, 99>>}}
    \cup {[BitchatMessage EXCEPT !.recipient = Euro, !.peer = Times(16, 48)],
          [BitchatMessage EXCEPT !.sender = Times(300, 83)],
          [BitchatMessage EXCEPT !.content = JpegFile, !.encrypted = TRUE],
          [BitchatMessage EXCEPT !.content = Times(700, 66)]}

Announcement == [nick |-> <<80, 105>>, noise |-> Times(32, 1), sign |-> Times(32, 2)]

(* The last one is cut inside a character.                                 *)
Nicks == {<<>>, <<80, 105>>, Times(16, 65), Times(12, 65) \o Euro, Times(13, 65) \o Euro}

MCBodies ==
    {[type |-> "text", id |-> Id1, data |-> t] : t \in Texts}
    \cup {[type |-> t, id |-> Id1, data |-> f] : f \in Files \cup LongFiles, t \in {"file", "transfer"}}
    \cup {[type |-> "receipt", read |-> r, id |-> i, more |-> m] :
             r \in BOOLEAN, i \in {Id1, Id2}, m \in {<<>>, Times(8, 0)}}
    \cup {[type |-> "legacy", message |-> m] : m \in BitchatMessages}
    \cup {[type |-> "tlv", name |-> n, data |-> f] : n \in {<<>>, <<97>>}, f \in {JpegFile, <<7>>}}
    \cup {[type |-> "raw", data |-> f] : f \in {JpegFile, WaveFile, Mp4File, Times(600, 200)}}
    \cup {[type |-> "deflated", data |-> JpegFile], [type |-> "public", data |-> Euro],
          [type |-> "public", data |-> Times(600, 66)]}
    \cup {[type |-> "announce", announce |-> [Announcement EXCEPT !.nick = n], more |-> m] :
             n \in Nicks, m \in {<<>>, <<9, 1, 1>>, <<1, 1, 88>>, <<0, 0, 2, 1, 1>>}}

=============================================================================
