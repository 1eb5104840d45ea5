----------------------------- MODULE WireFormats -----------------------------
(***************************************************************************)
(* The byte formats of payloads: announcements (protocol/announce.py),     *)
(* BitchatMessage (messages/message.py), and what SessionManager makes of  *)
(* a decrypted payload, whose format it has to guess (_parse_incoming).    *)
(*                                                                         *)
(* A payload is a sequence of bytes.  Offsets are those of the code and    *)
(* begin at 0.  An exception in one format means: try the next one.        *)
(***************************************************************************)
EXTENDS Integers, Sequences, SequencesExt

CONSTANTS
    Signatures,  \* how known files begin, AnyByte standing for any
    Zlib,        \* deflated payloads and what they inflate to
    FreshId,     \* an id the receiver makes up
    Unread       \* no format matched

AnyByte == 256

At(s, i) == s[i + 1]
From(s, i) == SubSeq(s, i + 1, Len(s))
Slice(s, i, n) == SubSeq(s, i + 1, IF i + n < Len(s) THEN i + n ELSE Len(s))
U16(n) == <<n \div 256, n % 256>>
ReadU16(s, i) == 256 * At(s, i) + At(s, i + 1)
ReadU32(s, i) == 65536 * ReadU16(s, i) + ReadU16(s, i + 2)

IsAscii(s) == \A i \in DOMAIN s : s[i] <= 127

(* How many bytes a character has that begins with b.                      *)
Width(b) == CASE b <= 127 -> 1 [] b \in 194 .. 223 -> 2 [] b \in 224 .. 239 -> 3
              [] b \in 240 .. 244 -> 4 [] OTHER -> 0

Continues(s, i) == i \in DOMAIN s /\ s[i] \in 128 .. 191

(* Each byte that begins a character is followed by as many that continue  *)
(* one as it says.                                                         *)
IsUtf8(s) ==
    /\ ~Continues(s, 1)
    /\ \A i \in DOMAIN s : ~Continues(s, i) =>
           /\ Width(s[i]) > 0
           /\ \A k \in 1 .. Width(s[i]) - 1 : Continues(s, i + k)
           /\ ~Continues(s, i + Width(s[i]))

(* decode(errors="replace"): whatever is no character is read as U+FFFD, a *)
(* character that breaks off as one.                                       *)
Replacement == <<239, 191, 189>>

(* Where the character begins that the byte at i belongs to.               *)
Heads(s, i) == {j \in DOMAIN s : /\ i - j \in 0 .. Width(s[j]) - 1
                                 /\ \A k \in j + 1 .. i : Continues(s, k)}

Text(s) ==
    LET Complete(j) == \A k \in 1 .. Width(s[j]) - 1 : Continues(s, j + k)
        Shown(i) == IF \E j \in Heads(s, i) : Complete(j) THEN <<s[i]>>
                    ELSE IF Heads(s, i) \subseteq {i} THEN Replacement ELSE <<>>
    IN  IF IsUtf8(s) THEN s ELSE FlattenSeq([i \in DOMAIN s |-> Shown(i)])

-----------------------------------------------------------------------------
(* Announcements.                                                          *)

NICKNAME == 1
NOISE_PUB == 2
SIGN_PUB == 3

Field(tag, value) == <<tag, Len(value)>> \o value

EncodeAnnounce(a) ==
    Field(NICKNAME, Slice(a.nick, 0, 15)) \o Field(NOISE_PUB, a.noise) \o Field(SIGN_PUB, a.sign)

(* A value that is cut off: no field's tag is 256.                         *)
CutOff == <<256, <<>>>>

(* The fields read from offset i on: of a tag's values the last one stays; *)
(* behind a value that is cut off nothing is read.                         *)
Fields(s) ==
    LET rest[i \in 0 .. Len(s)] ==
            IF i + 2 > Len(s) THEN {}
            ELSE LET next == i + 2 + At(s, i + 1)
                 IN IF next > Len(s) THEN {CutOff}
                    ELSE rest[next] \cup (IF \E f \in rest[next] : f[1] = At(s, i) THEN {}
                                          ELSE {<<At(s, i), Slice(s, i + 2, At(s, i + 1))>>})
    IN rest[0]

DecodeAnnounce(s) ==
    LET Value(tag) == (CHOOSE f \in Fields(s) : f[1] = tag)[2]
    IN IF CutOff \notin Fields(s) /\ {NICKNAME, NOISE_PUB, SIGN_PUB} \subseteq {f[1] : f \in Fields(s)}
       THEN [nick |-> Text(Value(NICKNAME)), noise |-> Value(NOISE_PUB), sign |-> Value(SIGN_PUB)]
       ELSE Unread

-----------------------------------------------------------------------------
(* BitchatMessage.  A field that is missing or empty is <<>>.              *)

ShortStr(s) == LET cut == Slice(s, 0, 255) IN <<Len(cut)>> \o cut
LongStr(s) == LET cut == Slice(s, 0, 65535) IN U16(Len(cut)) \o cut

Bit(present, b) == IF present THEN b ELSE 0

MessageFlags(m) ==
    Bit(m.relay, 1) + Bit(m.private, 2) + Bit(m.original # <<>>, 4)
    + Bit(m.recipient # <<>>, 8) + Bit(m.peer # <<>>, 16) + Bit(m.mentions # <<>>, 32)
    + Bit(m.channel # <<>>, 64) + Bit(m.encrypted, 128)

OptionalStr(s) == IF s = <<>> THEN <<>> ELSE ShortStr(s)

MentionStrs(mentions) ==
    LET entries == Slice(mentions, 0, 255)
    IN IF entries = <<>> THEN <<>>
       ELSE <<Len(entries)>> \o FlattenSeq([i \in DOMAIN entries |-> ShortStr(entries[i])])

EncodeMessage(m) ==
    <<MessageFlags(m)>> \o m.timestamp \o ShortStr(m.id) \o ShortStr(m.sender)
    \o LongStr(m.content)
    \o OptionalStr(m.original) \o OptionalStr(m.recipient) \o OptionalStr(m.peer)
    \o MentionStrs(m.mentions) \o OptionalStr(m.channel)

(* Mutant: the length is taken for part of the string.                     *)
ReadStrShort(s, i) ==
    IF i >= Len(s) THEN [value |-> <<>>, there |-> FALSE, next |-> i]
    ELSE [value |-> Slice(s, i + 1, At(s, i)), there |-> TRUE, next |-> i + At(s, i)]

(* A string with its length in one byte, and the offset behind it; one     *)
(* that is cut off is missing, and the reading goes on behind its length.  *)
ReadStr(s, i) ==
    IF i >= Len(s) THEN [value |-> <<>>, there |-> FALSE, next |-> i]
    ELSE IF i + 1 + At(s, i) > Len(s) THEN [value |-> <<>>, there |-> FALSE, next |-> i + 1]
    ELSE [value |-> Slice(s, i + 1, At(s, i)), there |-> TRUE, next |-> i + 1 + At(s, i)]

HasFlag(flags, b) == (flags \div b) % 2 = 1

ReadOptional(s, b, i) ==
    IF HasFlag(At(s, 0), b) /\ i < Len(s) THEN ReadStr(s, i)
    ELSE [value |-> <<>>, there |-> FALSE, next |-> i]

(* As many strings as the byte at offset i says, those missing left out.   *)
ReadMentions(s, i) ==
    LET read[k \in 0 .. 255] ==
            IF k = 0 THEN [found |-> <<>>, next |-> i + 1]
            ELSE LET m == ReadStr(s, read[k - 1].next)
                 IN [found |-> IF m.there THEN Append(read[k - 1].found, m.value)
                               ELSE read[k - 1].found,
                     next |-> m.next]
    IN IF HasFlag(At(s, 0), 32) /\ i < Len(s) THEN read[At(s, i)]
       ELSE [found |-> <<>>, next |-> i]

DecodeMessage(s) ==
    LET flags == At(s, 0)
        id == ReadStr(s, 9)
        sender == ReadStr(s, id.next)
        begin == sender.next + 2
        end == begin + ReadU16(s, sender.next)
        original == ReadOptional(s, 4, end)
        recipient == ReadOptional(s, 8, original.next)
        peer == ReadOptional(s, 16, recipient.next)
        mentions == ReadMentions(s, peer.next)
        channel == ReadOptional(s, 64, mentions.next)
        strings == {r.value : r \in {id, sender, original, recipient, peer, channel}}
                   \cup ToSet(mentions.found)
    IN IF /\ Len(s) >= 13 /\ id.there /\ sender.there /\ begin <= Len(s) /\ end <= Len(s)
          /\ \A t \in strings : IsUtf8(t)
          /\ HasFlag(flags, 128) \/ IsUtf8(SubSeq(s, begin + 1, end))
       THEN [relay |-> HasFlag(flags, 1), private |-> HasFlag(flags, 2),
             encrypted |-> HasFlag(flags, 128), timestamp |-> Slice(s, 1, 8),
             id |-> id.value, sender |-> sender.value, content |-> SubSeq(s, begin + 1, end),
             original |-> original.value, recipient |-> recipient.value, peer |-> peer.value,
             mentions |-> mentions.found, channel |-> channel.value]
       ELSE Unread

-----------------------------------------------------------------------------
(* What SessionManager sends.                                              *)

(* The content's length has one byte: struct.pack raises for more.         *)
EncodeMessagePayload(id, content) ==
    <<1>> \o U16(Len(id)) \o id \o <<1, Len(content)>> \o content

EncodeFilePayload(id, data) == <<0>> \o U16(Len(id)) \o id \o <<2>> \o data

EncodeReceipt(read, id) == <<IF read THEN 2 ELSE 3>> \o id

-----------------------------------------------------------------------------
(* What it makes of what it receives.                                      *)

Receipt(read, id) == [kind |-> "receipt", read |-> read, id |-> id]
Message(id, content) == [kind |-> "message", id |-> id, content |-> content]
File(id, data, name) == [kind |-> "file", id |-> id, data |-> data, name |-> name]

(* _sniff_file names a type.                                               *)
Known(s) == \E sig \in Signatures : /\ Len(sig) <= Len(s)
                                    /\ \A i \in DOMAIN sig : sig[i] \in {AnyByte, s[i]}

KnownAt(s, offsets) == {i \in offsets : i < Len(s) /\ Known(From(s, i))}

(* From the first of the offsets on at which a known file begins.          *)
Trim(s, offsets) == IF KnownAt(s, offsets) = {} THEN s ELSE From(s, Min(KnownAt(s, offsets)))

(* Mutant: what an Android phone appends to a receipt is not tolerated.    *)
ParseExactReceipt(s) == IF Len(s) = 37 /\ At(s, 0) \in {2, 3}
                        THEN Receipt(At(s, 0) = 2, Slice(s, 1, 36)) ELSE Unread

ParseReceipt(s) ==
    IF /\ Len(s) >= 37 /\ At(s, 0) \in {2, 3} /\ IsAscii(Slice(s, 1, 36))
       /\ At(s, 9) = 45 /\ At(s, 14) = 45
    THEN Receipt(At(s, 0) = 2, Slice(s, 1, 36)) ELSE Unread

ParseStandard(s) ==
    IF Len(s) < 41 \/ ReadU16(s, 1) # 36 \/ ~IsAscii(Slice(s, 3, 36)) THEN Unread
    ELSE IF At(s, 39) # 1 THEN File(Slice(s, 3, 36), Trim(From(s, 40), 0 .. 31), <<>>)
    ELSE IF IsUtf8(Slice(s, 41, At(s, 40))) THEN Message(Slice(s, 3, 36), Slice(s, 41, At(s, 40)))
    ELSE Unread

(* Fields with a tag of one byte and a length of two, up to tag 4, the     *)
(* data, whose length has four: the names read from offset i on, and the   *)
(* data.  Of several names the last one counts.                            *)
ParseTlv(s) ==
    LET nothing == [names |-> <<>>, data |-> <<>>]
        file[i \in 0 .. Len(s)] ==
            IF i + 3 > Len(s) \/ (At(s, i) = 4 /\ i + 5 > Len(s)) THEN nothing
            ELSE IF At(s, i) = 4 THEN [nothing EXCEPT !.data = Slice(s, i + 5, ReadU32(s, i + 1))]
            ELSE LET next == i + 3 + ReadU16(s, i + 1)
                     f == IF next > Len(s) THEN nothing ELSE file[next]
                 IN IF At(s, i) = 0
                    THEN [f EXCEPT !.names = <<Slice(s, i + 3, ReadU16(s, i + 1))>> \o @] ELSE f
    IN IF Len(s) >= 7 /\ At(s, 0) = 32 /\ At(s, 1) = 1 /\ file[2].data # <<>>
       THEN File(FreshId, file[2].data,
                 IF file[2].names = <<>> THEN <<>> ELSE Last(file[2].names))
       ELSE Unread

ParseLegacy(s) ==
    LET idEnd == 10 + At(s, 9)
        id == Slice(s, 10, At(s, 9))
        begin == idEnd + 1 + At(s, idEnd)
        content == Slice(s, begin + 2, ReadU16(s, begin))
    IN IF \/ Len(s) < 14 \/ At(s, 9) = 0 \/ idEnd + 3 > Len(s) \/ ~IsAscii(id)
          \/ begin + 2 > Len(s) \/ content = <<>>
       THEN Unread
       ELSE IF IsUtf8(content) THEN Message(id, content)
       ELSE File(id, Trim(content, {0, 1, 4, 8}), <<>>)

FirstBytes(s) == {i \in 0 .. 511 : i < Len(s) - 4}

FindFile(s) ==
    IF KnownAt(s, FirstBytes(s)) = {} THEN Unread ELSE File(FreshId, Trim(s, FirstBytes(s)), <<>>)

ParseSignature(s) == IF Len(s) > 8 THEN FindFile(s) ELSE Unread

ParseDeflated(s) ==
    IF Len(s) >= 10 /\ s \in DOMAIN Zlib /\ Len(Zlib[s]) > Len(s) THEN FindFile(Zlib[s]) ELSE Unread

ParseBlob(s) == IF Len(s) >= 500 /\ ~IsUtf8(s) THEN File(FreshId, s, <<>>) ELSE Unread

(* The first format that fits.                                             *)
ParseIncoming(s) ==
    LET tries == <<ParseReceipt(s), ParseStandard(s), ParseTlv(s), ParseLegacy(s),
                   ParseSignature(s), ParseDeflated(s), ParseBlob(s)>>
        fits == {i \in DOMAIN tries : tries[i] # Unread}
    IN IF fits = {} THEN Unread ELSE tries[Min(fits)]

(* A file that comes in a packet of its own, not encrypted.                *)
HandleFileTransfer(s) == File(FreshId, Trim(s, 0 .. 31), <<>>)

(* A public message that is no text is shown in hexadecimal.               *)
HandlePublicMessage(s) == [kind |-> "public", shown |-> IF IsUtf8(s) THEN "text" ELSE "hex",
                           content |-> s]

=============================================================================
