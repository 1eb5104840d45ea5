----------------------------- MODULE MessagePath -----------------------------
(***************************************************************************)
(* A message from the one end to the other: its payload (WireFormats) in a *)
(* packet that is encoded, cut into frames and put together again          *)
(* (PacketFraming), and what the receiver's handler reads in it.           *)
(***************************************************************************)
EXTENDS PacketFraming, WireFormats

CONSTANT Bodies  \* the messages sent

VARIABLES
    body,   \* the message on its way, or None
    parsed  \* what the receiver read, or None

pathVars == <<vars, body, parsed>>

Private == {"text", "file", "receipt", "legacy", "tlv", "raw", "deflated"}

(* Texts, files and receipts are as the daemon sends them; a phone may     *)
(* append to a receipt, send a BitchatMessage, a file in fields, the bytes *)
(* of a file alone or deflated, and fields of its own in announcements.    *)
Payload(b) ==
    CASE b.type = "text"     -> EncodeMessagePayload(b.id, b.data)
      [] b.type = "file"     -> EncodeFilePayload(b.id, b.data)
      [] b.type = "receipt"  -> EncodeReceipt(b.read, b.id) \o b.more
      [] b.type = "legacy"   -> EncodeMessage(b.message)
      [] b.type = "tlv"      -> <<32, 1, 0>> \o U16(Len(b.name)) \o b.name
                                \o <<4, 0, 0>> \o U16(Len(b.data)) \o b.data
      [] b.type = "raw"      -> b.data
      [] b.type = "deflated" -> CHOOSE z \in DOMAIN Zlib : Zlib[z] = b.data
      [] b.type = "transfer" -> b.data
      [] b.type = "public"   -> b.data
      [] b.type = "announce" -> b.more \o EncodeAnnounce(b.announce)

(* What the daemon itself hands to _send_packet: of all it sends, only     *)
(* files go through create_fragments.  (Phones fragment for themselves.)   *)
Direct(b) ==
    \/ b.type \in {"text", "public"}
    \/ b.type \in {"receipt", "announce"} /\ b.more = <<>>

(* A private payload is encrypted for its recipient, behind its nonce and  *)
(* before its tag; what goes to everyone is signed.                        *)
PacketFor(b) ==
    LET private == b.type \in Private
        len == Len(Payload(b)) + IF private THEN 4 + 16 ELSE 0
    IN [plain |-> len, deflated |-> len, version |-> 1, recipient |-> private, hops |-> 0,
        signed |-> b.type \in {"public", "announce"}, run |-> 0, direct |-> Direct(b)]

(* The length of a text does not fit its byte: nothing is sent.            *)
Sendable(b) == b.type = "text" => Len(b.data) <= 255

Compose(b) ==
    /\ Sendable(b)
    /\ Send(PacketFor(b))
    /\ body' = b
    /\ parsed' = None

(* A packet of some other kind, or a direct one: one that is relayed.      *)
SendOther(p) ==
    /\ Send(p)
    /\ body' = None
    /\ parsed' = None

(* What the handler of the packet's type makes of its payload.             *)
Read(b) ==
    CASE b.type \in Private    -> ParseIncoming(Payload(b))
      [] b.type = "transfer"   -> HandleFileTransfer(Payload(b))
      [] b.type = "public"     -> HandlePublicMessage(Payload(b))
      [] b.type = "announce"   -> DecodeAnnounce(Payload(b))

Arrive(i) ==
    /\ Deliver(i)
    /\ parsed' = IF body # None /\ result' \notin {None, Failed} /\ result'.plain = pkt.plain
                 THEN Read(body) ELSE parsed
    /\ UNCHANGED body

PathInit == Init /\ body = None /\ parsed = None

PathNext == \/ \E b \in Bodies : Compose(b)
            \/ \E p \in Packets : SendOther(p)
            \/ pkt # None /\ \E i \in FrameIds(pkt) : Arrive(i)

PathSpec == PathInit /\ [][PathNext]_pathVars

-----------------------------------------------------------------------------
(* Properties.                                                             *)

(* Every file but one without bytes, and without what looks like the       *)
(* beginning of another file in its first 32 bytes, unless it begins so.   *)
Intact(data) ==
    /\ data # <<>>
    /\ 0 \in KnownAt(data, 0 .. 31) \/ KnownAt(data, 0 .. 31) = {}

(* The characters of a nick that fit; one that does not fit whole is not   *)
(* left out but read as no character.                                      *)
NickShown(nick) ==
    LET whole == {n \in 0 .. 15 : IsUtf8(Slice(nick, 0, n))}
    IN  IF 15 \in whole THEN Slice(nick, 0, 15) ELSE Slice(nick, 0, Max(whole)) \o Replacement

Meant(b) ==
    CASE b.type = "text"     -> Message(b.id, b.data)
      [] b.type = "file"     -> File(b.id, b.data, <<>>)
      [] b.type = "receipt"  -> Receipt(b.read, b.id)
      [] b.type = "legacy"   -> IF IsUtf8(b.message.content)
                                THEN Message(b.message.id, b.message.content)
                                ELSE File(b.message.id, b.message.content, <<>>)
      [] b.type = "tlv"      -> File(FreshId, b.data, b.name)
      [] b.type \in {"raw", "deflated", "transfer"} -> File(FreshId, b.data, <<>>)
      [] b.type = "public"   -> [kind |-> "public", shown |-> "text", content |-> b.data]
      [] b.type = "announce" -> [b.announce EXCEPT !.nick = NickShown(@)]

(* What the daemon puts on the link fits the size above which packets are  *)
(* fragmented: no frame of a file and no text, receipt or announcement,    *)
(* which are sent whole, would, padded, need fragmenting itself, whatever  *)
(* addresses, route and signature its packet has.  A message to everyone   *)
(* and a packet relayed may be longer: they are sent whole at any length.  *)
(* (create_fragments measures after _unpad: what ends like padding and is  *)
(* left whole may be longer too.)                                          *)
FramesFitLink ==
    pkt # None => \A i \in FrameIds(pkt) :
        \/ LinkLen(pkt, i) <= FRAGMENT_SIZE_THRESHOLD
        \/ pkt.direct /\ (body = None \/ body.type = "public")
        \/ Whole(pkt) /\ ~pkt.direct /\ pkt.run > 0

(* The receiver reads what the sender meant, in the right one of the       *)
(* formats it guesses among: no message is taken for a receipt or a file,  *)
(* no file loses its beginning, no field unknown to it spoils an           *)
(* announcement; whatever frames the packet was cut into.                  *)
ParsedAsSent ==
    parsed # None /\ (body.type \in {"file", "transfer"} => Intact(body.data)) =>
        parsed = Meant(body)

(* A BitchatMessage is read back field by field, whichever of its optional *)
(* fields it has, and strings too long for it are cut to 255 bytes.        *)
MessageRoundTrip ==
    body # None /\ body.type = "legacy" =>
        DecodeMessage(Payload(body)) =
            [body.message EXCEPT !.sender = Slice(body.message.sender, 0, 255)]

(* A file arrives as it was sent, whatever its bytes: "Large files are     *)
(* automatically fragmented" and reassembled (IPC_API.md), and nothing     *)
(* there excludes any content.  It does not hold.                          *)
AnyFileArrives == parsed # None /\ body.type \in {"file", "transfer"} => parsed = Meant(body)

=============================================================================
