---------------------------- MODULE PacketFraming ----------------------------
(***************************************************************************)
(* What happens to a packet between the sender's BitchatPacket and the     *)
(* receiver's: encode, _pad and _unpad in protocol/codec.py, and           *)
(* FragmentManager.create_fragments in mesh/fragment_manager.py.           *)
(*                                                                         *)
(* Bytes are abstracted to lengths, in the code's own units.  The only     *)
(* thing the framing reads in the bytes themselves is whether they end in  *)
(* what looks like PKCS#7 padding: `run' is the last byte of the encoding  *)
(* when the last `run' bytes all have that value, and 0 when they do not.  *)
(* The collection of fragments by the receiver is FragmentReassembly; here *)
(* only that they come in any order, repeatedly or never matters.          *)
(***************************************************************************)
EXTENDS Integers, FiniteSets, FiniteSetsExt

CONSTANTS
    Packets,  \* the packets sent
    None,     \* no packet, no result
    Failed    \* decode returned None

PADDING_BLOCK_SIZES         == {256, 512, 1024, 2048}
FRAGMENT_SIZE_THRESHOLD     == 512
MAX_FRAGMENT_SIZE           == 469
MAX_FRAGMENTS_PER_ID        == 256
FRAGMENT_HEADER_SIZE        == 13
PEER_ID_SIZE                == 8
COMPRESSION_THRESHOLD_BYTES == 100

(* plain and deflated are the payload's length before and after zlib; a    *)
(* direct packet is encoded and sent as it is, whatever its length, not    *)
(* handed to create_fragments.                                             *)
PacketType == [plain : Nat, deflated : Nat, version : {1, 2}, recipient : BOOLEAN,
               hops : 0 .. 255, signed : BOOLEAN, run : 0 .. 255, direct : BOOLEAN]

ASSUME PacketsAssumption == Packets \subseteq PacketType
ASSUME FailedAssumption == Failed \notin [plain : Nat, signed : BOOLEAN]

VARIABLES
    pkt,     \* the packet being transferred
    got,     \* the frames the receiver has of it
    result   \* what the receiver decoded: None, Failed or [plain, signed]

vars == <<pkt, got, result>>

-----------------------------------------------------------------------------
(* encode                                                                  *)

HasRoute(p) == p.hops > 0

Version(p) == IF HasRoute(p) THEN 2 ELSE p.version

Compressed(p) == p.plain > COMPRESSION_THRESHOLD_BYTES /\ p.deflated < p.plain

BlobLen(p) == IF ~Compressed(p) THEN p.plain
              ELSE p.deflated + IF Version(p) >= 2 THEN 4 ELSE 2

(* A v1 packet has 16 bits for the length of the payload blob and for the  *)
(* original length of a compressed payload; what does not fit is None.     *)
Encodable(p) == Version(p) >= 2 \/ (/\ Compressed(p) => p.plain <= 65535
                                    /\ BlobLen(p) <= 65535)

AddressLen(p) == (IF p.recipient THEN PEER_ID_SIZE ELSE 0)
                 + (IF HasRoute(p) THEN 1 + p.hops * PEER_ID_SIZE ELSE 0)

HeaderLen(version) == IF version >= 2 THEN 16 ELSE 14

SignatureLen(p) == IF p.signed THEN 64 ELSE 0

RawLen(p) == HeaderLen(Version(p)) + PEER_ID_SIZE + AddressLen(p)
             + BlobLen(p) + SignatureLen(p)

(* _pad: up to the first block that one padding byte value can count to.   *)
Fitting(n) == {b \in PADDING_BLOCK_SIZES : n < b /\ b - n <= 255}

PadLen(n) == IF n \in PADDING_BLOCK_SIZES \/ Fitting(n) = {} THEN 0 ELSE Min(Fitting(n)) - n

(* _unpad after encode(pad=True): the padding goes if there is any, and    *)
(* otherwise whatever looks like padding at the end of the encoding.       *)
UnpaddedLen(p) == IF PadLen(RawLen(p)) > 0 THEN RawLen(p) ELSE RawLen(p) - p.run

-----------------------------------------------------------------------------
(* create_fragments                                                        *)

(* Mutant: the route is left out of the overhead.                          *)
OverheadWithoutRoute(p) ==
    HeaderLen(Version(p)) + PEER_ID_SIZE + (IF p.recipient THEN PEER_ID_SIZE ELSE 0)
    + FRAGMENT_HEADER_SIZE + 16

Overhead(p) == HeaderLen(Version(p)) + PEER_ID_SIZE + AddressLen(p)
               + FRAGMENT_HEADER_SIZE + 16

MaxData(p) == IF 512 - Overhead(p) < MAX_FRAGMENT_SIZE THEN 512 - Overhead(p)
              ELSE MAX_FRAGMENT_SIZE

Whole(p) == p.direct \/ UnpaddedLen(p) <= FRAGMENT_SIZE_THRESHOLD

(* Mutant: the remainder does not get a chunk of its own.                  *)
TotalRoundedDown(p) == UnpaddedLen(p) \div MaxData(p)

Total(p) == (UnpaddedLen(p) + MaxData(p) - 1) \div MaxData(p)

(* Mutant: every chunk is taken to be full.                                *)
ChunkLenFull(p, i) == MaxData(p)

ChunkLen(p, i) == IF (i + 1) * MaxData(p) <= UnpaddedLen(p) THEN MaxData(p)
                  ELSE UnpaddedLen(p) - i * MaxData(p)

(* The packet itself is frame 0 when it needs no fragmenting; there is no  *)
(* frame when it cannot be encoded, when the overhead leaves no room or    *)
(* when the fragments cannot be counted in 16 bits.                        *)
FrameIds(p) ==
    IF ~Encodable(p) THEN {}
    ELSE IF Whole(p) THEN {0}
    ELSE IF MaxData(p) <= 0 \/ Total(p) > 65535 THEN {} ELSE 0 .. Total(p) - 1

(* The longest encoding of a frame, before and after padding.  A fragment  *)
(* is v2 only when routed and carries no signature.  Its payload may be    *)
(* compressed in turn, which can save one byte and then add a prefix.      *)
FrameLen(p, i) ==
    IF Whole(p) THEN RawLen(p)
    ELSE HeaderLen(IF HasRoute(p) THEN 2 ELSE 1) + PEER_ID_SIZE + AddressLen(p)
         + FRAGMENT_HEADER_SIZE + ChunkLen(p, i) + IF HasRoute(p) THEN 3 ELSE 1

LinkLen(p, i) == FrameLen(p, i) + PadLen(FrameLen(p, i))

-----------------------------------------------------------------------------
(* decode                                                                  *)

(* The bytes before the signature must all be there; a signature that is   *)
(* not all there is dropped.                                               *)
Decode(p, len) ==
    IF len < RawLen(p) - SignatureLen(p) THEN Failed
    ELSE [plain |-> p.plain, signed |-> p.signed /\ len >= RawLen(p)]

(* The chunks joined in the order of their numbers.                        *)
JoinedChunks(p) ==
    LET bytes[n \in 0 .. Total(p)] == IF n = 0 THEN 0 ELSE bytes[n - 1] + ChunkLen(p, n - 1)
    IN  bytes[Total(p)]

JoinedLen(p) == IF Whole(p) THEN LinkLen(p, 0) ELSE JoinedChunks(p)

Init == pkt = None /\ got = {} /\ result = None

(* Mutant: the frames of the previous packet are kept.                     *)
SendOnTop(p) ==
    /\ pkt' = p
    /\ result' = None
    /\ UNCHANGED got

(* _fragment_and_send of a packet, _send_packet or _relay_broadcast of a   *)
(* direct one; a packet on its way may have been lost.                     *)
Send(p) ==
    /\ pkt' = p
    /\ got' = {}
    /\ result' = None

(* handle_fragment refuses the fragments of a set that has too many.       *)
Accepts(p) == Whole(p) \/ Total(p) <= MAX_FRAGMENTS_PER_ID

(* A frame arrives, not necessarily for the first time: the last one to be *)
(* missing completes the packet.                                           *)
Deliver(i) ==
    /\ Accepts(pkt)
    /\ got' = got \cup {i}
    /\ result' = IF got' = FrameIds(pkt) THEN Decode(pkt, JoinedLen(pkt)) ELSE result
    /\ UNCHANGED pkt

Next == \/ \E p \in Packets : Send(p)
        \/ pkt # None /\ \E i \in FrameIds(pkt) : Deliver(i)

Spec == Init /\ [][Next]_vars

-----------------------------------------------------------------------------
(* Properties.                                                             *)

ResultType == [plain : Nat, signed : BOOLEAN] \cup {Failed, None}

TypeOK ==
    /\ pkt \in Packets \cup {None}
    /\ got \subseteq (IF pkt = None THEN {} ELSE FrameIds(pkt))
    /\ result \in ResultType

(* The chunks are a partition of the bytes that are fragmented: none is    *)
(* empty (an empty one is refused by the receiver) and they add up.        *)
ChunksCover ==
    pkt # None /\ ~Whole(pkt) /\ FrameIds(pkt) # {} =>
        /\ \A i \in FrameIds(pkt) : ChunkLen(pkt, i) \in 1 .. MAX_FRAGMENT_SIZE
        /\ JoinedLen(pkt) = UnpaddedLen(pkt)

AsSent(p) == [plain |-> p.plain, signed |-> p.signed]

(* A packet all of whose frames arrive, in whatever order, is decoded to   *)
(* the packet that was sent, signature included.                           *)
RoundTrip == result # None => result = AsSent(pkt)

=============================================================================
