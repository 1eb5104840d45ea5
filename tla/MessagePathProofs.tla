-------------------------- MODULE MessagePathProofs --------------------------
(***************************************************************************)
(* Theorems about PacketFraming, for every packet, and about what          *)
(* MessagePath makes of the payloads of the daemon and of phones.          *)
(*                                                                         *)
(* What the receiver joins is a recursive sum, and the mentions of a       *)
(* message and the fields of a payload are read by recursive functions.    *)
(* What they compute is proved by the least number principle: a set of     *)
(* numbers that is not empty has a least one.                              *)
(***************************************************************************)
EXTENDS MessagePath, SequenceTheorems, NaturalsInduction, WellFoundedInduction, TLAPS

(* Padding makes nothing that fits the link too long for it.               *)
LEMMA PadFits == \A n \in 0 .. 512 : n + PadLen(n) <= 512
PROOF
  <1> TAKE n \in 0 .. 512
  <1>1. CASE n = 512
    BY <1>1 DEF PadLen, PADDING_BLOCK_SIZES
  <1>2. CASE n = 256
    BY <1>2 DEF PadLen, PADDING_BLOCK_SIZES
  <1>3. CASE n \in 257 .. 511
    <2>1. 512 \in Fitting(n) /\ \A b \in Fitting(n) : 512 <= b
      BY <1>3 DEF Fitting, PADDING_BLOCK_SIZES
    <2>2. Min(Fitting(n)) = 512
      BY <2>1 DEF Min, Fitting, PADDING_BLOCK_SIZES
    <2> QED BY <1>3, <2>1, <2>2 DEF PadLen, PADDING_BLOCK_SIZES
  <1>4. CASE n \in 1 .. 255
    <2>1. 256 \in Fitting(n) /\ \A b \in Fitting(n) : 256 <= b
      BY <1>4 DEF Fitting, PADDING_BLOCK_SIZES
    <2>2. Min(Fitting(n)) = 256
      BY <2>1 DEF Min, Fitting, PADDING_BLOCK_SIZES
    <2> QED BY <1>4, <2>1, <2>2 DEF PadLen, PADDING_BLOCK_SIZES
  <1>5. CASE n = 0
    <2>1. Fitting(n) = {}
      BY <1>5 DEF Fitting, PADDING_BLOCK_SIZES
    <2> QED BY <1>5, <2>1 DEF PadLen
  <1> QED BY <1>1, <1>2, <1>3, <1>4, <1>5

(* The lengths are numbers; what the overhead leaves may be negative.      *)
LEMMA LengthTypes ==
    ASSUME NEW p \in PacketType
    PROVE  /\ AddressLen(p) \in Nat
           /\ BlobLen(p) \in Nat
           /\ RawLen(p) \in Nat
           /\ Overhead(p) \in Nat
           /\ MaxData(p) \in Int
PROOF
  <1>1. /\ p.plain \in Nat /\ p.deflated \in Nat /\ p.hops \in 0 .. 255
        /\ p.recipient \in BOOLEAN /\ p.signed \in BOOLEAN /\ p.version \in {1, 2}
    BY DEF PacketType
  <1>2. AddressLen(p) \in Nat
    BY <1>1 DEF AddressLen, PEER_ID_SIZE
  <1>3. BlobLen(p) \in Nat
    BY <1>1 DEF BlobLen
  <1>4. RawLen(p) \in Nat
    BY <1>2, <1>3 DEF RawLen, HeaderLen, PEER_ID_SIZE, SignatureLen
  <1>5. Overhead(p) \in Nat
    BY <1>2 DEF Overhead, HeaderLen, PEER_ID_SIZE, FRAGMENT_HEADER_SIZE
  <1>6. MaxData(p) \in Int
    BY <1>5 DEF MaxData, MAX_FRAGMENT_SIZE
  <1> QED BY <1>2, <1>3, <1>4, <1>5, <1>6

(* A padded length is a number.                                            *)
LEMMA PadType == \A n \in Nat : PadLen(n) \in Nat
PROOF
  <1> TAKE n \in Nat
  <1>1. CASE n \in PADDING_BLOCK_SIZES \/ Fitting(n) = {}
    BY <1>1 DEF PadLen
  <1>2. CASE n \notin PADDING_BLOCK_SIZES /\ Fitting(n) # {}
    <2>1. \E b \in Fitting(n) : \A c \in Fitting(n) : b <= c
      BY <1>2 DEF Fitting, PADDING_BLOCK_SIZES
    <2>2. Min(Fitting(n)) \in Fitting(n)
      BY <2>1 DEF Min
    <2> QED BY <1>2, <2>2 DEF PadLen, Fitting, PADDING_BLOCK_SIZES
  <1> QED BY <1>1, <1>2

(* No chunk is longer than the limit.                                      *)
LEMMA ChunkBound ==
    ASSUME NEW p \in PacketType, NEW i \in Nat, UnpaddedLen(p) \in Int
    PROVE  ChunkLen(p, i) \in Int /\ ChunkLen(p, i) <= MaxData(p)
PROOF
  <1> DEFINE m == MaxData(p)
             u == UnpaddedLen(p)
  <1>1. m \in Int /\ u \in Int
    BY LengthTypes
  <1>2. i * m \in Int /\ (i + 1) * m = i * m + m
    <2> HIDE DEF m
    <2> QED BY <1>1
  <1>3. CASE (i + 1) * m <= u
    BY <1>1, <1>3 DEF ChunkLen
  <1>4. CASE ~((i + 1) * m <= u)
    <2>1. ChunkLen(p, i) = u - i * m
      BY <1>4 DEF ChunkLen
    <2> HIDE DEF m, u
    <2>2. u - i * m <= m
      BY <1>1, <1>2, <1>4
    <2> QED BY <2>1, <2>2, <1>1, <1>2 DEF m
  <1> QED BY <1>3, <1>4

(* What a quotient says of the number divided.                             *)
LEMMA Quotient ==
    ASSUME NEW a \in Int, NEW m \in Nat \ {0}
    PROVE  a \div m \in Int /\ m * (a \div m) <= a
PROOF
  BY SMTT(30)

(* No fragment is empty: the last one starts before the end of the bytes.  *)
LEMMA ChunkNotEmpty ==
    ASSUME NEW p \in PacketType, NEW i \in FrameIds(p), ~Whole(p), UnpaddedLen(p) \in Int
    PROVE  ChunkLen(p, i) >= 1
PROOF
  <1> DEFINE m == MaxData(p)
             u == UnpaddedLen(p)
             q == Total(p)
  <1>1. m \in Nat \ {0} /\ u \in Int /\ i \in 0 .. q - 1
    BY LengthTypes DEF FrameIds
  <1>2. q \in Int /\ m * q <= u + m - 1
    <2> HIDE DEF m, u
    <2>1. q = (u + m - 1) \div m
      BY DEF Total, m, u
    <2> HIDE DEF q
    <2> QED BY <1>1, <2>1, Quotient
  <1>3. i \in Int /\ m * i + m <= m * q
    <2> HIDE DEF m, u, q
    <2>1. i \in Int /\ i + 1 <= q
      BY <1>1, <1>2
    <2>2. m * (i + 1) <= m * q
      BY <1>1, <1>2, <2>1
    <2> QED BY <1>1, <2>1, <2>2
  <1>4. i * m \in Int /\ i * m = m * i
    <2> HIDE DEF m, u, q
    <2> QED BY <1>1, <1>3
  <1>5. u - i * m >= 1
    <2> HIDE DEF m, u, q
    <2>1. m * i \in Int /\ m * q \in Int
      BY <1>1, <1>2, <1>3
    <2> QED BY <1>1, <1>2, <1>3, <1>4, <2>1
  <1>6. CASE (i + 1) * m <= u
    BY <1>1, <1>6 DEF ChunkLen
  <1>7. CASE ~((i + 1) * m <= u)
    BY <1>5, <1>7 DEF ChunkLen
  <1> QED BY <1>6, <1>7

(* Every fragment create_fragments makes, and every packet it leaves whole *)
(* and does not mistake for a padded one, fits the link once padded.       *)
LEMMA LinkBound ==
    ASSUME NEW p \in PacketType, NEW i \in FrameIds(p),
           ~Whole(p) \/ (p.run = 0 /\ ~p.direct)
    PROVE  LinkLen(p, i) <= FRAGMENT_SIZE_THRESHOLD
PROOF
  <1>1. /\ p.run \in 0 .. 255
        /\ RawLen(p) \in Nat /\ PadLen(RawLen(p)) \in Nat
        /\ AddressLen(p) \in Nat
    BY LengthTypes, PadType DEF PacketType
  <1>2. UnpaddedLen(p) \in Int
    BY <1>1 DEF UnpaddedLen
  <1>3. CASE Whole(p)
    <2>1. UnpaddedLen(p) = RawLen(p)
      BY <1>1, <1>3 DEF UnpaddedLen
    <2>2. RawLen(p) \in 0 .. 512
      BY <1>1, <1>3, <2>1 DEF Whole, FRAGMENT_SIZE_THRESHOLD
    <2> QED BY <1>3, <2>2, PadFits DEF LinkLen, FrameLen, FRAGMENT_SIZE_THRESHOLD
  <1>4. CASE ~Whole(p)
    <2>1. i \in Nat
      BY <1>4, <1>2, LengthTypes DEF FrameIds
    <2>2. ChunkLen(p, i) \in Int /\ ChunkLen(p, i) <= 512 - Overhead(p)
      BY <1>2, <2>1, ChunkBound, LengthTypes DEF MaxData, MAX_FRAGMENT_SIZE
    <2>3. FrameLen(p, i) \in Int /\ FrameLen(p, i) <= 499
      BY <1>1, <1>4, <2>2, LengthTypes
      DEF FrameLen, Overhead, HeaderLen, Version, PEER_ID_SIZE, FRAGMENT_HEADER_SIZE
    <2>4. FrameLen(p, i) >= 0
      <3>1. ChunkLen(p, i) >= 1
        BY <1>2, <1>4, ChunkNotEmpty
      <3> QED BY <1>1, <1>4, <2>2, <3>1
          DEF FrameLen, HeaderLen, PEER_ID_SIZE, FRAGMENT_HEADER_SIZE
    <2> QED BY <2>3, <2>4, PadFits DEF LinkLen, FRAGMENT_SIZE_THRESHOLD
  <1> QED BY <1>3, <1>4

-----------------------------------------------------------------------------
(* The chunks joined.                                                      *)

(* A set of numbers that is not empty has a least one.                     *)
LEMMA LeastNumber ==
    ASSUME NEW S, S \subseteq Nat, S # {}
    PROVE  \E n \in S : \A m \in S : n <= m
PROOF
  <1>1. \E n \in S : \A m \in S : <<m, n>> \notin OpToRel(<, Nat)
    BY NatLessThanWellFounded, WFMin, Zenon
  <1>2. \E n \in S : \A m \in S : ~(m < n)
    BY <1>1, Zenon DEF OpToRel
  <1> QED BY <1>2

(* Products of numbers and their order.                                    *)
LEMMA Product ==
    ASSUME NEW m \in Nat, NEW n \in Int
    PROVE  /\ n * m \in Int /\ (n - 1) * m = n * m - m /\ (n + 1) * m = n * m + m
           /\ (n - 1) + 1 = n
PROOF
  OBVIOUS

(* As many chunks as it takes: the last one is needed, and is enough.      *)
LEMMA CeilingQuotient ==
    ASSUME NEW u \in Nat \ {0}, NEW m \in Nat \ {0}
    PROVE  LET q == (u + m - 1) \div m
           IN  q \in Nat /\ q >= 1 /\ u <= q * m /\ q * m - m < u
PROOF
  BY SMTT(30)

(* The first n chunks are full and the last one ends where the bytes end.  *)
LEMMA ChunksAddUp ==
    ASSUME NEW p \in PacketType, UnpaddedLen(p) \in Nat \ {0}, MaxData(p) > 0
    PROVE  JoinedChunks(p) = UnpaddedLen(p)
PROOF
  <1> DEFINE m == MaxData(p)
             u == UnpaddedLen(p)
             q == Total(p)
             D == 0 .. q
             Eqn(f) == f = [n \in D |-> IF n = 0 THEN 0 ELSE f[n - 1] + ChunkLen(p, n - 1)]
             closed == [n \in D |-> IF n * m <= u THEN n * m ELSE u]
             bytes == CHOOSE f : Eqn(f)
  <1>1. m \in Nat \ {0} /\ u \in Nat \ {0}
    BY LengthTypes
  <1>2. q \in Nat /\ q >= 1 /\ u <= q * m /\ q * m - m < u
    BY <1>1, CeilingQuotient DEF Total
  <1>3. \A n \in D : n # 0 =>
            /\ n - 1 \in D
            /\ ChunkLen(p, n - 1) = (IF n * m <= u THEN m ELSE u - (n * m - m))
            /\ n * m - m < u
    <2> SUFFICES ASSUME NEW n \in D, n # 0
                 PROVE  /\ n - 1 \in D
                        /\ ChunkLen(p, n - 1) = (IF n * m <= u THEN m ELSE u - (n * m - m))
                        /\ n * m - m < u
      OBVIOUS
    <2>1. n \in 1 .. q /\ n - 1 \in D
      BY <1>2
    <2>2. (n - 1) * m = n * m - m /\ (n - 1) + 1 = n
      BY <1>1, <2>1, Product
    <2>3. n * m <= q * m
      <3> HIDE DEF m, q
      <3> QED BY <1>1, <1>2, <2>1
    <2>4. n * m - m < u
      <3> HIDE DEF m, q, u
      <3>1. n * m \in Int /\ q * m \in Int
        BY <1>1, <1>2, <2>1
      <3> QED BY <1>1, <1>2, <2>3, <3>1
    <2> QED BY <2>1, <2>2, <2>4 DEF ChunkLen
  <1>4. \A n \in D : n * m \in Int /\ (n - 1) * m = n * m - m
    <2> HIDE DEF m, u
    <2> QED BY <1>1, <1>2, Product
  <1>5. Eqn(closed)
    <2>1. \A n \in D : closed[n] = (IF n = 0 THEN 0 ELSE closed[n - 1] + ChunkLen(p, n - 1))
      <3> SUFFICES ASSUME NEW n \in D
                   PROVE  closed[n] = (IF n = 0 THEN 0 ELSE closed[n - 1] + ChunkLen(p, n - 1))
        OBVIOUS
      <3>1. CASE n = 0
        <4>1. n * m = 0
          BY <1>1, <3>1
        <4> QED BY <1>1, <3>1, <4>1
      <3>2. CASE n # 0
        <4>1. closed[n - 1] = n * m - m
          <5>1. closed[n - 1] = (IF (n - 1) * m <= u THEN (n - 1) * m ELSE u)
            BY <1>3, <3>2
          <5> HIDE DEF closed, m, u
          <5> QED BY <1>1, <1>3, <1>4, <3>2, <5>1
        <4>2. closed[n] = (IF n * m <= u THEN n * m ELSE u)
          OBVIOUS
        <4>3. ChunkLen(p, n - 1) = (IF n * m <= u THEN m ELSE u - (n * m - m))
          BY <1>3, <3>2
        <4>4. n * m \in Int
          BY <1>4
        <4> HIDE DEF closed, m, u
        <4> QED BY <1>1, <3>2, <4>1, <4>2, <4>3, <4>4
      <3> QED BY <3>1, <3>2
    <2> HIDE DEF closed
    <2>2. closed = [n \in D |-> closed[n]]
      BY DEF closed
    <2> QED BY <2>1, <2>2
  <1>6. Eqn(bytes)
    <2> HIDE DEF closed, Eqn
    <2> QED BY <1>5
  <1>7. \A n \in D : bytes[n] = closed[n]
    <2> DEFINE Wrong == {n \in D : bytes[n] # closed[n]}
    <2> SUFFICES ASSUME Wrong # {} PROVE FALSE
      OBVIOUS
    <2>1. PICK n \in Wrong : \A k \in Wrong : n <= k
      <3>1. Wrong \subseteq Nat
        BY <1>2
      <3> HIDE DEF Wrong
      <3> QED BY <3>1, LeastNumber
    <2>2. /\ bytes[n] = (IF n = 0 THEN 0 ELSE bytes[n - 1] + ChunkLen(p, n - 1))
          /\ closed[n] = (IF n = 0 THEN 0 ELSE closed[n - 1] + ChunkLen(p, n - 1))
      <3> HIDE DEF bytes, closed
      <3> QED BY <1>5, <1>6
    <2>3. CASE n = 0
      <3> HIDE DEF bytes, closed
      <3> QED BY <2>1, <2>2, <2>3
    <2>4. CASE n # 0
      <3> HIDE DEF bytes, closed, m, u
      <3>1. n - 1 \in D /\ n - 1 \notin Wrong
        BY <1>2, <2>1, <2>4
      <3> QED BY <2>1, <2>2, <2>4, <3>1
    <2> QED BY <2>3, <2>4
  <1>8. JoinedChunks(p) = bytes[q]
    BY DEF JoinedChunks
  <1>9. bytes[q] = closed[q]
    <2> HIDE DEF bytes, closed
    <2> QED BY <1>2, <1>7
  <1>10. closed[q] = u
    <2>1. closed[q] = (IF q * m <= u THEN q * m ELSE u)
      BY <1>2
    <2>2. q * m \in Int
      BY <1>2, <1>4
    <2> HIDE DEF closed, m, u, q
    <2> QED BY <1>1, <1>2, <2>1, <2>2
  <1> QED BY <1>8, <1>9, <1>10

(* The length that is cut into chunks is a number, and not 0.              *)
LEMMA UnpaddedType ==
    ASSUME NEW p \in PacketType
    PROVE  /\ UnpaddedLen(p) \in Int
           /\ ~Whole(p) => UnpaddedLen(p) \in Nat \ {0}
PROOF
  <1>1. p.run \in 0 .. 255 /\ RawLen(p) \in Nat
    BY LengthTypes DEF PacketType
  <1> QED BY <1>1 DEF UnpaddedLen, Whole, FRAGMENT_SIZE_THRESHOLD

(* ChunksCover, for every set of packets: what create_fragments cuts is    *)
(* what handle_fragment joins, and no chunk is one the receiver refuses.   *)
THEOREM ChunksPartition == Spec => []ChunksCover
PROOF
  <1> DEFINE IsSent == pkt \in Packets \cup {None}
  <1>1. Init => IsSent
    BY DEF Init
  <1>2. IsSent /\ [Next]_vars => IsSent'
    BY DEF Next, Send, Deliver, vars
  <1>3. IsSent => ChunksCover
    <2> SUFFICES ASSUME IsSent, pkt # None, ~Whole(pkt), FrameIds(pkt) # {}
                 PROVE  /\ \A i \in FrameIds(pkt) : ChunkLen(pkt, i) \in 1 .. MAX_FRAGMENT_SIZE
                        /\ JoinedLen(pkt) = UnpaddedLen(pkt)
      BY DEF ChunksCover
    <2>1. pkt \in PacketType
      BY PacketsAssumption
    <2>2. UnpaddedLen(pkt) \in Nat \ {0} /\ MaxData(pkt) > 0 /\ FrameIds(pkt) \subseteq Nat
      BY <2>1, UnpaddedType, LengthTypes DEF FrameIds
    <2>3. MaxData(pkt) \in Int /\ MaxData(pkt) <= MAX_FRAGMENT_SIZE
      BY <2>1, LengthTypes DEF MaxData, MAX_FRAGMENT_SIZE
    <2>4. \A i \in FrameIds(pkt) : ChunkLen(pkt, i) \in 1 .. MAX_FRAGMENT_SIZE
      <3> SUFFICES ASSUME NEW i \in FrameIds(pkt)
                   PROVE  ChunkLen(pkt, i) \in 1 .. MAX_FRAGMENT_SIZE
        OBVIOUS
      <3>1. ChunkLen(pkt, i) \in Int /\ ChunkLen(pkt, i) <= MaxData(pkt)
        BY <2>1, <2>2, ChunkBound
      <3>2. ChunkLen(pkt, i) >= 1
        BY <2>1, <2>2, ChunkNotEmpty
      <3> QED BY <2>3, <3>1, <3>2 DEF MAX_FRAGMENT_SIZE
    <2>5. JoinedLen(pkt) = UnpaddedLen(pkt)
      BY <2>1, <2>2, ChunksAddUp DEF JoinedLen
    <2> QED BY <2>4, <2>5
  <1> QED BY <1>1, <1>2, <1>3, PTL DEF Spec

-----------------------------------------------------------------------------
(* The way there and back.                                                 *)

(* What _unpad leaves alone: there is padding, or what is at the end does  *)
(* not look like any, or the packet is short enough to be sent padded.     *)
NotMistaken(p) == Whole(p) \/ PadLen(RawLen(p)) > 0 \/ p.run = 0

(* What is joined decodes to the packet unless its end looks like padding. *)
LEMMA JoinedDecodes ==
    ASSUME NEW p \in PacketType, FrameIds(p) # {}
    PROVE  /\ Decode(p, JoinedLen(p)) = AsSent(p) <=> NotMistaken(p)
           /\ Decode(p, JoinedLen(p)) \in [plain : Nat, signed : BOOLEAN] \cup {Failed}
PROOF
  <1>1. /\ p.run \in 0 .. 255 /\ p.signed \in BOOLEAN /\ p.plain \in Nat
        /\ RawLen(p) \in Nat /\ PadLen(RawLen(p)) \in Nat
        /\ SignatureLen(p) = (IF p.signed THEN 64 ELSE 0)
    BY LengthTypes, PadType DEF PacketType, SignatureLen
  <1>2. Decode(p, JoinedLen(p)) \in [plain : Nat, signed : BOOLEAN] \cup {Failed}
    BY <1>1 DEF Decode
  <1>3. CASE Whole(p)
    <2>1. JoinedLen(p) = RawLen(p) + PadLen(RawLen(p))
      BY <1>3 DEF JoinedLen, LinkLen, FrameLen
    <2>2. Decode(p, JoinedLen(p)) = AsSent(p)
      BY <1>1, <2>1 DEF Decode, AsSent
    <2> QED BY <1>2, <1>3, <2>2 DEF NotMistaken
  <1>4. CASE ~Whole(p)
    <2>1. JoinedLen(p) = UnpaddedLen(p)
      <3>1. UnpaddedLen(p) \in Nat \ {0} /\ MaxData(p) > 0
        BY <1>4, UnpaddedType, LengthTypes DEF FrameIds
      <3> QED BY <1>4, <3>1, ChunksAddUp DEF JoinedLen
    <2>2. CASE NotMistaken(p)
      <3>1. JoinedLen(p) = RawLen(p)
        BY <1>1, <1>4, <2>1, <2>2 DEF UnpaddedLen, NotMistaken
      <3>2. Decode(p, JoinedLen(p)) = AsSent(p)
        BY <1>1, <3>1 DEF Decode, AsSent
      <3> QED BY <1>2, <2>2, <3>2
    <2>3. CASE ~NotMistaken(p)
      <3>1. JoinedLen(p) < RawLen(p) /\ JoinedLen(p) \in Int
        BY <1>1, <1>4, <2>1, <2>3 DEF UnpaddedLen, NotMistaken
      <3>2. AsSent(p) \in [plain : Nat, signed : BOOLEAN] /\ AsSent(p).signed = p.signed
        BY <1>1 DEF AsSent
      <3>3. CASE Decode(p, JoinedLen(p)) = Failed
        BY <1>2, <2>3, <3>2, <3>3, FailedAssumption
      <3>4. CASE Decode(p, JoinedLen(p)) # Failed
        <4>1. p.signed = TRUE
          BY <1>1, <3>1, <3>4 DEF Decode
        <4>2. (p.signed /\ JoinedLen(p) >= RawLen(p)) = FALSE
          BY <1>1, <3>1
        <4>3. Decode(p, JoinedLen(p)).signed = FALSE
          BY <3>4, <4>2 DEF Decode
        <4> QED BY <1>2, <2>3, <3>2, <4>1, <4>3
      <3> QED BY <3>3, <3>4
    <2> QED BY <2>2, <2>3
  <1> QED BY <1>3, <1>4

Decoded ==
    result # None =>
        /\ pkt \in Packets /\ FrameIds(pkt) # {}
        /\ result = Decode(pkt, JoinedLen(pkt))

(* Every result is what decoding the packet under way gives.               *)
LEMMA DecodedAlways == Spec => [](TypeOK /\ Decoded)
PROOF
  <1>1. Init => TypeOK /\ Decoded
    BY DEF Init, TypeOK, Decoded, ResultType
  <1>2. TypeOK /\ Decoded /\ [Next]_vars => (TypeOK /\ Decoded)'
    <2> SUFFICES ASSUME TypeOK, Decoded, [Next]_vars
                 PROVE  TypeOK' /\ Decoded'
      OBVIOUS
    <2>1. CASE \E p \in Packets : Send(p)
      BY <2>1 DEF Send, TypeOK, Decoded, ResultType
    <2>2. CASE pkt # None /\ \E i \in FrameIds(pkt) : Deliver(i)
      <3>1. PICK i \in FrameIds(pkt) : Deliver(i)
        BY <2>2
      <3>2. pkt \in Packets /\ pkt \in PacketType /\ pkt' = pkt
        BY <2>2, <3>1, PacketsAssumption DEF TypeOK, Deliver
      <3>3. Decode(pkt, JoinedLen(pkt)) \in ResultType
        BY <3>1, <3>2, JoinedDecodes DEF ResultType
      <3>4. got' \subseteq FrameIds(pkt)
        BY <2>2, <3>1 DEF TypeOK, Deliver
      <3>5. result' = result \/ result' = Decode(pkt, JoinedLen(pkt))
        BY <3>1 DEF Deliver
      <3> QED BY <2>2, <3>1, <3>2, <3>3, <3>4, <3>5 DEF TypeOK, Decoded
    <2>3. CASE UNCHANGED vars
      BY <2>3 DEF vars, TypeOK, Decoded
    <2> QED BY <2>1, <2>2, <2>3 DEF Next
  <1> QED BY <1>1, <1>2, PTL DEF Spec

(* The packets, the frames the receiver has and its result have their      *)
(* types: no frame is counted that the packet has not.                     *)
THEOREM TypeCorrect == Spec => []TypeOK
PROOF
  BY DecodedAlways, PTL

(* Exactly the packets whose end _unpad does not mistake for padding come  *)
(* back as they were sent; of every other one a result is wrong.           *)
THEOREM RoundTripExact == Spec => [](result # None => (result = AsSent(pkt) <=> NotMistaken(pkt)))
PROOF
  <1>1. Decoded => (result # None => (result = AsSent(pkt) <=> NotMistaken(pkt)))
    BY JoinedDecodes, PacketsAssumption DEF Decoded
  <1> QED BY <1>1, DecodedAlways, PTL

(* RoundTrip, for every set of packets none of which ends like padding.    *)
THEOREM RoundTripHolds ==
    ASSUME \A p \in Packets : NotMistaken(p)
    PROVE  Spec => []RoundTrip
PROOF
  <1>1. Decoded => RoundTrip
    BY JoinedDecodes, PacketsAssumption DEF Decoded, RoundTrip
  <1> QED BY <1>1, DecodedAlways, PTL

-----------------------------------------------------------------------------
(* The messages in the formats the daemon itself sends.                    *)

Byte == 0 .. 255

(* What uuid4 prints: 36 characters, of which the 9th and 14th are dashes. *)
Uuids == {s \in Seq(0 .. 127) : Len(s) = 36 /\ s[9] = 45 /\ s[14] = 45}

OwnFormat(b) ==
    \/ b.type = "text" /\ b.id \in Uuids /\ b.data \in Seq(Byte) /\ IsUtf8(b.data)
    \/ b.type = "file" /\ b.id \in Uuids /\ b.data \in Seq(Byte)
    \/ b.type = "receipt" /\ b.read \in BOOLEAN /\ b.id \in Uuids /\ b.more \in Seq(Byte)
    \/ b.type = "transfer" /\ b.data \in Seq(Byte)
    \/ b.type = "public" /\ b.data \in Seq(Byte) /\ IsUtf8(b.data)

(* An id as uuid4 prints it has 36 bytes, ASCII ones.                      *)
LEMMA UuidFacts ==
    ASSUME NEW id \in Uuids
    PROVE  /\ id \in Seq(Byte) /\ Len(id) = 36 /\ DOMAIN id = 1 .. 36
           /\ id[9] = 45 /\ id[14] = 45 /\ IsAscii(id)
PROOF
  <1> DEFINE Ascii == 0 .. 127
  <1>1. id \in Seq(Ascii) /\ Len(id) = 36 /\ id[9] = 45 /\ id[14] = 45
    BY DEF Uuids
  <1>2. Ascii \subseteq Byte /\ \A x \in Ascii : x <= 127
    BY DEF Byte
  <1> HIDE DEF Ascii
  <1>3. id \in Seq(Byte)
    BY <1>1, <1>2, SeqMonotonic
  <1>a. DOMAIN id = 1 .. 36
    BY <1>1, LenProperties
  <1>4. DOMAIN id = 1 .. 36 /\ \A i \in 1 .. 36 : id[i] \in Ascii
    BY <1>1, <1>a, ElementOfSeq
  <1> QED BY <1>1, <1>2, <1>3, <1>4 DEF IsAscii

(* A sequence of one.                                                      *)
LEMMA Single ==
    ASSUME NEW S, NEW x \in S
    PROVE  <<x>> \in Seq(S) /\ Len(<<x>>) = 1 /\ <<x>>[1] = x
  OBVIOUS

(* A part of a payload is found where the parts before it end.             *)
LEMMA PartFound ==
    ASSUME NEW S, NEW a \in Seq(S), NEW b \in Seq(S), NEW c \in Seq(S)
    PROVE  /\ (a \o b) \o c \in Seq(S) /\ Len((a \o b) \o c) = Len(a) + Len(b) + Len(c)
           /\ SubSeq((a \o b) \o c, Len(a) + 1, Len(a) + Len(b)) = b
           /\ \A i \in 1 .. Len(a) : ((a \o b) \o c)[i] = a[i]
           /\ \A i \in 1 .. Len(b) : ((a \o b) \o c)[Len(a) + i] = b[i]
           /\ \A i \in 1 .. Len(c) : ((a \o b) \o c)[Len(a) + Len(b) + i] = c[i]
PROOF
  <1> DEFINE s == (a \o b) \o c
  <1>1. /\ s \in Seq(S) /\ Len(s) = Len(a) + Len(b) + Len(c)
        /\ Len(a) \in Nat /\ Len(b) \in Nat /\ Len(c) \in Nat
        /\ \A i \in 1 .. Len(a) : s[i] = a[i]
        /\ \A i \in 1 .. Len(b) : s[Len(a) + i] = b[i]
        /\ \A i \in 1 .. Len(c) : s[Len(a) + Len(b) + i] = c[i]
    OBVIOUS
  <1> HIDE DEF s
  <1> DEFINE m == Len(a) + 1
             n == Len(a) + Len(b)
  <1>2. m \in Int /\ n \in Int /\ n - m + 1 = Len(b) /\ (m <= n <=> Len(b) # 0)
    BY <1>1
  <1>3. \A i \in m .. n : s[i] \in S
    <2> TAKE i \in m .. n
    <2>1. i - Len(a) \in 1 .. Len(b) /\ i = Len(a) + (i - Len(a))
      BY <1>1
    <2>2. i \in 1 .. Len(s)
      BY <1>1
    <2> QED BY <1>1, <2>2
  <1>4. /\ SubSeq(s, m, n) \in Seq(S)
        /\ Len(SubSeq(s, m, n)) = IF m <= n THEN n - m + 1 ELSE 0
        /\ \A i \in 1 .. n - m + 1 : SubSeq(s, m, n)[i] = s[m + i - 1]
    BY <1>2, <1>3, SubSeqProperties
  <1> HIDE DEF m, n
  <1>5. \A i \in 1 .. Len(b) : m + i - 1 = Len(a) + i
    BY <1>1 DEF m
  <1>6. Len(SubSeq(s, m, n)) = Len(b) /\ \A i \in 1 .. Len(b) : SubSeq(s, m, n)[i] = b[i]
    BY <1>1, <1>2, <1>4, <1>5
  <1>7. SubSeq(s, m, n) = b
    BY <1>4, <1>6, SeqEqual
  <1> QED BY <1>1, <1>7 DEF s, m, n

(* The first format that fits is taken.                                    *)
LEMMA FirstFit ==
    ASSUME NEW s
    PROVE  /\ ParseReceipt(s) # Unread => ParseIncoming(s) = ParseReceipt(s)
           /\ ParseReceipt(s) = Unread /\ ParseStandard(s) # Unread =>
                ParseIncoming(s) = ParseStandard(s)
           /\ ParseReceipt(s) = Unread /\ ParseStandard(s) = Unread /\ ParseTlv(s) # Unread =>
                ParseIncoming(s) = ParseTlv(s)
           /\ (/\ ParseReceipt(s) = Unread /\ ParseStandard(s) = Unread
               /\ ParseTlv(s) = Unread /\ ParseLegacy(s) # Unread) =>
                ParseIncoming(s) = ParseLegacy(s)
PROOF
  <1> DEFINE tries == <<ParseReceipt(s), ParseStandard(s), ParseTlv(s), ParseLegacy(s),
                        ParseSignature(s), ParseDeflated(s), ParseBlob(s)>>
             fits == {i \in DOMAIN tries : tries[i] # Unread}
  <1>1. ParseIncoming(s) = IF fits = {} THEN Unread ELSE tries[Min(fits)]
    BY DEF ParseIncoming
  <1>2. /\ DOMAIN tries = 1 .. 7 /\ tries[1] = ParseReceipt(s) /\ tries[2] = ParseStandard(s)
        /\ tries[3] = ParseTlv(s) /\ tries[4] = ParseLegacy(s)
    OBVIOUS
  <1> HIDE DEF tries
  <1>3. ASSUME NEW k \in 1 .. 7, tries[k] # Unread, \A i \in 1 .. 7 : i < k => tries[i] = Unread
        PROVE  ParseIncoming(s) = tries[k]
    <2>1. fits \subseteq 1 .. 7
      BY <1>2
    <2>2. k \in fits /\ \A i \in fits : k <= i
      BY <1>2, <1>3
    <2>3. \A i \in fits : (\A j \in fits : i <= j) => i = k
      BY <2>1, <2>2
    <2> HIDE DEF fits
    <2>4. Min(fits) = k
      BY <2>2, <2>3 DEF Min
    <2> QED BY <1>1, <2>2, <2>4
  <1>4. /\ {1, 2, 3, 4} \subseteq 1 .. 7 /\ \A i \in 1 .. 7 : ~(i < 1)
        /\ \A i \in 1 .. 7 : i < 2 => i = 1
        /\ \A i \in 1 .. 7 : i < 3 => i = 1 \/ i = 2
        /\ \A i \in 1 .. 7 : i < 4 => i = 1 \/ i = 2 \/ i = 3
    OBVIOUS
  <1>5. tries[1] # Unread => ParseIncoming(s) = tries[1]
    BY <1>3, <1>4
  <1>6. tries[1] = Unread /\ tries[2] # Unread => ParseIncoming(s) = tries[2]
    BY <1>3, <1>4
  <1>7. tries[1] = Unread /\ tries[2] = Unread /\ tries[3] # Unread => ParseIncoming(s) = tries[3]
    BY <1>3, <1>4
  <1>8. (/\ tries[1] = Unread /\ tries[2] = Unread
         /\ tries[3] = Unread /\ tries[4] # Unread) => ParseIncoming(s) = tries[4]
    BY <1>3, <1>4
  <1> QED BY <1>2, <1>5, <1>6, <1>7, <1>8

(* A receipt is read as one, whatever a phone appends to it.               *)
LEMMA ReceiptRead ==
    ASSUME NEW read \in BOOLEAN, NEW id \in Uuids, NEW more \in Seq(Byte),
           Receipt(read, id) # Unread
    PROVE  ParseIncoming(EncodeReceipt(read, id) \o more) = Receipt(read, id)
PROOF
  <1> DEFINE k == IF read THEN 2 ELSE 3
             kind == <<k>>
             s == (kind \o id) \o more
  <1>a. k \in Byte /\ (k = 2 <=> read) /\ k \in {2, 3}
    BY DEF Byte
  <1>2. EncodeReceipt(read, id) \o more = s
    BY DEF EncodeReceipt
  <1> HIDE DEF k
  <1>1. /\ kind \in Seq(Byte) /\ Len(kind) = 1 /\ kind[1] = k
        /\ id \in Seq(Byte) /\ Len(id) = 36 /\ id[9] = 45 /\ id[14] = 45 /\ IsAscii(id)
    BY <1>a, Single, UuidFacts
  <1> HIDE DEF kind
  <1>3. /\ Len(s) = 37 + Len(more) /\ Len(more) \in Nat
        /\ SubSeq(s, 2, 37) = id
        /\ s[1] = kind[1] /\ s[10] = id[9] /\ s[15] = id[14]
    <2>a. kind \in Seq(Byte) /\ id \in Seq(Byte) /\ Len(more) \in Nat
      BY <1>1, LenProperties
    <2>1. /\ Len(s) = Len(kind) + Len(id) + Len(more)
          /\ SubSeq(s, Len(kind) + 1, Len(kind) + Len(id)) = id
          /\ \A i \in 1 .. Len(kind) : s[i] = kind[i]
          /\ \A i \in 1 .. Len(id) : s[Len(kind) + i] = id[i]
      BY <2>a, PartFound
    <2> HIDE DEF s
    <2>2. 1 \in 1 .. Len(kind) /\ 9 \in 1 .. Len(id) /\ 14 \in 1 .. Len(id)
      BY <1>1
    <2> QED BY <1>1, <2>1, <2>2, <2>a
  <1> HIDE DEF s
  <1>4. At(s, 0) = k /\ At(s, 9) = 45 /\ At(s, 14) = 45 /\ Slice(s, 1, 36) = id
    <2>1. (IF 1 + 36 < Len(s) THEN 1 + 36 ELSE Len(s)) = 37
      BY <1>3
    <2>2. 0 + 1 = 1 /\ 9 + 1 = 10 /\ 14 + 1 = 15 /\ 1 + 1 = 2
      OBVIOUS
    <2>3. Slice(s, 1, 36) = SubSeq(s, 2, 37)
      BY <2>1, <2>2 DEF Slice
    <2> QED BY <1>1, <1>3, <2>2, <2>3 DEF At
  <1>5. ParseReceipt(s) = Receipt(k = 2, id)
    <2>1. Len(s) >= 37
      BY <1>3
    <2> QED BY <1>1, <1>4, <1>a, <2>1 DEF ParseReceipt
  <1>6. Receipt(k = 2, id) = Receipt(read, id)
    BY <1>a DEF Receipt
  <1> QED BY <1>2, <1>5, <1>6, FirstFit

(* A sequence of two.                                                      *)
LEMMA Pair ==
    ASSUME NEW S, NEW x \in S, NEW y \in S
    PROVE  <<x, y>> \in Seq(S) /\ Len(<<x, y>>) = 2 /\ <<x, y>>[1] = x /\ <<x, y>>[2] = y
OBVIOUS

(* A length up to 255 is a byte.                                           *)
LEMMA SmallByte == \A n \in Nat : n <= 255 => n \in Byte
BY DEF Byte

(* The first three bytes of the standard format.                           *)
LEMMA HeadBytes ==
    ASSUME NEW t \in {0, 1}
    PROVE  LET h == <<t>> \o U16(36)
           IN  h \in Seq(Byte) /\ Len(h) = 3 /\ h[1] = t /\ h[2] = 0 /\ h[3] = 36
PROOF
  <1> DEFINE u == U16(36)
  <1>1. t \in Byte /\ 0 \in Byte /\ 36 \in Byte
    BY DEF Byte
  <1>2. U16(36) = <<0, 36>>
    BY DEF U16
  <1>a. /\ <<0, 36>> \in Seq(Byte) /\ Len(<<0, 36>>) = 2
        /\ <<0, 36>>[1] = 0 /\ <<0, 36>>[2] = 36
    BY <1>1, Pair
  <1>3. u \in Seq(Byte) /\ Len(u) = 2 /\ u[1] = 0 /\ u[2] = 36
    BY ONLY <1>2, <1>a, Zenon
  <1> DEFINE v == <<t>>
  <1>4. v \in Seq(Byte) /\ Len(v) = 1 /\ v[1] = t
    BY <1>1, Single
  <1> HIDE DEF u, v
  <1>5. /\ v \o u \in Seq(Byte) /\ Len(v \o u) = Len(v) + Len(u)
        /\ \A i \in 1 .. Len(v) + Len(u) :
              (v \o u)[i] = IF i <= Len(v) THEN v[i] ELSE u[i - Len(v)]
    BY ONLY <1>3, <1>4, ConcatProperties
  <1>6. (v \o u)[1] = t /\ (v \o u)[2] = u[1] /\ (v \o u)[3] = u[2]
    BY <1>3, <1>4, <1>5
  <1> QED BY <1>3, <1>4, <1>5, <1>6 DEF u, v

Standard(t, id, k, rest) == (((<<t>> \o U16(36)) \o id) \o <<k>>) \o rest

(* Behind its head a payload of the standard format has what it is about.  *)
LEMMA StandardHead ==
    ASSUME NEW t \in {0, 1}, NEW k \in {1, 2}, NEW id \in Uuids,
           NEW rest \in Seq(Byte), Len(rest) > 0, NEW s, s = Standard(t, id, k, rest)
    PROVE  /\ s \in Seq(Byte) /\ Len(s) = 40 + Len(rest)
           /\ At(s, 0) = t /\ ReadU16(s, 1) = 36
           /\ Slice(s, 3, 36) = id /\ IsAscii(id) /\ At(s, 39) = k
           /\ From(s, 40) = rest
           /\ \A i \in 1 .. Len(rest) : s[40 + i] = rest[i]
PROOF
  <1>1. /\ id \in Seq(Byte) /\ Len(id) = 36 /\ IsAscii(id)
        /\ Len(rest) \in Nat
    BY UuidFacts, LenProperties
  <1>a. t \in Byte /\ k \in Byte /\ 0 \in Byte /\ 36 \in Byte
    BY DEF Byte
  <1> DEFINE head == <<t>> \o U16(36)
             tail == <<k>> \o rest
  <1>3. /\ head \in Seq(Byte) /\ Len(head) = 3 /\ head[1] = t /\ head[2] = 0 /\ head[3] = 36
    BY HeadBytes
  <1>4. /\ tail \in Seq(Byte) /\ Len(tail) = 1 + Len(rest) /\ tail[1] = k
        /\ \A i \in 1 .. Len(rest) : tail[1 + i] = rest[i]
        /\ <<k>> \in Seq(Byte) /\ Len(<<k>>) = 1
    BY <1>1, <1>a, Single
  <1>5. s = (head \o id) \o tail
    <2>1. \A p, q, r \in Seq(Byte) : (p \o q) \o r = p \o (q \o r)
      OBVIOUS
    <2>2. head \o id \in Seq(Byte)
      BY <1>1, <1>3
    <2> HIDE DEF head
    <2>3. ((head \o id) \o <<k>>) \o rest = (head \o id) \o (<<k>> \o rest)
      BY <1>4, <2>1, <2>2
    <2> QED BY <2>3 DEF head, Standard
  <1> HIDE DEF head, tail
  <1>6. /\ s \in Seq(Byte) /\ Len(s) = Len(head) + Len(id) + Len(tail)
        /\ SubSeq(s, Len(head) + 1, Len(head) + Len(id)) = id
        /\ \A i \in 1 .. Len(head) : s[i] = head[i]
        /\ \A i \in 1 .. Len(tail) : s[Len(head) + Len(id) + i] = tail[i]
    <2>1. head \in Seq(Byte) /\ id \in Seq(Byte) /\ tail \in Seq(Byte)
      BY <1>1, <1>3, <1>4
    <2>2. LET p == (head \o id) \o tail
          IN  /\ p \in Seq(Byte) /\ Len(p) = Len(head) + Len(id) + Len(tail)
              /\ SubSeq(p, Len(head) + 1, Len(head) + Len(id)) = id
              /\ \A i \in 1 .. Len(head) : p[i] = head[i]
              /\ \A i \in 1 .. Len(tail) : p[Len(head) + Len(id) + i] = tail[i]
      BY <2>1, PartFound
    <2> QED BY <2>2, <1>5
  <1>7. s \in Seq(Byte) /\ Len(s) = 40 + Len(rest) /\ SubSeq(s, 4, 39) = id
    BY <1>1, <1>3, <1>4, <1>6
  <1>8. s[1] = t /\ s[2] = 0 /\ s[3] = 36
    BY <1>3, <1>6
  <1>9. s[40] = k
    <2>1. 1 \in 1 .. Len(tail) /\ Len(head) + Len(id) + 1 = 40
      BY <1>1, <1>3, <1>4
    <2> QED BY <1>4, <1>6, <2>1
  <1>10. \A i \in 1 .. Len(rest) : s[40 + i] = rest[i]
    <2> TAKE i \in 1 .. Len(rest)
    <2>1. 1 + i \in 1 .. Len(tail) /\ Len(head) + Len(id) + (1 + i) = 40 + i
      BY <1>1, <1>3, <1>4
    <2> QED BY <1>4, <1>6, <2>1
  <1>11. SubSeq(s, 41, Len(s)) = rest
    <2>1. \A i \in 41 .. Len(s) : s[i] \in Byte
      <3> TAKE i \in 41 .. Len(s)
      <3>1. i \in 1 .. Len(s)
        BY <1>1, <1>7
      <3> QED BY <1>7, <3>1, ElementOfSeq
    <2>2. /\ SubSeq(s, 41, Len(s)) \in Seq(Byte)
          /\ Len(SubSeq(s, 41, Len(s))) = IF 41 <= Len(s) THEN Len(s) - 41 + 1 ELSE 0
          /\ \A i \in 1 .. Len(s) - 41 + 1 : SubSeq(s, 41, Len(s))[i] = s[41 + i - 1]
      <3>1. 41 \in Int /\ Len(s) \in Int
        BY <1>1, <1>7
      <3> QED BY <2>1, <3>1, SubSeqProperties
    <2>3. Len(SubSeq(s, 41, Len(s))) = Len(rest)
      BY <1>1, <1>7, <2>2
    <2>4. \A i \in 1 .. Len(rest) : SubSeq(s, 41, Len(s))[i] = rest[i]
      <3> TAKE i \in 1 .. Len(rest)
      <3>1. i \in 1 .. Len(s) - 41 + 1 /\ 41 + i - 1 = 40 + i
        BY <1>1, <1>7
      <3> QED BY <1>10, <2>2, <3>1
    <2> QED BY <2>2, <2>3, <2>4, SeqEqual
  <1>12. Slice(s, 3, 36) = id
    <2>1. (IF 3 + 36 < Len(s) THEN 3 + 36 ELSE Len(s)) = 39 /\ 3 + 1 = 4
      BY <1>1, <1>7
    <2>2. Slice(s, 3, 36) = SubSeq(s, 4, 39)
      BY <2>1 DEF Slice
    <2> QED BY <1>7, <2>2
  <1>14. At(s, 0) = t /\ ReadU16(s, 1) = 36 /\ At(s, 39) = k /\ From(s, 40) = rest
    BY <1>8, <1>9, <1>11 DEF At, ReadU16, From
  <1> QED BY <1>1, <1>7, <1>10, <1>12, <1>14

(* A text is read as one, whatever is in it.                               *)
LEMMA TextRead ==
    ASSUME NEW id \in Uuids, NEW data \in Seq(Byte), Len(data) <= 255, IsUtf8(data),
           Message(id, data) # Unread
    PROVE  ParseIncoming(EncodeMessagePayload(id, data)) = Message(id, data)
PROOF
  <1> DEFINE s == EncodeMessagePayload(id, data)
             rest == <<Len(data)>> \o data
  <1>1. /\ rest \in Seq(Byte) /\ Len(rest) = 1 + Len(data) /\ rest[1] = Len(data)
        /\ \A i \in 1 .. Len(data) : rest[1 + i] = data[i]
        /\ Len(data) \in Nat /\ Len(data) \in Byte /\ 1 \in Byte
    <2>a. Len(data) \in Nat
      BY LenProperties
    <2>1. Len(data) \in Nat /\ Len(data) \in Byte /\ 1 \in Byte
      BY <2>a, SmallByte
    <2>2. <<Len(data)>> \in Seq(Byte) /\ Len(<<Len(data)>>) = 1 /\ <<Len(data)>>[1] = Len(data)
      BY <2>1, Single
    <2> QED BY <2>1, <2>2
  <1>2. s = Standard(1, id, 1, rest)
    <2>1. \A p, q, r \in Seq(Byte) : (p \o q) \o r = p \o (q \o r)
      OBVIOUS
    <2>2. Len(id) = 36 /\ id \in Seq(Byte)
      BY UuidFacts
    <2>3. <<1, Len(data)>> = <<1>> \o <<Len(data)>>
      BY <1>1
    <2> DEFINE a == (<<1>> \o U16(36)) \o id
    <2>a. <<1>> \o U16(36) \in Seq(Byte)
      BY HeadBytes
    <2>b. \A p, q \in Seq(Byte) : p \o q \in Seq(Byte)
      OBVIOUS
    <2>4. a \in Seq(Byte) /\ <<1>> \in Seq(Byte) /\ <<Len(data)>> \in Seq(Byte)
      BY <1>1, <2>2, <2>a, <2>b, Single
    <2>5. s = (a \o <<1, Len(data)>>) \o data
      BY <2>2 DEF EncodeMessagePayload
    <2> HIDE DEF a, s
    <2>6. (a \o (<<1>> \o <<Len(data)>>)) \o data = ((a \o <<1>>) \o <<Len(data)>>) \o data
      BY <2>1, <2>4
    <2>7. ((a \o <<1>>) \o <<Len(data)>>) \o data = (a \o <<1>>) \o rest
      <3>1. a \o <<1>> \in Seq(Byte)
        BY <2>4
      <3> QED BY <2>1, <2>2, <2>4, <3>1
    <2> QED BY <2>3, <2>5, <2>6, <2>7 DEF a, Standard
  <1> HIDE DEF s, rest
  <1>3. /\ s \in Seq(Byte) /\ Len(s) = 40 + Len(rest)
        /\ At(s, 0) = 1 /\ ReadU16(s, 1) = 36
        /\ Slice(s, 3, 36) = id /\ IsAscii(id) /\ At(s, 39) = 1
        /\ \A i \in 1 .. Len(rest) : s[40 + i] = rest[i]
    <2>1. 1 \in {0, 1} /\ 1 \in {1, 2} /\ Len(rest) > 0
      BY <1>1
    <2> QED BY <1>1, <1>2, <2>1, StandardHead
  <1>4. At(s, 40) = Len(data)
    BY <1>1, <1>3 DEF At
  <1>5. Slice(s, 41, Len(data)) = data
    <2>1. Len(s) = 41 + Len(data) /\ Len(s) \in Nat
      BY <1>1, <1>3
    <2>2. (IF 41 + Len(data) < Len(s) THEN 41 + Len(data) ELSE Len(s)) = Len(s)
      BY <2>1
    <2>3. /\ SubSeq(s, 42, Len(s)) \in Seq(Byte)
          /\ Len(SubSeq(s, 42, Len(s))) = IF 42 <= Len(s) THEN Len(s) - 42 + 1 ELSE 0
          /\ \A i \in 1 .. Len(s) - 42 + 1 : SubSeq(s, 42, Len(s))[i] = s[42 + i - 1]
      <3>1. \A i \in 42 .. Len(s) : s[i] \in Byte
        BY <1>3
      <3> QED BY <2>1, <3>1, SubSeqProperties
    <2>4. Len(SubSeq(s, 42, Len(s))) = Len(data)
      BY <1>1, <2>1, <2>3
    <2>5. \A i \in 1 .. Len(data) : SubSeq(s, 42, Len(s))[i] = data[i]
      <3> TAKE i \in 1 .. Len(data)
      <3>1. /\ i \in 1 .. Len(s) - 42 + 1 /\ 42 + i - 1 = 40 + (1 + i)
            /\ 1 + i \in 1 .. Len(rest)
        BY <1>1, <2>1
      <3>2. SubSeq(s, 42, Len(s))[i] = s[42 + i - 1]
        BY <2>3, <3>1
      <3>3. s[40 + (1 + i)] = rest[1 + i]
        BY <1>3, <3>1
      <3>4. rest[1 + i] = data[i]
        BY <1>1
      <3> QED BY <3>1, <3>2, <3>3, <3>4
    <2>6. SubSeq(s, 42, Len(s)) = data
      BY <2>3, <2>4, <2>5, SeqEqual
    <2> QED BY <2>2, <2>6 DEF Slice
  <1>6. ParseReceipt(s) = Unread
    BY <1>3 DEF ParseReceipt
  <1>7. ParseStandard(s) = Message(id, data)
    <2>1. ~(Len(s) < 41)
      BY <1>1, <1>3
    <2> QED BY <1>3, <1>4, <1>5, <2>1 DEF ParseStandard
  <1> QED BY <1>6, <1>7, FirstFit DEF s

(* What begins as a known file does, or nowhere in its first bytes, stays. *)
LEMMA IntactStays ==
    ASSUME NEW data \in Seq(Byte), Intact(data)
    PROVE  Trim(data, 0 .. 31) = data
PROOF
  <1> DEFINE K == KnownAt(data, 0 .. 31)
  <1>1. K \subseteq 0 .. 31
    BY DEF KnownAt
  <1> HIDE DEF K
  <1>2. CASE K = {}
    BY <1>2 DEF Trim, K
  <1>3. CASE K # {}
    <2>1. 0 \in K
      BY <1>3 DEF Intact, K
    <2>2. \A x \in K : x \in Nat /\ 0 <= x
      BY <1>1
    <2>3. \A x \in K : x <= 0 => x = 0
      BY <2>2
    <2>4. Min(K) = 0
      BY <2>1, <2>2, <2>3 DEF Min
    <2>5. From(data, 0) = data
      BY SubSeqFull DEF From
    <2> QED BY <1>3, <2>4, <2>5 DEF Trim, K
  <1> QED BY <1>2, <1>3

(* A file is read as that file.                                            *)
LEMMA FileRead ==
    ASSUME NEW id \in Uuids, NEW data \in Seq(Byte), Intact(data), File(id, data, <<>>) # Unread
    PROVE  ParseIncoming(EncodeFilePayload(id, data)) = File(id, data, <<>>)
PROOF
  <1> DEFINE s == EncodeFilePayload(id, data)
  <1>1. Len(data) \in Nat /\ Len(data) > 0
    BY DEF Intact
  <1>2. s = Standard(0, id, 2, data)
    <2>1. Len(id) = 36
      BY UuidFacts
    <2> QED BY <2>1 DEF EncodeFilePayload, Standard
  <1> HIDE DEF s
  <1>3. /\ Len(s) = 40 + Len(data)
        /\ At(s, 0) = 0 /\ ReadU16(s, 1) = 36
        /\ Slice(s, 3, 36) = id /\ IsAscii(id) /\ At(s, 39) = 2
        /\ From(s, 40) = data
    <2>1. 0 \in {0, 1} /\ 2 \in {1, 2}
      OBVIOUS
    <2> QED BY <1>1, <1>2, <2>1, StandardHead
  <1>4. ParseReceipt(s) = Unread
    BY <1>3 DEF ParseReceipt
  <1>5. ParseStandard(s) = File(id, data, <<>>)
    <2>1. ~(Len(s) < 41)
      BY <1>1, <1>3
    <2> QED BY <1>3, <2>1, IntactStays DEF ParseStandard
  <1> QED BY <1>4, <1>5, FirstFit DEF s

(* A message in one of the formats of the daemon is read as what was       *)
(* meant.                                                                  *)
LEMMA OwnRead ==
    ASSUME NEW b, OwnFormat(b), Sendable(b), Meant(b) # Unread,
           b.type \in {"file", "transfer"} => Intact(b.data)
    PROVE  Read(b) = Meant(b)
PROOF
  <1>1. CASE b.type = "text" /\ b.id \in Uuids /\ b.data \in Seq(Byte) /\ IsUtf8(b.data)
    <2>1. Len(b.data) <= 255
      BY <1>1 DEF Sendable
    <2>2. /\ Meant(b) = Message(b.id, b.data)
          /\ Read(b) = ParseIncoming(EncodeMessagePayload(b.id, b.data))
      BY <1>1 DEF Meant, Read, Payload, Private
    <2> QED BY <1>1, <2>1, <2>2, TextRead
  <1>2. CASE b.type = "file" /\ b.id \in Uuids /\ b.data \in Seq(Byte)
    <2>1. /\ Meant(b) = File(b.id, b.data, <<>>)
          /\ Read(b) = ParseIncoming(EncodeFilePayload(b.id, b.data))
      BY <1>2 DEF Meant, Read, Payload, Private
    <2> QED BY <1>2, <2>1, FileRead
  <1>3. CASE b.type = "receipt" /\ b.read \in BOOLEAN /\ b.id \in Uuids /\ b.more \in Seq(Byte)
    <2>1. /\ Meant(b) = Receipt(b.read, b.id)
          /\ Read(b) = ParseIncoming(EncodeReceipt(b.read, b.id) \o b.more)
      BY <1>3 DEF Meant, Read, Payload, Private
    <2> QED BY <1>3, <2>1, ReceiptRead
  <1>4. CASE b.type = "transfer" /\ b.data \in Seq(Byte)
    BY <1>4, IntactStays DEF Meant, Read, Payload, Private, HandleFileTransfer
  <1>5. CASE b.type = "public" /\ b.data \in Seq(Byte) /\ IsUtf8(b.data)
    BY <1>5 DEF Meant, Read, Payload, Private, HandlePublicMessage
  <1> QED BY <1>1, <1>2, <1>3, <1>4, <1>5 DEF OwnFormat

(* What was read is what the handler makes of the message under way.       *)
ParsedInv ==
    /\ body # None => body \in Bodies /\ Sendable(body)
    /\ parsed # None => body # None /\ parsed = Read(body)

(* It is so in every state.                                                *)
LEMMA ParsedAlways == PathSpec => []ParsedInv
PROOF
  <1>1. PathInit => ParsedInv
    BY DEF PathInit, ParsedInv
  <1>2. ParsedInv /\ [PathNext]_pathVars => ParsedInv'
    <2> SUFFICES ASSUME ParsedInv, [PathNext]_pathVars
                 PROVE  ParsedInv'
      OBVIOUS
    <2>1. ASSUME NEW b \in Bodies, Compose(b)
          PROVE  ParsedInv'
      BY <2>1 DEF Compose, ParsedInv
    <2>2. ASSUME NEW p \in Packets, SendOther(p)
          PROVE  ParsedInv'
      BY <2>2 DEF SendOther, ParsedInv
    <2>3. ASSUME NEW i \in FrameIds(pkt), Arrive(i)
          PROVE  ParsedInv'
      <3>1. body' = body /\ (parsed' = parsed \/ (body # None /\ parsed' = Read(body)))
        BY <2>3 DEF Arrive
      <3> QED BY <3>1 DEF ParsedInv
    <2>4. CASE UNCHANGED pathVars
      BY <2>4 DEF pathVars, ParsedInv
    <2> QED BY <2>1, <2>2, <2>3, <2>4 DEF PathNext
  <1> QED BY <1>1, <1>2, PTL DEF PathSpec

(* What the daemon sends is read as what it is: a text, a receipt or a     *)
(* file, private or for everyone, with any id uuid4 makes and any content; *)
(* the formats _parse_incoming tries in turn do not get in each other's    *)
(* way, nor do the formats of other messages sent between.  Of files that  *)
(* is said of those whose beginning is left alone.                         *)
THEOREM OwnMessagesRead ==
    ASSUME \A b \in Bodies : Meant(b) # Unread
    PROVE  PathSpec => [](OwnFormat(body) => ParsedAsSent)
PROOF
  <1>1. ParsedInv => (OwnFormat(body) => ParsedAsSent)
    BY OwnRead DEF ParsedInv, ParsedAsSent
  <1> QED BY <1>1, ParsedAlways, PTL

-----------------------------------------------------------------------------
(* BitchatMessages.  What is read of them is defined by functions that     *)
(* recur: there is one that follows the recursion, and only one, by the    *)
(* least depth where that fails.                                           *)

(* A recursion that ends, its depth bounded, has a function that follows it. *)
WellFounded(D, S, N, depth, stop, base, next, step) ==
    /\ N \in Nat /\ depth \in [D -> 0 .. N] /\ stop \in SUBSET D
    /\ base \in [D -> S] /\ next \in [D -> D] /\ step \in [D \X S -> S]
    /\ \A i \in D \ stop : depth[next[i]] < depth[i]

(* The functions defined for ever smaller depths: a least one missing      *)
(* would follow from the one below it.                                     *)
LEMMA RecursionExists ==
    ASSUME NEW D, NEW S, NEW N, NEW depth, NEW stop, NEW base, NEW next, NEW step,
           WellFounded(D, S, N, depth, stop, base, next, step)
    PROVE  \E f \in [D -> S] :
              \A i \in D : f[i] = IF i \in stop THEN base[i] ELSE step[<<i, f[next[i]]>>]
PROOF
  <1> USE DEF WellFounded
  <1> DEFINE Follows(f, i) == f[i] = IF i \in stop THEN base[i] ELSE step[<<i, f[next[i]]>>]
             Reached(n) == \E f \in [D -> S] : \A i \in D : depth[i] <= n => Follows(f, i)
             Bad == {n \in 0 .. N : ~Reached(n)}
  <1>1. ASSUME Bad # {} PROVE FALSE
    <2>1. PICK n \in Bad : \A k \in Bad : n <= k
      <3>1. Bad \subseteq Nat
        OBVIOUS
      <3> HIDE DEF Bad
      <3> QED BY <1>1, <3>1, LeastNumber
    <2>2. n \in 0 .. N /\ ~Reached(n)
      OBVIOUS
    <2>3. CASE n = 0
      <3>1. \A i \in D : depth[i] <= 0 => Follows(base, i)
        <4> TAKE i \in D
        <4>1. depth[i] \in 0 .. N /\ (i \notin stop => depth[next[i]] \in 0 .. N)
          OBVIOUS
        <4> QED BY <4>1
      <3> HIDE DEF Follows
      <3> QED BY <2>2, <2>3, <3>1
    <2>4. CASE n # 0
      <3>1. n - 1 \in 0 .. N /\ n - 1 \notin Bad
        <4>1. ~(n <= n - 1)
          BY <2>2
        <4> HIDE DEF Bad
        <4> QED BY <2>1, <2>2, <2>4, <4>1
      <3>2. PICK f \in [D -> S] : \A i \in D : depth[i] <= n - 1 => Follows(f, i)
        BY <3>1
      <3> DEFINE g == [i \in D |-> IF depth[i] < n THEN f[i]
                                   ELSE IF i \in stop THEN base[i] ELSE step[<<i, f[next[i]]>>]]
      <3>3. g \in [D -> S]
        OBVIOUS
      <3>4. \A i \in D : depth[i] <= n => Follows(g, i)
        <4> SUFFICES ASSUME NEW i \in D, depth[i] <= n
                     PROVE  Follows(g, i)
          OBVIOUS
        <4>1. depth[i] \in 0 .. N /\ next[i] \in D
          OBVIOUS
        <4>2. i \notin stop => depth[next[i]] < n /\ g[next[i]] = f[next[i]]
          BY <2>2, <4>1
        <4>3. CASE depth[i] < n
          <5>1. depth[i] <= n - 1
            BY <2>2, <4>1, <4>3
          <5>2. Follows(f, i) /\ g[i] = f[i]
            BY <3>2, <4>3, <5>1
          <5> QED BY <4>2, <5>2
        <4>4. CASE ~(depth[i] < n)
          BY <4>2, <4>4
        <4> QED BY <4>3, <4>4
      <3> HIDE DEF g, Follows
      <3> QED BY <2>2, <3>3, <3>4
    <2> QED BY <2>3, <2>4
  <1>2. Reached(N)
    <2> HIDE DEF Reached
    <2> QED BY <1>1
  <1>3. PICK f \in [D -> S] : \A i \in D : depth[i] <= N => Follows(f, i)
    BY <1>2
  <1>4. \A i \in D : depth[i] <= N
    OBVIOUS
  <1> QED BY <1>3, <1>4

(* A payload whose first bytes are those of q.                             *)
Begins(s, q) == Len(q) <= Len(s) /\ \A j \in 1 .. Len(q) : s[j] = q[j]

(* What comes next in a payload: its bytes, at the places after those of   *)
(* q.                                                                      *)
LEMMA BeginsPart ==
    ASSUME NEW S, NEW s \in Seq(S), NEW q \in Seq(S), NEW r \in Seq(S), Begins(s, q \o r)
    PROVE  /\ q \o r \in Seq(S) /\ Len(q \o r) = Len(q) + Len(r) /\ Len(q) + Len(r) <= Len(s)
           /\ Begins(s, q)
           /\ \A j \in 1 .. Len(r) : s[Len(q) + j] = r[j]
           /\ SubSeq(s, Len(q) + 1, Len(q) + Len(r)) = r
PROOF
  <1>1. /\ q \o r \in Seq(S) /\ Len(q \o r) = Len(q) + Len(r)
        /\ \A i \in 1 .. Len(q) + Len(r) :
              (q \o r)[i] = IF i <= Len(q) THEN q[i] ELSE r[i - Len(q)]
    BY ConcatProperties
  <1>2. Len(q) \in Nat /\ Len(r) \in Nat /\ Len(s) \in Nat
    BY LenProperties
  <1>3. Len(q) + Len(r) <= Len(s) /\ \A j \in 1 .. Len(q) + Len(r) : s[j] = (q \o r)[j]
    BY <1>1 DEF Begins
  <1>4. Begins(s, q)
    <2>1. \A j \in 1 .. Len(q) : s[j] = q[j]
      <3> TAKE j \in 1 .. Len(q)
      <3>1. j \in 1 .. Len(q) + Len(r) /\ j <= Len(q)
        BY <1>2
      <3> QED BY <1>1, <1>3, <3>1
    <2> QED BY <1>2, <1>3, <2>1 DEF Begins
  <1>5. \A j \in 1 .. Len(r) : s[Len(q) + j] = r[j]
    <2> TAKE j \in 1 .. Len(r)
    <2>1. Len(q) + j \in 1 .. Len(q) + Len(r) /\ ~(Len(q) + j <= Len(q)) /\ (Len(q) + j) - Len(q) = j
      BY <1>2
    <2> QED BY <1>1, <1>3, <2>1
  <1>6. SubSeq(s, Len(q) + 1, Len(q) + Len(r)) = r
    <2> DEFINE m == Len(q) + 1
               n == Len(q) + Len(r)
    <2>1. m \in Int /\ n \in Int /\ m >= 1 /\ n <= Len(s) /\ n - m + 1 = Len(r) /\ (m <= n <=> Len(r) # 0)
      BY <1>2, <1>3
    <2>2. \A i \in m .. n : s[i] \in S
      <3> TAKE i \in m .. n
      <3>1. i \in 1 .. Len(s)
        BY <1>2, <1>3
      <3> QED BY <3>1, ElementOfSeq
    <2>3. /\ SubSeq(s, m, n) \in Seq(S)
          /\ Len(SubSeq(s, m, n)) = IF m <= n THEN n - m + 1 ELSE 0
          /\ \A i \in 1 .. n - m + 1 : SubSeq(s, m, n)[i] = s[m + i - 1]
      BY <2>1, <2>2, SubSeqProperties
    <2>4. \A i \in 1 .. Len(r) : m + i - 1 = Len(q) + i
      BY <1>2
    <2> HIDE DEF m, n
    <2>5. Len(SubSeq(s, m, n)) = Len(r) /\ \A i \in 1 .. Len(r) : SubSeq(s, m, n)[i] = r[i]
      BY <1>2, <1>5, <2>1, <2>3, <2>4
    <2>6. SubSeq(s, m, n) = r
      BY <2>3, <2>5, SeqEqual
    <2> QED BY <2>6 DEF m, n
  <1> QED BY <1>1, <1>3, <1>4, <1>5, <1>6

(* A sequence no longer than the cut is left whole.                        *)
LEMMA SliceAll ==
    ASSUME NEW S, NEW x \in Seq(S), NEW n \in Nat, Len(x) <= n
    PROVE  Slice(x, 0, n) = x
PROOF
  <1>1. Len(x) \in Nat
    BY LenProperties
  <1>2. (IF 0 + n < Len(x) THEN 0 + n ELSE Len(x)) = Len(x) /\ 0 + 1 = 1
    BY <1>1
  <1> QED BY <1>2, SubSeqFull DEF Slice

(* What ShortStr makes of a string that fits.                              *)
LEMMA ShortStrType ==
    ASSUME NEW x \in Seq(Byte), Len(x) <= 255
    PROVE  /\ ShortStr(x) = <<Len(x)>> \o x /\ <<Len(x)>> \in Seq(Byte)
           /\ ShortStr(x) \in Seq(Byte) /\ Len(ShortStr(x)) = 1 + Len(x)
PROOF
  <1>1. Len(x) \in Nat
    BY LenProperties
  <1>2. Len(x) \in Byte
    BY <1>1, SmallByte
  <1>3. <<Len(x)>> \in Seq(Byte) /\ Len(<<Len(x)>>) = 1
    BY <1>2, Single
  <1>4. ShortStr(x) = <<Len(x)>> \o x
    BY SliceAll DEF ShortStr
  <1> QED BY <1>3, <1>4, ConcatProperties

(* A string is read back where it was written.                             *)
LEMMA StrRead ==
    ASSUME NEW s \in Seq(Byte), NEW q \in Seq(Byte), NEW x \in Seq(Byte), Len(x) <= 255,
           Begins(s, q \o ShortStr(x))
    PROVE  ReadStr(s, Len(q)) = [value |-> x, there |-> TRUE, next |-> Len(q \o ShortStr(x))]
PROOF
  <1> DEFINE n == Len(x)
             p == q \o <<n>>
  <1>1. Len(x) \in Nat /\ Len(q) \in Nat /\ Len(s) \in Nat
    BY LenProperties
  <1>2. ShortStr(x) = <<n>> \o x /\ <<n>> \in Seq(Byte) /\ Len(<<n>>) = 1 /\ <<n>>[1] = n
    BY ShortStrType
  <1>3. q \o ShortStr(x) = p \o x
    <2> DEFINE d == <<n>>
    <2>1. d \in Seq(Byte) /\ ShortStr(x) = d \o x /\ p = q \o d
      BY <1>2
    <2> HIDE DEF d, p
    <2>2. (q \o d) \o x = q \o (d \o x)
      BY <2>1, ConcatAssociative
    <2> QED BY <2>1, <2>2, Zenon
  <1>4. p \in Seq(Byte) /\ Len(p) = Len(q) + 1
    BY <1>2, ConcatProperties
  <1>a. Begins(s, p \o x)
    BY <1>3
  <1> HIDE DEF p
  <1>5. /\ Len(p \o x) = Len(p) + n /\ Len(p) + n <= Len(s) /\ Begins(s, p)
        /\ SubSeq(s, Len(p) + 1, Len(p) + n) = x
    BY <1>4, <1>a, BeginsPart
  <1>6. s[Len(q) + 1] = n
    <2>1. \A j \in 1 .. Len(<<n>>) : s[Len(q) + j] = <<n>>[j]
      BY <1>2, <1>5, BeginsPart DEF p
    <2> QED BY <1>2, <2>1
  <1> HIDE DEF n
  <1>7. At(s, Len(q)) = n
    BY <1>6 DEF At
  <1>8. Slice(s, Len(q) + 1, n) = x
    <2>1. (IF (Len(q) + 1) + n < Len(s) THEN (Len(q) + 1) + n ELSE Len(s)) = Len(p) + n
      BY <1>1, <1>4, <1>5 DEF n
    <2>2. (Len(q) + 1) + 1 = Len(p) + 1
      BY <1>4
    <2> QED BY <1>5, <2>1, <2>2 DEF Slice
  <1>9. ~(Len(q) >= Len(s)) /\ ~(Len(q) + 1 + n > Len(s)) /\ Len(q) + 1 + n = Len(q \o ShortStr(x))
    BY <1>1, <1>3, <1>4, <1>5 DEF n
  <1> QED BY <1>7, <1>8, <1>9 DEF ReadStr

(* Writing behind one another, whichever two first.                        *)
LEMMA BytesAssociate ==
    ASSUME NEW x \in Seq(Byte), NEW y \in Seq(Byte), NEW z \in Seq(Byte)
    PROVE  /\ (x \o y) \o z = x \o (y \o z)
           /\ x \o y \in Seq(Byte) /\ y \o z \in Seq(Byte) /\ (x \o y) \o z \in Seq(Byte)
PROOF
  <1>1. x \o y \in Seq(Byte) /\ y \o z \in Seq(Byte)
    BY ConcatProperties
  <1>2. (x \o y) \o z \in Seq(Byte)
    BY <1>1, ConcatProperties
  <1> QED BY <1>1, <1>2, ConcatAssociative

(* And there is but one such function.                                     *)
Determined(D, N, depth, next, f, g) ==
    /\ N \in Nat /\ depth \in [D -> 0 .. N]
    /\ \A i \in D : \/ f[i] = g[i]
                    \/ /\ next[i] \in D /\ depth[next[i]] < depth[i]
                       /\ f[next[i]] = g[next[i]] => f[i] = g[i]

(* A least depth where they differ contradicts that they agree below.      *)
LEMMA RecursionUnique ==
    ASSUME NEW D, NEW N, NEW depth, NEW next, NEW f, NEW g, Determined(D, N, depth, next, f, g)
    PROVE  \A i \in D : f[i] = g[i]
PROOF
  <1> USE DEF Determined
  <1> DEFINE Wrong == {n \in 0 .. N : \E i \in D : depth[i] = n /\ f[i] # g[i]}
  <1>1. ASSUME Wrong # {} PROVE FALSE
    <2>1. PICK n \in Wrong : \A k \in Wrong : n <= k
      <3>1. Wrong \subseteq Nat
        OBVIOUS
      <3> HIDE DEF Wrong
      <3> QED BY <1>1, <3>1, LeastNumber
    <2>2. PICK i \in D : depth[i] = n /\ f[i] # g[i]
      OBVIOUS
    <2>3. next[i] \in D /\ depth[next[i]] < n /\ f[next[i]] # g[next[i]]
      BY <2>2
    <2>4. depth[next[i]] \in 0 .. N /\ n \in 0 .. N
      BY <2>3
    <2>5. depth[next[i]] \in Wrong
      BY <2>3, <2>4
    <2> HIDE DEF Wrong
    <2> QED BY <2>1, <2>3, <2>4, <2>5
  <1> QED BY <1>1

(* FlattenSeq puts one part behind the parts before it.                    *)
LEMMA FlattenFollows ==
    ASSUME NEW parts \in Seq(Seq(Byte)), Len(parts) > 0
    PROVE  \E f \in [1 .. Len(parts) -> Seq(Byte)] :
              /\ \A i \in 1 .. Len(parts) : f[i] = IF i = 1 THEN parts[i] ELSE f[i - 1] \o parts[i]
              /\ FlattenSeq(parts) = f[Len(parts)]
PROOF
  <1> DEFINE n == Len(parts)
             D == 1 .. n
             S == Seq(Byte)
             depth == [i \in D |-> i]
             base == [i \in D |-> parts[i]]
             next == [i \in D |-> IF i = 1 THEN 1 ELSE i - 1]
             step == [x \in D \X S |-> x[2] \o parts[x[1]]]
             Eqn(f) == f = [i \in D |-> IF i = 1 THEN parts[i] ELSE f[i - 1] \o parts[i]]
             flat == CHOOSE f : Eqn(f)
  <1>1. n \in Nat /\ 1 \in D
    BY LenProperties
  <1>2. \A i \in D : parts[i] \in S
    BY ElementOfSeq
  <1> HIDE DEF n
  <1>3. \A x, y \in S : x \o y \in S
    BY ConcatProperties
  <1>4. /\ depth \in [D -> 0 .. n] /\ base \in [D -> S] /\ next \in [D -> D] /\ {1} \in SUBSET D
        /\ \A i \in D \ {1} : depth[next[i]] < depth[i]
    <2> HIDE DEF S
    <2> QED BY <1>1, <1>2
  <1>5. step \in [D \X S -> S]
    <2> HIDE DEF S, D
    <2> QED BY <1>2, <1>3
  <1>6. PICK f \in [D -> S] :
           \A i \in D : f[i] = IF i \in {1} THEN base[i] ELSE step[<<i, f[next[i]]>>]
    <2> DEFINE stop == {1}
    <2>1. stop \in SUBSET D /\ \A i \in D \ stop : depth[next[i]] < depth[i]
      BY <1>4
    <2> HIDE DEF D, S, depth, base, next, step, stop
    <2>2. WellFounded(D, S, n, depth, stop, base, next, step)
      BY <1>1, <1>4, <1>5, <2>1 DEF WellFounded
    <2>3. \E f \in [D -> S] :
             \A i \in D : f[i] = IF i \in stop THEN base[i] ELSE step[<<i, f[next[i]]>>]
      BY <2>2, RecursionExists
    <2> QED BY <2>3 DEF stop
  <1>7. \A i \in D : f[i] = IF i = 1 THEN parts[i] ELSE f[i - 1] \o parts[i]
    <2> TAKE i \in D
    <2>1. CASE i = 1
      BY <1>6, <2>1
    <2>2. CASE i # 1
      <3>1. i - 1 \in D /\ next[i] = i - 1
        BY <1>1, <2>2
      <3>2. f[i - 1] \in S
        BY <3>1
      <3> HIDE DEF S
      <3>3. step[<<i, f[i - 1]>>] = f[i - 1] \o parts[i]
        BY <3>2
      <3>4. f[i] = step[<<i, f[next[i]]>>]
        BY <1>6, <2>2
      <3> QED BY <2>2, <3>1, <3>3, <3>4
    <2> QED BY <2>1, <2>2
  <1>8. Eqn(f)
    <2> HIDE DEF D, S
    <2>1. f = [i \in D |-> f[i]]
      OBVIOUS
    <2> QED BY <1>7, <2>1
  <1>9. Eqn(flat)
    <2> HIDE DEF Eqn
    <2> QED BY <1>8
  <1>10. \A i \in D : flat[i] = f[i]
    <2>1. \A i \in D : flat[i] = IF i = 1 THEN parts[i] ELSE flat[i - 1] \o parts[i]
      <3> HIDE DEF flat
      <3> QED BY <1>9
    <2> HIDE DEF flat
    <2>2. \A i \in D : \/ flat[i] = f[i]
                       \/ /\ next[i] \in D /\ depth[next[i]] < depth[i]
                          /\ flat[next[i]] = f[next[i]] => flat[i] = f[i]
      <3> SUFFICES ASSUME NEW i \in D, i # 1
                   PROVE  /\ next[i] \in D /\ depth[next[i]] < depth[i]
                          /\ flat[next[i]] = f[next[i]] => flat[i] = f[i]
        BY <1>7, <2>1
      <3>1. i - 1 \in D /\ next[i] = i - 1 /\ depth[i - 1] = i - 1 /\ depth[i] = i
        BY <1>1
      <3> HIDE DEF next, depth, D
      <3>2. flat[i] = flat[i - 1] \o parts[i] /\ f[i] = f[i - 1] \o parts[i]
        BY <1>7, <2>1
      <3>3. i - 1 < i
        BY DEF D
      <3>4. next[i] \in D /\ depth[next[i]] < depth[i]
        BY <3>1, <3>3
      <3>5. flat[next[i]] = f[next[i]] => flat[i] = f[i]
        BY <3>1, <3>2
      <3> QED BY <3>4, <3>5
    <2>3. depth \in [D -> 0 .. n]
      BY <1>4
    <2> HIDE DEF D, depth, next
    <2>4. Determined(D, n, depth, next, flat, f)
      BY <1>1, <2>2, <2>3 DEF Determined
    <2> QED BY <2>4, RecursionUnique
  <1>11. FlattenSeq(parts) = flat[n]
    BY <1>1 DEF FlattenSeq, n
  <1> QED BY <1>1, <1>7, <1>10, <1>11 DEF n

(* What is written part by part begins with what was written before.       *)
LEMMA WrittenInSteps ==
    ASSUME NEW q \in Seq(Byte), NEW parts \in Seq(Seq(Byte)), Len(parts) > 0
    PROVE  \E p \in [0 .. Len(parts) -> Seq(Byte)] :
              /\ p[0] = q /\ p[Len(parts)] = q \o FlattenSeq(parts)
              /\ \A k \in 1 .. Len(parts) : p[k] = p[k - 1] \o parts[k]
PROOF
  <1> DEFINE n == Len(parts)
             S == Seq(Byte)
  <1> HIDE DEF n, S
  <1>1. PICK f \in [1 .. n -> S] :
              /\ \A i \in 1 .. n : f[i] = IF i = 1 THEN parts[i] ELSE f[i - 1] \o parts[i]
              /\ FlattenSeq(parts) = f[n]
    BY FlattenFollows DEF n, S
  <1>2. n \in Nat /\ \A i \in 1 .. n : parts[i] \in S
    BY LenProperties, ElementOfSeq DEF n, S
  <1>3. \A x, y \in S : x \o y \in S
    BY ConcatProperties DEF S
  <1> DEFINE h == [k \in 0 .. n |-> IF k = 0 THEN q ELSE q \o f[k]]
  <1>5. h \in [0 .. n -> S]
    <2>1. q \in S
      BY DEF S
    <2> QED BY <1>1, <1>2, <1>3, <2>1
  <1>6. n > 0
    BY DEF n
  <1>7. h[0] = q /\ h[n] = q \o f[n]
    BY <1>2, <1>6
  <1>8. \A k \in 1 .. n : h[k] = h[k - 1] \o parts[k]
    <2> TAKE k \in 1 .. n
    <2>1. h[k] = q \o f[k]
      BY <1>2
    <2>2. CASE k = 1
      <3>1. k - 1 = 0 /\ f[k] = parts[k]
        <4>1. f[k] = IF k = 1 THEN parts[k] ELSE f[k - 1] \o parts[k]
          BY <1>1
        <4> HIDE DEF h
        <4> QED BY <2>2, <4>1
      <3> QED BY <1>7, <2>1, <3>1
    <2>3. CASE k # 1
      <3>1. k - 1 \in 1 .. n /\ k - 1 \in 0 .. n /\ k - 1 # 0
        BY <1>2, <2>3
      <3>2. f[k] = f[k - 1] \o parts[k] /\ h[k - 1] = q \o f[k - 1]
        BY <1>1, <2>3, <3>1
      <3>3. q \in S /\ f[k - 1] \in S /\ parts[k] \in S
        BY <1>1, <1>2, <3>1 DEF S
      <3>4. (q \o f[k - 1]) \o parts[k] = q \o (f[k - 1] \o parts[k])
        <4> HIDE DEF h
        <4> DEFINE v == f[k - 1]
                   w == parts[k]
        <4>1. v \in Seq(Byte) /\ w \in Seq(Byte)
          BY <3>3 DEF S
        <4> HIDE DEF v, w
        <4>2. (q \o v) \o w = q \o (v \o w)
          BY <4>1, BytesAssociate
        <4> QED BY <4>2 DEF v, w
      <3> QED BY <2>1, <3>2, <3>4
    <2> QED BY <2>2, <2>3
  <1>9. h[n] = q \o FlattenSeq(parts)
    BY <1>1, <1>7
  <1> HIDE DEF h
  <1>10. /\ h \in [0 .. n -> S] /\ h[0] = q /\ h[n] = q \o FlattenSeq(parts)
         /\ \A k \in 1 .. n : h[k] = h[k - 1] \o parts[k]
    BY <1>5, <1>7, <1>8, <1>9
  <1>11. \E g \in [0 .. n -> S] :
            /\ g[0] = q /\ g[n] = q \o FlattenSeq(parts)
            /\ \A k \in 1 .. n : g[k] = g[k - 1] \o parts[k]
    BY <1>10
  <1> QED BY <1>11 DEF n, S

(* A payload that begins with all that was written begins with what was    *)
(* written at every step.                                                  *)
LEMMA StepsBegin ==
    ASSUME NEW s \in Seq(Byte), NEW n \in Nat, NEW p \in [0 .. n -> Seq(Byte)],
           NEW parts, \A k \in 1 .. n : parts[k] \in Seq(Byte) /\ p[k] = p[k - 1] \o parts[k],
           Begins(s, p[n])
    PROVE  \A k \in 0 .. n : Begins(s, p[k])
PROOF
  <1> DEFINE S == Seq(Byte)
             Wrong == {k \in 0 .. n : ~Begins(s, p[n - k])}
  <1>1. ASSUME Wrong # {} PROVE FALSE
    <2>1. PICK k \in Wrong : \A j \in Wrong : k <= j
      <3>1. Wrong \subseteq Nat
        OBVIOUS
      <3> HIDE DEF Wrong
      <3> QED BY <1>1, <3>1, LeastNumber
    <2>2. k \in 0 .. n /\ ~Begins(s, p[n - k])
      OBVIOUS
    <2>3. k # 0
      BY <2>2
    <2>4. k - 1 \in 0 .. n /\ ~(k <= k - 1) /\ n - (k - 1) \in 1 .. n /\ n - (k - 1) - 1 = n - k
          /\ n - k \in 0 .. n
      BY <2>2, <2>3
    <2>5. k - 1 \notin Wrong
      <3> HIDE DEF Wrong
      <3> QED BY <2>1, <2>4
    <2>6. Begins(s, p[n - (k - 1)])
      BY <2>4, <2>5
    <2>7. /\ p[n - (k - 1)] = p[n - k] \o parts[n - (k - 1)]
          /\ p[n - k] \in S /\ parts[n - (k - 1)] \in S
      <3> HIDE DEF S
      <3> QED BY <2>4 DEF S
    <2>8. Begins(s, p[n - k])
      BY <2>6, <2>7, BeginsPart
    <2> QED BY <2>2, <2>8
  <1>2. \A k \in 0 .. n : n - k \in 0 .. n /\ n - (n - k) = k
    OBVIOUS
  <1> QED BY <1>1, <1>2

(* A string cut to n bytes has at most n.                                  *)
LEMMA Cut ==
    ASSUME NEW x \in Seq(Byte), NEW n \in Nat
    PROVE  Slice(x, 0, n) \in Seq(Byte) /\ Len(Slice(x, 0, n)) <= n
PROOF
  <1> DEFINE e == IF 0 + n < Len(x) THEN 0 + n ELSE Len(x)
  <1>1. Len(x) \in Nat /\ e \in Nat /\ e <= n /\ e <= Len(x)
    BY LenProperties
  <1> HIDE DEF e
  <1>2. \A i \in 1 .. e : x[i] \in Byte
    <2> TAKE i \in 1 .. e
    <2>1. i \in 1 .. Len(x)
      BY <1>1
    <2> QED BY <2>1, ElementOfSeq
  <1>3. /\ SubSeq(x, 1, e) \in Seq(Byte)
        /\ Len(SubSeq(x, 1, e)) = IF 1 <= e THEN e - 1 + 1 ELSE 0
    <2>1. 1 \in Int /\ e \in Int
      BY <1>1
    <2> QED BY <1>2, <2>1, SubSeqProperties
  <1>4. Slice(x, 0, n) = SubSeq(x, 1, e)
    BY DEF Slice, e
  <1> QED BY <1>1, <1>3, <1>4

(* What is read is a string, and the reading goes on in the payload.       *)
LEMMA ReadStrType ==
    ASSUME NEW s \in Seq(Byte), NEW i \in Nat
    PROVE  /\ ReadStr(s, i).value \in Seq(Byte) /\ ReadStr(s, i).there \in BOOLEAN
           /\ ReadStr(s, i).next \in Nat
PROOF
  <1>1. Len(s) \in Nat /\ <<>> \in Seq(Byte)
    BY LenProperties, EmptySeq
  <1>2. CASE i >= Len(s)
    BY <1>1, <1>2 DEF ReadStr
  <1>3. CASE i < Len(s)
    <2>1. At(s, i) \in Nat
      <3>1. i + 1 \in 1 .. Len(s)
        BY <1>1, <1>3
      <3>2. s[i + 1] \in Byte
        BY <3>1, ElementOfSeq
      <3>3. \A x \in Byte : x \in Nat
        BY DEF Byte
      <3> QED BY <3>2, <3>3 DEF At
    <2>2. CASE i + 1 + At(s, i) > Len(s)
      BY <1>1, <1>3, <2>2 DEF ReadStr
    <2>3. CASE ~(i + 1 + At(s, i) > Len(s))
      <3> DEFINE n == At(s, i)
                 e == IF (i + 1) + n < Len(s) THEN (i + 1) + n ELSE Len(s)
                 v == Slice(s, i + 1, n)
      <3>1. e \in Nat /\ e <= Len(s) /\ (i + 1) + 1 \in Nat /\ (i + 1) + 1 >= 1
        BY <1>1, <2>1
      <3>2. v = SubSeq(s, (i + 1) + 1, e)
        BY DEF Slice
      <3> HIDE DEF e
      <3>3. \A j \in (i + 1) + 1 .. e : s[j] \in Byte
        <4> TAKE j \in (i + 1) + 1 .. e
        <4>1. j \in 1 .. Len(s)
          BY <1>1, <3>1
        <4> QED BY <4>1, ElementOfSeq
      <3>4. v \in Seq(Byte)
        <4>1. (i + 1) + 1 \in Int /\ e \in Int
          BY <3>1
        <4> DEFINE a == (i + 1) + 1
        <4> HIDE DEF a, v
        <4>2. SubSeq(s, a, e) \in Seq(Byte)
          BY <3>3, <4>1, SubSeqProperties DEF a
        <4> QED BY <3>2, <4>2 DEF a
      <3>5. ReadStr(s, i) = [value |-> v, there |-> TRUE, next |-> i + 1 + n]
        BY <1>1, <1>3, <2>3 DEF ReadStr
      <3> HIDE DEF v
      <3> QED BY <2>1, <3>4, <3>5
    <2> QED BY <2>2, <2>3
  <1> QED BY <1>1, <1>2, <1>3

(* A field that may be missing is read back where it was written, when its *)
(* flag says whether it is there.                                          *)
LEMMA OptionalRead ==
    ASSUME NEW s \in Seq(Byte), NEW q \in Seq(Byte), NEW x \in Seq(Byte), Len(x) <= 255, NEW b,
           Begins(s, q \o OptionalStr(x)), HasFlag(At(s, 0), b) <=> x # <<>>
    PROVE  /\ ReadOptional(s, b, Len(q)).value = x
           /\ ReadOptional(s, b, Len(q)).next = Len(q \o OptionalStr(x))
           /\ q \o OptionalStr(x) \in Seq(Byte) /\ Begins(s, q)
PROOF
  <1>1. CASE x = <<>>
    <2>1. OptionalStr(x) = <<>>
      BY <1>1 DEF OptionalStr
    <2>2. q \o <<>> = q
      BY ConcatEmptySeq
    <2>3. ReadOptional(s, b, Len(q)) = [value |-> <<>>, there |-> FALSE, next |-> Len(q)]
      BY <1>1 DEF ReadOptional
    <2>4. Begins(s, q) /\ q \o OptionalStr(x) = q
      BY <2>1, <2>2
    <2>5. /\ ReadOptional(s, b, Len(q)).value = <<>>
          /\ ReadOptional(s, b, Len(q)).next = Len(q)
      BY <2>3
    <2> QED BY <1>1, <2>4, <2>5, Zenon
  <1>2. CASE x # <<>>
    <2>1. OptionalStr(x) = ShortStr(x)
      BY <1>2 DEF OptionalStr
    <2>2. ShortStr(x) \in Seq(Byte) /\ Len(ShortStr(x)) = 1 + Len(x)
      BY ShortStrType
    <2>3. /\ q \o ShortStr(x) \in Seq(Byte) /\ Len(q) + Len(ShortStr(x)) <= Len(s)
          /\ Begins(s, q)
      BY <2>1, <2>2, BeginsPart
    <2>4. Len(q) < Len(s)
      <3>1. Len(x) \in Nat /\ Len(q) \in Nat /\ Len(s) \in Nat
        BY LenProperties
      <3> QED BY <2>2, <2>3, <3>1
    <2>5. ReadStr(s, Len(q)) = [value |-> x, there |-> TRUE, next |-> Len(q \o ShortStr(x))]
      BY <2>1, StrRead
    <2>6. ReadOptional(s, b, Len(q)) = ReadStr(s, Len(q))
      BY <1>2, <2>4 DEF ReadOptional
    <2> QED BY <2>1, <2>3, <2>5, <2>6
  <1> QED BY <1>1, <1>2

(* Reading a bit of the flags.                                             *)
LEMMA Bits ==
    ASSUME NEW a \in {0, 1}, NEW b \in {0, 1}, NEW c \in {0, 1}, NEW d \in {0, 1},
           NEW e \in {0, 1}, NEW f \in {0, 1}, NEW g \in {0, 1}, NEW h \in {0, 1}
    PROVE  LET n == a + 2 * b + 4 * c + 8 * d + 16 * e + 32 * f + 64 * g + 128 * h
           IN  /\ n \in Byte
               /\ (n \div 1) % 2 = a /\ (n \div 2) % 2 = b /\ (n \div 4) % 2 = c
               /\ (n \div 8) % 2 = d /\ (n \div 16) % 2 = e /\ (n \div 32) % 2 = f
               /\ (n \div 64) % 2 = g /\ (n \div 128) % 2 = h
PROOF
  <1> DEFINE n == a + 2 * b + 4 * c + 8 * d + 16 * e + 32 * f + 64 * g + 128 * h
  <1>1. n \in Byte
    BY DEF Byte
  <1>2. n \div 1 = n /\ n \div 2 = b + 2 * c + 4 * d + 8 * e + 16 * f + 32 * g + 64 * h
    OBVIOUS
  <1>3. /\ n \div 4 = c + 2 * d + 4 * e + 8 * f + 16 * g + 32 * h
        /\ n \div 8 = d + 2 * e + 4 * f + 8 * g + 16 * h
    OBVIOUS
  <1>4. n \div 16 = e + 2 * f + 4 * g + 8 * h /\ n \div 32 = f + 2 * g + 4 * h
    OBVIOUS
  <1>5. n \div 64 = g + 2 * h /\ n \div 128 = h
    OBVIOUS
  <1>6. n % 2 = a /\ (n \div 2) % 2 = b
    BY <1>2
  <1>7. (n \div 4) % 2 = c /\ (n \div 8) % 2 = d
    BY <1>3
  <1>8. (n \div 16) % 2 = e /\ (n \div 32) % 2 = f
    BY <1>4
  <1>9. (n \div 64) % 2 = g /\ (n \div 128) % 2 = h
    BY <1>5
  <1> QED BY <1>1, <1>2, <1>6, <1>7, <1>8, <1>9

(* The strings behind one another are read back, one by one.               *)
ReadsBack(s, n, p, M) ==
    \A k \in 1 .. n : ReadStr(s, Len(p[k - 1])) =
                          [value |-> M[k], there |-> TRUE, next |-> Len(p[k])]

(* The function ReadMentions is: what was read of the strings, and where   *)
(* the next one is.                                                        *)
MentionsFollow(s, i, f) ==
    f = [k \in 0 .. 255 |->
            IF k = 0 THEN [found |-> <<>>, next |-> i + 1]
            ELSE LET m == ReadStr(s, f[k - 1].next)
                 IN [found |-> IF m.there THEN Append(f[k - 1].found, m.value)
                               ELSE f[k - 1].found,
                     next |-> m.next]]

(* There is such a function.                                               *)
LEMMA MentionsExist ==
    ASSUME NEW s \in Seq(Byte), NEW i \in Nat
    PROVE  \E f : MentionsFollow(s, i, f)
PROOF
  <1> DEFINE T == Seq(Byte)
             U == Seq(T)
             D == 0 .. 255
             S == [found : U, next : Nat]
             depth == [k \in D |-> k]
             stop == {0}
             first == [found |-> <<>>, next |-> i + 1]
             base == [k \in D |-> first]
             next == [k \in D |-> IF k = 0 THEN 0 ELSE k - 1]
             Further(x) == LET m == ReadStr(s, x.next)
                           IN [found |-> IF m.there THEN Append(x.found, m.value) ELSE x.found,
                               next |-> m.next]
             step == [x \in D \X S |-> Further(x[2])]
  <1>1. first \in S
    <2>1. <<>> \in U
      BY EmptySeq
    <2> HIDE DEF U
    <2> QED BY <2>1
  <1>2. ASSUME NEW x \in S PROVE Further(x) \in S
    <2>1. x.found \in U /\ x.next \in Nat
      <3> HIDE DEF U
      <3> QED OBVIOUS
    <2> DEFINE m == ReadStr(s, x.next)
    <2>2. m.value \in T /\ m.next \in Nat
      BY <2>1, ReadStrType
    <2> HIDE DEF m, T
    <2>3. Append(x.found, m.value) \in U
      BY <2>1, <2>2, AppendProperties
    <2> HIDE DEF U
    <2>4. [found |-> IF m.there THEN Append(x.found, m.value) ELSE x.found, next |-> m.next] \in S
      BY <2>1, <2>2, <2>3
    <2> QED BY <2>4 DEF m
  <1>3. /\ depth \in [D -> 0 .. 255] /\ stop \in SUBSET D /\ next \in [D -> D]
        /\ \A k \in D \ stop : depth[next[k]] < depth[k]
    <2> HIDE DEF S, first, Further, base, step, T, U
    <2>1. depth \in [D -> 0 .. 255] /\ stop \in SUBSET D /\ next \in [D -> D]
      OBVIOUS
    <2>2. \A k \in D \ stop : next[k] = k - 1 /\ k - 1 \in D /\ depth[k] = k /\ depth[k - 1] = k - 1
      <3> TAKE k \in D \ stop
      <3>1. k \in D /\ k # 0 /\ k - 1 \in D
        OBVIOUS
      <3> HIDE DEF D
      <3> QED BY <3>1
    <2>3. \A k \in D : k - 1 < k
      OBVIOUS
    <2> HIDE DEF D, depth, stop, next
    <2> QED BY <2>1, <2>2, <2>3
  <1>4. base \in [D -> S] /\ step \in [D \X S -> S]
    <2> HIDE DEF S, D, first, Further
    <2>1. \A x \in D \X S : x[2] \in S
      OBVIOUS
    <2>2. \A x \in S : Further(x) \in S
      BY <1>2
    <2> QED BY <1>1, <2>1, <2>2
  <1>5. WellFounded(D, S, 255, depth, stop, base, next, step)
    <2> HIDE DEF D, S, depth, stop, base, next, step
    <2> QED BY <1>3, <1>4 DEF WellFounded
  <1>6. PICK f \in [D -> S] :
           \A k \in D : f[k] = IF k \in stop THEN base[k] ELSE step[<<k, f[next[k]]>>]
    <2> HIDE DEF D, S, depth, stop, base, next, step
    <2> QED BY <1>5, RecursionExists
  <1>7. \A k \in D : f[k] = IF k = 0 THEN first ELSE Further(f[k - 1])
    <2> TAKE k \in D
    <2> HIDE DEF S, first, Further
    <2>1. CASE k = 0
      BY <1>6, <2>1
    <2>2. CASE k # 0
      <3>1. k - 1 \in D /\ next[k] = k - 1 /\ k \notin stop
        BY <2>2
      <3>2. f[k - 1] \in S
        BY <3>1
      <3>3. f[k] = step[<<k, f[k - 1]>>]
        <4> HIDE DEF step, base, stop, next, D
        <4> QED BY <1>6, <3>1
      <3>4. step[<<k, f[k - 1]>>] = Further(f[k - 1])
        <4> HIDE DEF D
        <4> QED BY <3>2
      <3> HIDE DEF step
      <3> QED BY <2>2, <3>3, <3>4
    <2> QED BY <2>1, <2>2
  <1>8. f = [k \in D |-> IF k = 0 THEN first ELSE Further(f[k - 1])]
    <2> HIDE DEF D, S, first, Further
    <2>1. f = [k \in D |-> f[k]]
      OBVIOUS
    <2> QED BY <1>7, <2>1
  <1>9. MentionsFollow(s, i, f)
    BY <1>8 DEF MentionsFollow
  <1> QED BY <1>9

(* The first k entries are the first k - 1 and the one there.              *)
LEMMA FirstEntries ==
    ASSUME NEW S, NEW M \in Seq(S), NEW k \in 1 .. Len(M)
    PROVE  SubSeq(M, 1, k) = Append(SubSeq(M, 1, k - 1), M[k])
PROOF
  <1> DEFINE a == SubSeq(M, 1, k)
             b == SubSeq(M, 1, k - 1)
  <1>1. Len(M) \in Nat /\ k \in Int /\ k - 1 \in Int /\ k >= 1 /\ k <= Len(M)
    BY LenProperties
  <1>2. \A i \in 1 .. k : M[i] \in S
    <2> TAKE i \in 1 .. k
    <2>1. i \in 1 .. Len(M)
      BY <1>1
    <2> QED BY <2>1, ElementOfSeq
  <1>3. /\ a \in Seq(S) /\ Len(a) = IF 1 <= k THEN k - 1 + 1 ELSE 0
        /\ \A i \in 1 .. k - 1 + 1 : a[i] = M[1 + i - 1]
    <2>1. 1 \in Int /\ k \in Int
      BY <1>1
    <2> QED BY <1>2, <2>1, SubSeqProperties
  <1>4. /\ b \in Seq(S) /\ Len(b) = IF 1 <= k - 1 THEN (k - 1) - 1 + 1 ELSE 0
        /\ \A i \in 1 .. (k - 1) - 1 + 1 : b[i] = M[1 + i - 1]
    <2>1. 1 \in Int /\ k - 1 \in Int
      BY <1>1
    <2>2. \A i \in 1 .. k - 1 : M[i] \in S
      <3> TAKE i \in 1 .. k - 1
      <3>1. i \in 1 .. k
        BY <1>1
      <3> QED BY <1>2, <3>1
    <2> DEFINE e == k - 1
    <2> HIDE DEF e
    <2>3. /\ SubSeq(M, 1, e) \in Seq(S) /\ Len(SubSeq(M, 1, e)) = IF 1 <= e THEN e - 1 + 1 ELSE 0
          /\ \A i \in 1 .. e - 1 + 1 : SubSeq(M, 1, e)[i] = M[1 + i - 1]
      BY <2>1, <2>2, SubSeqProperties DEF e
    <2> QED BY <2>3 DEF e
  <1> HIDE DEF a, b
  <1>5. Len(a) = k /\ Len(b) = k - 1 /\ M[k] \in S
    BY <1>1, <1>2, <1>3, <1>4
  <1>6. /\ Append(b, M[k]) \in Seq(S) /\ Len(Append(b, M[k])) = k
        /\ \A i \in 1 .. k - 1 : Append(b, M[k])[i] = b[i]
        /\ Append(b, M[k])[k] = M[k]
    <2>1. /\ Append(b, M[k]) \in Seq(S) /\ Len(Append(b, M[k])) = Len(b) + 1
          /\ \A i \in 1 .. Len(b) : Append(b, M[k])[i] = b[i]
          /\ Append(b, M[k])[Len(b) + 1] = M[k]
      BY <1>4, <1>5, AppendProperties
    <2>2. Len(b) + 1 = k
      BY <1>1, <1>5
    <2> QED BY <1>5, <2>1, <2>2
  <1>7. \A i \in 1 .. k : a[i] = Append(b, M[k])[i]
    <2> TAKE i \in 1 .. k
    <2>1. a[i] = M[i]
      <3>1. i \in 1 .. k - 1 + 1 /\ 1 + i - 1 = i
        BY <1>1
      <3> QED BY <1>3, <3>1
    <2>2. CASE i = k
      BY <1>6, <2>1, <2>2
    <2>3. CASE i # k
      <3>1. i \in 1 .. (k - 1) - 1 + 1 /\ 1 + i - 1 = i /\ i \in 1 .. k - 1
        BY <1>1, <2>3
      <3>2. b[i] = M[i]
        BY <1>4, <3>1
      <3> QED BY <1>6, <2>1, <3>1, <3>2
    <2> QED BY <2>2, <2>3
  <1>8. a = Append(b, M[k])
    BY <1>3, <1>5, <1>6, <1>7, SeqEqual
  <1> QED BY <1>8 DEF a, b

(* The strings written where ReadMentions looks for them, and that it      *)
(* finds them.                                                             *)
EntriesThere(s, i, f, p, M) ==
    /\ i \in Nat /\ M \in Seq(Seq(Byte)) /\ Len(M) <= 255
    /\ MentionsFollow(s, i, f) /\ Len(p[0]) = i + 1 /\ ReadsBack(s, Len(M), p, M)

EntriesDone(f, p, M) == f[Len(M)] = [found |-> M, next |-> Len(p[Len(M)])]

(* By the least k whose first k strings were not found.                    *)
LEMMA EntriesRead ==
    ASSUME NEW s, NEW i, NEW f, NEW p, NEW M, EntriesThere(s, i, f, p, M)
    PROVE  EntriesDone(f, p, M)
PROOF
  <1>0. /\ i \in Nat /\ M \in Seq(Seq(Byte)) /\ Len(M) <= 255
        /\ MentionsFollow(s, i, f) /\ Len(p[0]) = i + 1 /\ ReadsBack(s, Len(M), p, M)
    BY DEF EntriesThere
  <1> DEFINE n == Len(M)
             D == 0 .. n
             g == [k \in D |-> [found |-> SubSeq(M, 1, k), next |-> Len(p[k])]]
             depth == [k \in D |-> k]
             next == [k \in D |-> k - 1]
  <1>1. n \in Nat /\ n <= 255
    BY <1>0, LenProperties
  <1> HIDE DEF n
  <1>2. /\ f[0] = [found |-> <<>>, next |-> i + 1]
        /\ \A k \in 1 .. 255 :
              LET m == ReadStr(s, f[k - 1].next)
              IN f[k] = [found |-> IF m.there THEN Append(f[k - 1].found, m.value)
                                   ELSE f[k - 1].found,
                         next |-> m.next]
    <2> DEFINE Further(x) == LET m == ReadStr(s, x.next)
                             IN [found |-> IF m.there THEN Append(x.found, m.value) ELSE x.found,
                                 next |-> m.next]
               first == [found |-> <<>>, next |-> i + 1]
               h == [k \in 0 .. 255 |-> IF k = 0 THEN first ELSE Further(f[k - 1])]
    <2>1. f = h
      BY <1>0 DEF MentionsFollow
    <2>2. h[0] = first /\ \A k \in 1 .. 255 : h[k] = Further(f[k - 1])
      <3> HIDE DEF first, Further
      <3> QED OBVIOUS
    <2> HIDE DEF h, Further, first
    <2>3. f[0] = first /\ \A k \in 1 .. 255 : f[k] = Further(f[k - 1])
      BY <2>1, <2>2
    <2> QED BY <2>3 DEF Further, first
  <1>3. f[0] = g[0]
    <2>1. SubSeq(M, 1, 0) = <<>>
      BY SubSeqEmpty
    <2>2. Len(p[0]) = i + 1
      BY <1>0
    <2>3. 0 \in D
      BY <1>1
    <2> HIDE DEF D
    <2>4. g[0] = [found |-> SubSeq(M, 1, 0), next |-> Len(p[0])]
      BY <2>3
    <2> HIDE DEF g
    <2> QED BY <1>2, <2>1, <2>2, <2>4
  <1>4. ASSUME NEW k \in 1 .. n, f[k - 1] = g[k - 1] PROVE f[k] = g[k]
    <2>1. k - 1 \in D /\ k \in D /\ k \in 1 .. 255
      BY <1>1
    <2>2. f[k - 1].found = SubSeq(M, 1, k - 1) /\ f[k - 1].next = Len(p[k - 1])
      BY <1>4, <2>1
    <2>3. ReadStr(s, f[k - 1].next) = [value |-> M[k], there |-> TRUE, next |-> Len(p[k])]
      BY <1>0, <2>2 DEF ReadsBack, n
    <2>4. f[k] = [found |-> Append(SubSeq(M, 1, k - 1), M[k]), next |-> Len(p[k])]
      <3> HIDE DEF g, D
      <3> DEFINE m == ReadStr(s, f[k - 1].next)
      <3>1. m.there = TRUE /\ m.value = M[k] /\ m.next = Len(p[k])
        BY <2>3
      <3>2. f[k] = [found |-> IF m.there THEN Append(f[k - 1].found, m.value) ELSE f[k - 1].found,
                    next |-> m.next]
        BY <1>2, <2>1
      <3> HIDE DEF m
      <3> QED BY <2>2, <3>1, <3>2
    <2>5. SubSeq(M, 1, k) = Append(SubSeq(M, 1, k - 1), M[k])
      BY <1>0, FirstEntries DEF n
    <2>6. g[k] = [found |-> SubSeq(M, 1, k), next |-> Len(p[k])]
      BY <2>1
    <2> QED BY <2>4, <2>5, <2>6
  <1>5. \A k \in D : \/ f[k] = g[k]
                   \/ /\ next[k] \in D /\ depth[next[k]] < depth[k]
                      /\ f[next[k]] = g[next[k]] => f[k] = g[k]
    <2> SUFFICES ASSUME NEW k \in D, k # 0
                 PROVE  /\ next[k] \in D /\ depth[next[k]] < depth[k]
                        /\ f[next[k]] = g[next[k]] => f[k] = g[k]
      BY <1>3
    <2>1. k \in 1 .. n /\ next[k] = k - 1 /\ k - 1 \in D /\ depth[k - 1] = k - 1 /\ depth[k] = k
          /\ k - 1 < k
      BY <1>1
    <2> HIDE DEF D, g, depth, next
    <2> QED BY <1>4, <2>1
  <1>6. depth \in [D -> 0 .. n]
    BY <1>1
  <1>7. n \in D /\ g[n] = [found |-> SubSeq(M, 1, n), next |-> Len(p[n])]
    BY <1>1
  <1>8. \A k \in D : f[k] = g[k]
    <2> HIDE DEF D, depth, next, g
    <2>1. Determined(D, n, depth, next, f, g)
      BY <1>1, <1>5, <1>6 DEF Determined
    <2> QED BY <2>1, RecursionUnique
  <1>9. SubSeq(M, 1, n) = M
    BY <1>0, SubSeqFull DEF n
  <1>10. f[n] = [found |-> M, next |-> Len(p[n])]
    <2> HIDE DEF D, g
    <2> QED BY <1>7, <1>8, <1>9
  <1> QED BY <1>10 DEF n, EntriesDone

(* What is written of the mentions: their number, then one behind another. *)
LEMMA MentionsWritten ==
    ASSUME NEW M \in Seq(Seq(Byte)), M # <<>>, Len(M) <= 255,
           \A k \in 1 .. Len(M) : Len(M[k]) <= 255
    PROVE  \E parts \in Seq(Seq(Byte)) :
              /\ Len(parts) = Len(M) /\ Len(M) \in Nat /\ Len(M) > 0
              /\ \A k \in 1 .. Len(M) : M[k] \in Seq(Byte) /\ parts[k] = ShortStr(M[k])
              /\ <<Len(M)>> \in Seq(Byte) /\ FlattenSeq(parts) \in Seq(Byte)
              /\ MentionStrs(M) = <<Len(M)>> \o FlattenSeq(parts)
              /\ MentionStrs(M) \in Seq(Byte)
PROOF
  <1> DEFINE T == Seq(Byte)
             n == Len(M)
             parts == [k \in 1 .. n |-> ShortStr(M[k])]
             w == FlattenSeq(parts)
             d == <<n>>
  <1>1. n \in Nat /\ n > 0 /\ DOMAIN M = 1 .. n /\ n \in Byte
    <2>1. n \in Nat /\ DOMAIN M = 1 .. n
      BY LenProperties
    <2>2. n # 0
      BY EmptySeq
    <2> QED BY <2>1, <2>2, SmallByte
  <1>2. MentionStrs(M) = d \o w
    <2>1. Slice(M, 0, 255) = M
      BY SliceAll
    <2> QED BY <1>1, <2>1 DEF MentionStrs
  <1>3. \A k \in 1 .. n : M[k] \in T /\ ShortStr(M[k]) \in T
    <2> TAKE k \in 1 .. n
    <2>1. M[k] \in T
      BY ElementOfSeq
    <2> QED BY <2>1, ShortStrType
  <1>4. parts \in Seq(T) /\ Len(parts) = n /\ \A k \in 1 .. n : parts[k] = ShortStr(M[k])
    <2> HIDE DEF n, T, w
    <2>1. parts \in [1 .. n -> T] /\ \A k \in 1 .. n : parts[k] = ShortStr(M[k])
      BY <1>3
    <2> HIDE DEF parts
    <2>2. parts \in Seq(T)
      BY <1>1, <2>1, SeqDef
    <2>3. DOMAIN parts = 1 .. n
      BY <2>1
    <2>4. DOMAIN parts = 1 .. Len(parts) /\ Len(parts) \in Nat
      BY <2>2, LenProperties
    <2>5. Len(parts) = n
      BY <1>1, <2>3, <2>4
    <2> QED BY <2>1, <2>2, <2>5
  <1>5. d \in Seq(Byte)
    BY <1>1, Single
  <1> HIDE DEF n, parts, d
  <1>6. w \in Seq(Byte)
    <2>1. PICK e \in [1 .. Len(parts) -> Seq(Byte)] : FlattenSeq(parts) = e[Len(parts)]
      BY <1>1, <1>4, FlattenFollows
    <2>2. Len(parts) \in 1 .. Len(parts)
      BY <1>1, <1>4
    <2> QED BY <2>1, <2>2
  <1> HIDE DEF w
  <1>7. d \o w \in Seq(Byte)
    BY <1>5, <1>6, BytesAssociate
  <1> QED BY <1>1, <1>2, <1>3, <1>4, <1>5, <1>6, <1>7 DEF n, d, w

(* The mentions are read back where they were written.                     *)
LEMMA MentionsRead ==
    ASSUME NEW s \in Seq(Byte), NEW q \in Seq(Byte), NEW M \in Seq(Seq(Byte)),
           Len(M) <= 255, \A k \in 1 .. Len(M) : Len(M[k]) <= 255,
           Begins(s, q \o MentionStrs(M)), HasFlag(At(s, 0), 32) <=> M # <<>>
    PROVE  /\ ReadMentions(s, Len(q)) = [found |-> M, next |-> Len(q \o MentionStrs(M))]
           /\ q \o MentionStrs(M) \in Seq(Byte) /\ Begins(s, q)
PROOF
  <1>0. Slice(M, 0, 255) = M
    BY SliceAll
  <1>1. CASE M = <<>>
    <2>1. MentionStrs(M) = <<>>
      BY <1>0, <1>1 DEF MentionStrs
    <2>2. q \o <<>> = q
      BY ConcatEmptySeq
    <2>3. ReadMentions(s, Len(q)) = [found |-> <<>>, next |-> Len(q)]
      BY <1>1 DEF ReadMentions
    <2>4. Begins(s, q) /\ q \o MentionStrs(M) = q
      BY <2>1, <2>2
    <2> QED BY <1>1, <2>3, <2>4, Zenon
  <1>2. CASE M # <<>>
    <2> DEFINE T == Seq(Byte)
               n == Len(M)
               q1 == q \o <<n>>
    <2>1. PICK parts \in Seq(T) :
             /\ Len(parts) = n /\ n \in Nat /\ n > 0
             /\ \A k \in 1 .. n : M[k] \in T /\ parts[k] = ShortStr(M[k])
             /\ <<n>> \in T /\ FlattenSeq(parts) \in T
             /\ MentionStrs(M) = <<n>> \o FlattenSeq(parts)
             /\ MentionStrs(M) \in T
      BY <1>2, MentionsWritten
    <2>3. \A k \in 1 .. n : M[k] \in T /\ ShortStr(M[k]) \in T
      <3> TAKE k \in 1 .. n
      <3>1. M[k] \in T
        BY <2>1
      <3> QED BY <3>1, ShortStrType
    <2>4. parts \in Seq(T) /\ Len(parts) = n
      BY <2>1
    <2>5. <<n>> \in Seq(Byte) /\ Len(<<n>>) = 1 /\ <<n>>[1] = n
      BY <2>1
    <2>6. q1 \in Seq(Byte) /\ Len(q1) = Len(q) + 1
      <3> HIDE DEF n
      <3> QED BY <2>5, ConcatProperties
    <2> HIDE DEF q1, n
    <2>7. PICK p \in [0 .. n -> T] :
             /\ p[0] = q1 /\ p[n] = q1 \o FlattenSeq(parts)
             /\ \A k \in 1 .. n : p[k] = p[k - 1] \o parts[k]
      <3>1. \E p \in [0 .. Len(parts) -> Seq(Byte)] :
               /\ p[0] = q1 /\ p[Len(parts)] = q1 \o FlattenSeq(parts)
               /\ \A k \in 1 .. Len(parts) : p[k] = p[k - 1] \o parts[k]
        BY <2>1, <2>4, <2>6, WrittenInSteps
      <3> QED BY <2>4, <3>1
    <2>8. q \o MentionStrs(M) = p[n]
      <3> DEFINE w == FlattenSeq(parts)
                 d == <<n>>
      <3>1. w \in Seq(Byte)
        BY <2>1
      <3> HIDE DEF w, d
      <3>2. d \in Seq(Byte) /\ q \in Seq(Byte)
        BY <2>5 DEF d
      <3>3. (q \o d) \o w = q \o (d \o w)
        BY ONLY <3>1, <3>2, BytesAssociate
      <3>4. q1 = q \o d /\ MentionStrs(M) = d \o w /\ p[n] = q1 \o w
        BY <2>1, <2>7 DEF w, d, q1
      <3> QED BY <3>3, <3>4, Zenon
    <2>9. \A k \in 1 .. n : /\ parts[k] \in Seq(Byte) /\ p[k] = p[k - 1] \o parts[k]
                            /\ parts[k] = ShortStr(M[k])
      BY <2>1, <2>3, <2>7
    <2>10. \A k \in 0 .. n : Begins(s, p[k])
      <3>1. Begins(s, p[n])
        BY <2>8
      <3>2. p \in [0 .. n -> Seq(Byte)]
        OBVIOUS
      <3>3. \A k \in 1 .. n : parts[k] \in Seq(Byte) /\ p[k] = p[k - 1] \o parts[k]
        BY <2>9
      <3> HIDE DEF T
      <3> QED BY <2>1, <3>1, <3>2, <3>3, StepsBegin
    <2>11. ReadsBack(s, n, p, M)
      <3> SUFFICES ASSUME NEW k \in 1 .. n
                   PROVE  ReadStr(s, Len(p[k - 1])) =
                              [value |-> M[k], there |-> TRUE, next |-> Len(p[k])]
        BY DEF ReadsBack
      <3> DEFINE a == p[k - 1]
                 x == M[k]
      <3>1. k \in 0 .. n /\ k - 1 \in 0 .. n
        BY <2>1
      <3>2. a \in Seq(Byte) /\ x \in Seq(Byte) /\ Len(x) <= 255
        BY <2>3, <2>7, <3>1 DEF n
      <3>3. p[k] = a \o ShortStr(x) /\ Begins(s, p[k])
        BY <2>9, <2>10, <3>1
      <3> HIDE DEF a, x
      <3>4. ReadStr(s, Len(a)) = [value |-> x, there |-> TRUE, next |-> Len(a \o ShortStr(x))]
        BY <3>2, <3>3, StrRead
      <3> QED BY <3>3, <3>4 DEF a, x
    <2>12. Len(q) \in Nat /\ Len(s) \in Nat /\ 0 \in 0 .. n /\ n \in 0 .. n
      BY <2>1, LenProperties
    <2>13. Begins(s, q) /\ s[Len(q) + 1] = n /\ Len(q) < Len(s)
      <3> DEFINE d == <<n>>
      <3>1. Begins(s, q \o d)
        <4>1. Begins(s, p[0])
          BY <2>10, <2>12
        <4>2. p[0] = q \o d
          BY <2>7 DEF q1
        <4> QED BY <4>1, <4>2, Zenon
      <3>2. d \in Seq(Byte) /\ Len(d) = 1 /\ d[1] = n
        BY <2>5
      <3>3. s \in Seq(Byte) /\ q \in Seq(Byte)
        OBVIOUS
      <3> HIDE DEF d
      <3>4. /\ Begins(s, q) /\ Len(q) + Len(d) <= Len(s)
            /\ \A j \in 1 .. Len(d) : s[Len(q) + j] = d[j]
        <4>1. d \in Seq(Byte)
          BY <3>2
        <4> QED BY ONLY <3>1, <3>3, <4>1, BeginsPart
      <3> QED BY <2>12, <3>2, <3>4
    <2>14. ReadMentions(s, Len(q)) = [found |-> M, next |-> Len(p[n])]
      <3> DEFINE i == Len(q)
                 read == CHOOSE f : MentionsFollow(s, i, f)
      <3>1. MentionsFollow(s, i, read)
        <4>1. \E h : MentionsFollow(s, i, h)
          BY <2>12, MentionsExist
        <4> QED BY <4>1
      <3> HIDE DEF read
      <3>2. read[n] = [found |-> M, next |-> Len(p[n])]
        <4>1. Len(p[0]) = i + 1
          BY <2>6, <2>7
        <4>2. ReadsBack(s, Len(M), p, M)
          BY <2>11 DEF n
        <4>3. read[Len(M)] = [found |-> M, next |-> Len(p[Len(M)])]
          <5>1. EntriesThere(s, i, read, p, M)
            BY <2>12, <3>1, <4>1, <4>2 DEF EntriesThere
          <5>2. EntriesDone(read, p, M)
            BY ONLY <5>1, EntriesRead
          <5> QED BY <5>2 DEF EntriesDone
        <4> QED BY <4>3 DEF n
      <3>3. At(s, i) = n /\ HasFlag(At(s, 0), 32) /\ i < Len(s)
        BY <1>2, <2>13 DEF At
      <3>4. ReadMentions(s, i) = read[n]
        BY <3>3 DEF ReadMentions, MentionsFollow, read
      <3> QED BY <3>2, <3>4
    <2>15. p[n] \in Seq(Byte)
      BY <2>12
    <2> QED BY <2>8, <2>13, <2>14, <2>15
  <1> QED BY <1>1, <1>2

(* Strings a byte can give the length of.                                  *)
Strs == {x \in Seq(Byte) : Len(x) <= 255 /\ IsUtf8(x)}

(* The messages of a phone: strings that fit their length bytes and are    *)
(* characters, but for the sender, which is cut, and an encrypted content. *)
WrittenMessages ==
    {m \in [relay : BOOLEAN, private : BOOLEAN, encrypted : BOOLEAN, timestamp : Seq(Byte),
            id : Strs, sender : Seq(Byte), content : Seq(Byte), original : Strs,
            recipient : Strs, peer : Strs, mentions : Seq(Strs), channel : Strs] :
        /\ Len(m.timestamp) = 8 /\ IsUtf8(Slice(m.sender, 0, 255))
        /\ Len(m.content) <= 65535 /\ (m.encrypted \/ IsUtf8(m.content))
        /\ Len(m.mentions) <= 255}

(* MessageFlags sets the bits DecodeMessage looks at, each for its own     *)
(* field.                                                                  *)
LEMMA FlagsRead ==
    ASSUME NEW m \in WrittenMessages
    PROVE  LET n == MessageFlags(m)
           IN  /\ n \in Byte
               /\ HasFlag(n, 1) <=> m.relay
               /\ HasFlag(n, 2) <=> m.private
               /\ HasFlag(n, 4) <=> m.original # <<>>
               /\ HasFlag(n, 8) <=> m.recipient # <<>>
               /\ HasFlag(n, 16) <=> m.peer # <<>>
               /\ HasFlag(n, 32) <=> m.mentions # <<>>
               /\ HasFlag(n, 64) <=> m.channel # <<>>
               /\ HasFlag(n, 128) <=> m.encrypted
PROOF
  <1> DEFINE One(p) == IF p THEN 1 ELSE 0
             a == One(m.relay)
             b == One(m.private)
             c == One(m.original # <<>>)
             d == One(m.recipient # <<>>)
             e == One(m.peer # <<>>)
             f == One(m.mentions # <<>>)
             g == One(m.channel # <<>>)
             h == One(m.encrypted)
             n == a + 2 * b + 4 * c + 8 * d + 16 * e + 32 * f + 64 * g + 128 * h
  <1>1. /\ a \in {0, 1} /\ b \in {0, 1} /\ c \in {0, 1} /\ d \in {0, 1}
        /\ e \in {0, 1} /\ f \in {0, 1} /\ g \in {0, 1} /\ h \in {0, 1}
    OBVIOUS
  <1>2. /\ Bit(m.relay, 1) = a /\ Bit(m.private, 2) = 2 * b /\ Bit(m.original # <<>>, 4) = 4 * c
        /\ Bit(m.recipient # <<>>, 8) = 8 * d /\ Bit(m.peer # <<>>, 16) = 16 * e
        /\ Bit(m.mentions # <<>>, 32) = 32 * f /\ Bit(m.channel # <<>>, 64) = 64 * g
        /\ Bit(m.encrypted, 128) = 128 * h
    BY DEF Bit
  <1>3. /\ a = 1 <=> m.relay
        /\ b = 1 <=> m.private
        /\ c = 1 <=> m.original # <<>>
        /\ d = 1 <=> m.recipient # <<>>
        /\ e = 1 <=> m.peer # <<>>
        /\ f = 1 <=> m.mentions # <<>>
        /\ g = 1 <=> m.channel # <<>>
        /\ h = 1 <=> m.encrypted
    <2>1. m.relay \in BOOLEAN /\ m.private \in BOOLEAN /\ m.encrypted \in BOOLEAN
      BY DEF WrittenMessages
    <2> QED BY <2>1
  <1> HIDE DEF a, b, c, d, e, f, g, h
  <1>4. MessageFlags(m) = n
    BY <1>2 DEF MessageFlags
  <1>5. /\ n \in Byte
        /\ (n \div 1) % 2 = a /\ (n \div 2) % 2 = b /\ (n \div 4) % 2 = c
        /\ (n \div 8) % 2 = d /\ (n \div 16) % 2 = e /\ (n \div 32) % 2 = f
        /\ (n \div 64) % 2 = g /\ (n \div 128) % 2 = h
    BY <1>1, Bits
  <1> HIDE DEF n
  <1> QED BY <1>3, <1>4, <1>5 DEF HasFlag

(* The content's length in two bytes.                                      *)
LEMMA LongStrRead ==
    ASSUME NEW s \in Seq(Byte), NEW q \in Seq(Byte), NEW x \in Seq(Byte), Len(x) <= 65535,
           Begins(s, q \o LongStr(x))
    PROVE  /\ q \o LongStr(x) \in Seq(Byte) /\ Begins(s, q)
           /\ Len(q) + 2 + Len(x) = Len(q \o LongStr(x))
           /\ Len(q \o LongStr(x)) <= Len(s)
           /\ ReadU16(s, Len(q)) = Len(x)
           /\ SubSeq(s, (Len(q) + 2) + 1, Len(q \o LongStr(x))) = x
PROOF
  <1> DEFINE n == Len(x)
             u == U16(n)
             p == q \o u
  <1>1. n \in Nat /\ n <= 65535 /\ Len(q) \in Nat /\ Len(s) \in Nat
    BY LenProperties
  <1>2. Slice(x, 0, 65535) = x
    BY SliceAll
  <1>3. LongStr(x) = u \o x
    BY <1>2 DEF LongStr
  <1> HIDE DEF n
  <1>4. u \in Seq(Byte) /\ Len(u) = 2 /\ u[1] = n \div 256 /\ u[2] = n % 256
    <2>1. n \div 256 \in Byte /\ n % 256 \in Byte
      BY <1>1 DEF Byte
    <2> DEFINE k == n \div 256
               l == n % 256
    <2>a. k \in Byte /\ l \in Byte
      BY <2>1
    <2> HIDE DEF k, l
    <2>2. <<k, l>> \in Seq(Byte) /\ Len(<<k, l>>) = 2 /\ <<k, l>>[1] = k /\ <<k, l>>[2] = l
      BY <2>a, Pair
    <2> QED BY <2>2 DEF U16, k, l
  <1>5. 256 * (n \div 256) + (n % 256) = n
    BY <1>1
  <1> HIDE DEF u
  <1>6. q \o LongStr(x) = p \o x /\ p \in Seq(Byte)
    <2>1. q \in Seq(Byte) /\ u \in Seq(Byte) /\ x \in Seq(Byte)
      BY <1>4
    <2>2. (q \o u) \o x = q \o (u \o x) /\ q \o u \in Seq(Byte)
      BY ONLY <2>1, BytesAssociate
    <2> QED BY <1>3, <2>2
  <1>7. p \o x \in Seq(Byte) /\ Len(p \o x) = Len(p) + n /\ Len(p) + n <= Len(s)
        /\ Begins(s, p) /\ SubSeq(s, Len(p) + 1, Len(p) + n) = x
    <2> HIDE DEF p
    <2>1. Begins(s, p \o x)
      BY <1>6
    <2>2. s \in Seq(Byte) /\ x \in Seq(Byte) /\ p \in Seq(Byte)
      BY <1>6
    <2>3. /\ p \o x \in Seq(Byte) /\ Len(p \o x) = Len(p) + Len(x) /\ Len(p) + Len(x) <= Len(s)
          /\ Begins(s, p) /\ SubSeq(s, Len(p) + 1, Len(p) + Len(x)) = x
      BY ONLY <2>1, <2>2, BeginsPart
    <2> QED BY <2>3 DEF n
  <1>8. /\ Len(p) = Len(q) + 2 /\ Begins(s, q)
        /\ s[Len(q) + 1] = n \div 256 /\ s[Len(q) + 2] = n % 256
    <2>1. /\ Len(p) = Len(q) + Len(u) /\ Begins(s, q)
          /\ \A j \in 1 .. Len(u) : s[Len(q) + j] = u[j]
      <3>1. Begins(s, q \o u)
        BY <1>7 DEF p
      <3>2. /\ Len(q \o u) = Len(q) + Len(u) /\ Begins(s, q)
            /\ \A j \in 1 .. Len(u) : s[Len(q) + j] = u[j]
        <4>1. u \in Seq(Byte)
          BY <1>4
        <4> HIDE DEF p
        <4> QED BY <3>1, <4>1, BeginsPart
      <3> QED BY <3>2 DEF p
    <2> QED BY <1>4, <2>1
  <1> HIDE DEF p
  <1>9. ReadU16(s, Len(q)) = n
    <2>1. (Len(q) + 1) + 1 = Len(q) + 2
      BY <1>1
    <2> DEFINE k == n \div 256
               l == n % 256
    <2>2. 256 * k + l = n /\ s[Len(q) + 1] = k /\ s[(Len(q) + 1) + 1] = l
      BY <1>5, <1>8, <2>1
    <2> HIDE DEF k, l
    <2> QED BY <2>2 DEF ReadU16, At
  <1>10. (Len(q) + 2) + 1 = Len(p) + 1 /\ Len(q) + 2 + n = Len(p) + n
    BY <1>8
  <1> QED BY <1>6, <1>7, <1>8, <1>9, <1>10 DEF n

(* The parts of a message are bytes.                                       *)
LEMMA PartTypes ==
    /\ \A x \in Seq(Byte) : Len(x) <= 255 => ShortStr(x) \in Seq(Byte) /\ OptionalStr(x) \in Seq(Byte)
    /\ \A x \in Seq(Byte) : Len(x) <= 65535 => LongStr(x) \in Seq(Byte)
    /\ \A M \in Seq(Seq(Byte)) : Len(M) <= 255 /\ (\A k \in 1 .. Len(M) : Len(M[k]) <= 255)
                                 => MentionStrs(M) \in Seq(Byte)
PROOF
  <1>0. <<>> \in Seq(Byte)
    BY EmptySeq
  <1>1. ASSUME NEW x \in Seq(Byte), Len(x) <= 255
        PROVE  ShortStr(x) \in Seq(Byte) /\ OptionalStr(x) \in Seq(Byte)
    BY <1>0, <1>1, ShortStrType DEF OptionalStr
  <1>2. ASSUME NEW x \in Seq(Byte), Len(x) <= 65535
        PROVE  LongStr(x) \in Seq(Byte)
    <2> DEFINE e == <<>>
               w == LongStr(x)
    <2>1. Len(x) \in Nat
      BY LenProperties
    <2>2. U16(Len(x)) \in Seq(Byte)
      <3> DEFINE n == Len(x)
                 k == n \div 256
                 l == n % 256
      <3>1. n \in Nat /\ n <= 65535
        BY <1>2, <2>1
      <3> HIDE DEF n
      <3>2. k \in Byte /\ l \in Byte
        BY <3>1 DEF Byte
      <3> HIDE DEF k, l
      <3>3. <<k, l>> \in Seq(Byte)
        BY <3>2, Pair
      <3> QED BY <3>3 DEF U16, k, l, n
    <2>3. LongStr(x) = U16(Len(x)) \o x
      BY <1>2, SliceAll DEF LongStr
    <2> DEFINE u == U16(Len(x))
    <2> HIDE DEF u
    <2>4. u \o x \in Seq(Byte)
      BY <2>2, BytesAssociate DEF u
    <2> QED BY <2>3, <2>4 DEF u
  <1>3. ASSUME NEW M \in Seq(Seq(Byte)), Len(M) <= 255, \A k \in 1 .. Len(M) : Len(M[k]) <= 255
        PROVE  MentionStrs(M) \in Seq(Byte)
    <2>1. CASE M = <<>>
      <3>1. Slice(M, 0, 255) = M
        BY <1>3, SliceAll
      <3> QED BY <1>0, <2>1, <3>1 DEF MentionStrs
    <2>2. CASE M # <<>>
      BY <1>3, <2>2, MentionsWritten
    <2> QED BY <2>1, <2>2
  <1> QED BY <1>1, <1>2, <1>3

(* What the reading of a message finds, step by step.                      *)
Written(w) ==
    /\ w.flags \in Byte /\ w.timestamp \in Seq(Byte) /\ Len(w.timestamp) = 8
    /\ \A x \in {w.id, w.sender, w.original, w.recipient, w.peer, w.channel} :
          x \in Seq(Byte) /\ Len(x) <= 255
    /\ w.content \in Seq(Byte) /\ Len(w.content) <= 65535
    /\ w.mentions \in Seq(Seq(Byte)) /\ Len(w.mentions) <= 255
    /\ \A k \in 1 .. Len(w.mentions) : Len(w.mentions[k]) <= 255
    /\ HasFlag(w.flags, 4) <=> w.original # <<>>
    /\ HasFlag(w.flags, 8) <=> w.recipient # <<>>
    /\ HasFlag(w.flags, 16) <=> w.peer # <<>>
    /\ HasFlag(w.flags, 32) <=> w.mentions # <<>>
    /\ HasFlag(w.flags, 64) <=> w.channel # <<>>

(* The bytes of a message, part by part.                                   *)
WrittenBytes(w) ==
    <<w.flags>> \o w.timestamp \o ShortStr(w.id) \o ShortStr(w.sender) \o LongStr(w.content)
    \o OptionalStr(w.original) \o OptionalStr(w.recipient) \o OptionalStr(w.peer)
    \o MentionStrs(w.mentions) \o OptionalStr(w.channel)

(* The sizes DecodeMessage asks for are those of the parts before the      *)
(* content.                                                                *)
LEMMA SizesFit ==
    ASSUME NEW a \in Nat, NEW b \in Nat, NEW c \in Nat, NEW i, NEW j, NEW k, NEW l \in Nat,
           i = 9 + (1 + a), j = i + (1 + b), j + 2 + c = k, k <= l
    PROVE  j + 2 <= l /\ l >= 13
OBVIOUS

(* Every field is read where it was written, each at the end of the one    *)
(* before.                                                                 *)
LEMMA FieldsRead ==
    ASSUME NEW w, Written(w)
    PROVE  LET s == WrittenBytes(w)
               id == ReadStr(s, 9)
               sender == ReadStr(s, id.next)
               begin == sender.next + 2
               end == begin + ReadU16(s, sender.next)
               original == ReadOptional(s, 4, end)
               recipient == ReadOptional(s, 8, original.next)
               peer == ReadOptional(s, 16, recipient.next)
               mentions == ReadMentions(s, peer.next)
               channel == ReadOptional(s, 64, mentions.next)
           IN  /\ At(s, 0) = w.flags /\ Slice(s, 1, 8) = w.timestamp
               /\ ReadU16(s, sender.next) = Len(w.content)
               /\ id.there /\ id.value = w.id /\ sender.there /\ sender.value = w.sender
               /\ begin <= Len(s) /\ end <= Len(s) /\ SubSeq(s, begin + 1, end) = w.content
               /\ original.value = w.original /\ recipient.value = w.recipient
               /\ peer.value = w.peer /\ mentions.found = w.mentions
               /\ channel.value = w.channel /\ Len(s) >= 13
               /\ s \in Seq(Byte) /\ s[2] = w.timestamp[1] /\ s[3] = w.timestamp[2]
PROOF
  <1> DEFINE p0 == <<w.flags>>
             p1 == p0 \o w.timestamp
             p2 == p1 \o ShortStr(w.id)
             p3 == p2 \o ShortStr(w.sender)
             p4 == p3 \o LongStr(w.content)
             p5 == p4 \o OptionalStr(w.original)
             p6 == p5 \o OptionalStr(w.recipient)
             p7 == p6 \o OptionalStr(w.peer)
             p8 == p7 \o MentionStrs(w.mentions)
             s == p8 \o OptionalStr(w.channel)
  <1>0. WrittenBytes(w) = s
    BY DEF WrittenBytes
  <1>1. /\ w.id \in Seq(Byte) /\ Len(w.id) <= 255
        /\ w.sender \in Seq(Byte) /\ Len(w.sender) <= 255
        /\ w.original \in Seq(Byte) /\ Len(w.original) <= 255
        /\ w.recipient \in Seq(Byte) /\ Len(w.recipient) <= 255
        /\ w.peer \in Seq(Byte) /\ Len(w.peer) <= 255
        /\ w.channel \in Seq(Byte) /\ Len(w.channel) <= 255
    BY DEF Written
  <1>2. w.content \in Seq(Byte) /\ Len(w.content) <= 65535
    BY DEF Written
  <1>3. /\ w.mentions \in Seq(Seq(Byte)) /\ Len(w.mentions) <= 255
        /\ \A k \in 1 .. Len(w.mentions) : Len(w.mentions[k]) <= 255
    BY DEF Written
  <1>4. w.flags \in Byte /\ w.timestamp \in Seq(Byte) /\ Len(w.timestamp) = 8
    BY DEF Written
  <1>5. /\ HasFlag(w.flags, 4) <=> w.original # <<>>
        /\ HasFlag(w.flags, 8) <=> w.recipient # <<>>
        /\ HasFlag(w.flags, 16) <=> w.peer # <<>>
        /\ HasFlag(w.flags, 32) <=> w.mentions # <<>>
        /\ HasFlag(w.flags, 64) <=> w.channel # <<>>
    BY DEF Written
  <1>6. /\ ShortStr(w.id) \in Seq(Byte) /\ ShortStr(w.sender) \in Seq(Byte)
        /\ LongStr(w.content) \in Seq(Byte) /\ OptionalStr(w.original) \in Seq(Byte)
        /\ OptionalStr(w.recipient) \in Seq(Byte) /\ OptionalStr(w.peer) \in Seq(Byte)
        /\ MentionStrs(w.mentions) \in Seq(Byte) /\ OptionalStr(w.channel) \in Seq(Byte)
    <2>1. LongStr(w.content) \in Seq(Byte)
      BY <1>2, PartTypes
    <2>2. MentionStrs(w.mentions) \in Seq(Byte)
      BY <1>3, PartTypes
    <2>3. /\ ShortStr(w.id) \in Seq(Byte) /\ ShortStr(w.sender) \in Seq(Byte)
          /\ OptionalStr(w.original) \in Seq(Byte) /\ OptionalStr(w.recipient) \in Seq(Byte)
          /\ OptionalStr(w.peer) \in Seq(Byte) /\ OptionalStr(w.channel) \in Seq(Byte)
      <3>1. \A x \in Seq(Byte) : Len(x) <= 255 => ShortStr(x) \in Seq(Byte) /\ OptionalStr(x) \in Seq(Byte)
        BY PartTypes
      <3> QED BY <1>1, <3>1
    <2> QED BY <2>1, <2>2, <2>3
  <1>7. p0 \in Seq(Byte) /\ Len(p0) = 1 /\ p0[1] = w.flags
    BY <1>4, Single
  <1> HIDE DEF p0
  <1>8. p1 \in Seq(Byte) /\ Len(p1) = 9
    <2> DEFINE t == w.timestamp
    <2>1. t \in Seq(Byte) /\ Len(t) = 8
      BY <1>4
    <2> HIDE DEF t
    <2>2. p0 \o t \in Seq(Byte) /\ Len(p0 \o t) = Len(p0) + Len(t)
      BY <1>7, <2>1, ConcatProperties
    <2>3. Len(p0 \o t) = 9
      BY <1>7, <2>1, <2>2
    <2> QED BY <2>2, <2>3 DEF t
  <1>9. \A x, y \in Seq(Byte) : x \o y \in Seq(Byte)
    BY BytesAssociate
  <1> HIDE DEF p1
  <1>10. p2 \in Seq(Byte)
    BY <1>6, <1>8, <1>9
  <1> HIDE DEF p2
  <1>11. p3 \in Seq(Byte)
    BY <1>6, <1>9, <1>10
  <1> HIDE DEF p3
  <1>12. p4 \in Seq(Byte)
    BY <1>6, <1>9, <1>11
  <1> HIDE DEF p4
  <1>13. p5 \in Seq(Byte)
    BY <1>6, <1>9, <1>12
  <1> HIDE DEF p5
  <1>14. p6 \in Seq(Byte)
    BY <1>6, <1>9, <1>13
  <1> HIDE DEF p6
  <1>15. p7 \in Seq(Byte)
    BY <1>6, <1>9, <1>14
  <1> HIDE DEF p7
  <1>16. p8 \in Seq(Byte)
    BY <1>6, <1>9, <1>15
  <1> HIDE DEF p8
  <1>17. s \in Seq(Byte)
    BY <1>6, <1>9, <1>16
  <1> HIDE DEF s
  <1>18. \A q, r \in Seq(Byte) : Begins(s, q \o r) => Begins(s, q)
    BY <1>17, BeginsPart
  <1>19. Begins(s, p8 \o OptionalStr(w.channel))
    <2>1. Begins(s, s)
      BY <1>17, LenProperties DEF Begins
    <2> QED BY <2>1 DEF s
  <1>20. Begins(s, p7 \o MentionStrs(w.mentions))
    BY <1>6, <1>16, <1>18, <1>19 DEF p8
  <1>21. Begins(s, p6 \o OptionalStr(w.peer))
    BY <1>6, <1>15, <1>18, <1>20 DEF p7
  <1>22. Begins(s, p5 \o OptionalStr(w.recipient))
    BY <1>6, <1>14, <1>18, <1>21 DEF p6
  <1>23. Begins(s, p4 \o OptionalStr(w.original))
    BY <1>6, <1>13, <1>18, <1>22 DEF p5
  <1>24. Begins(s, p3 \o LongStr(w.content))
    BY <1>6, <1>12, <1>18, <1>23 DEF p4
  <1>25. Begins(s, p2 \o ShortStr(w.sender))
    BY <1>6, <1>11, <1>18, <1>24 DEF p3
  <1>26. Begins(s, p1 \o ShortStr(w.id))
    BY <1>6, <1>10, <1>18, <1>25 DEF p2
  <1>27. Begins(s, p0 \o w.timestamp)
    BY <1>6, <1>8, <1>18, <1>26 DEF p1
  <1>28. Len(s) \in Nat
    BY <1>17, LenProperties
  <1>29. At(s, 0) = w.flags
    <2>1. Begins(s, p0)
      BY <1>4, <1>7, <1>18, <1>27
    <2>2. s[1] = p0[1]
      BY <1>7, <2>1 DEF Begins
    <2> QED BY <1>7, <2>2 DEF At
  <1>30. /\ Slice(s, 1, 8) = w.timestamp /\ 9 <= Len(s)
         /\ s[2] = w.timestamp[1] /\ s[3] = w.timestamp[2]
    <2> DEFINE t == w.timestamp
    <2>1. t \in Seq(Byte) /\ Len(t) = 8 /\ Begins(s, p0 \o t)
      BY <1>4, <1>27
    <2> HIDE DEF t
    <2>2. SubSeq(s, Len(p0) + 1, Len(p0) + Len(t)) = t /\ Len(p0) + Len(t) <= Len(s)
      <3>1. p0 \in Seq(Byte) /\ s \in Seq(Byte)
        BY <1>7, <1>17
      <3>2. Begins(s, p0 \o t) /\ t \in Seq(Byte)
        BY <2>1
      <3>3. /\ Len(p0) + Len(t) <= Len(s)
            /\ SubSeq(s, Len(p0) + 1, Len(p0) + Len(t)) = t
        BY ONLY <3>1, <3>2, BeginsPart
      <3> QED BY <3>3
    <2>3. Len(p0) + 1 = 1 + 1 /\ Len(p0) + Len(t) = IF 1 + 8 < Len(s) THEN 1 + 8 ELSE Len(s)
      <3>1. Len(p0) + Len(t) <= Len(s)
        BY <2>2
      <3>2. Len(p0) = 1 /\ Len(t) = 8
        BY <1>7, <2>1
      <3>3. 9 <= Len(s)
        BY <1>28, <3>1, <3>2
      <3>4. 1 + 8 = 9 /\ (IF 9 < Len(s) THEN 9 ELSE Len(s)) = 9
        <4> DEFINE l == Len(s)
        <4>1. l \in Nat /\ 9 <= l
          BY <1>28, <3>3
        <4> HIDE DEF l
        <4>2. (IF 9 < l THEN 9 ELSE l) = 9
          BY <4>1
        <4> QED BY <4>2 DEF l
      <3> QED BY <3>2, <3>4
    <2>4. Slice(s, 1, 8) = t
      BY <2>2, <2>3 DEF Slice
    <2>5. s[2] = t[1] /\ s[3] = t[2]
      <3>1. p0 \in Seq(Byte) /\ s \in Seq(Byte)
        BY <1>7, <1>17
      <3>2. Begins(s, p0 \o t) /\ t \in Seq(Byte)
        BY <2>1
      <3>3. \A j \in 1 .. Len(t) : s[Len(p0) + j] = t[j]
        BY ONLY <3>1, <3>2, BeginsPart
      <3>4. 1 \in 1 .. Len(t) /\ 2 \in 1 .. Len(t) /\ Len(p0) + 1 = 2 /\ Len(p0) + 2 = 3
        BY <1>7, <2>1
      <3> QED BY <3>3, <3>4
    <2> QED BY <1>7, <2>1, <2>2, <2>4, <2>5 DEF t
  <1>31. ReadStr(s, 9) = [value |-> w.id, there |-> TRUE, next |-> Len(p2)]
    <2>1. ReadStr(s, Len(p1)) = [value |-> w.id, there |-> TRUE, next |-> Len(p1 \o ShortStr(w.id))]
      BY <1>1, <1>8, <1>17, <1>26, StrRead
    <2> QED BY <1>8, <2>1 DEF p2
  <1>32. ReadStr(s, Len(p2)) = [value |-> w.sender, there |-> TRUE, next |-> Len(p3)]
    <2>1. ReadStr(s, Len(p2)) =
              [value |-> w.sender, there |-> TRUE, next |-> Len(p2 \o ShortStr(w.sender))]
      BY <1>1, <1>10, <1>17, <1>25, StrRead
    <2> QED BY <2>1 DEF p3
  <1>33. /\ Len(p3) + 2 + Len(w.content) = Len(p4) /\ Len(p4) <= Len(s)
         /\ ReadU16(s, Len(p3)) = Len(w.content)
         /\ SubSeq(s, (Len(p3) + 2) + 1, Len(p4)) = w.content
    <2> DEFINE c == w.content
    <2>1. c \in Seq(Byte) /\ Len(c) <= 65535 /\ Begins(s, p3 \o LongStr(c))
      BY <1>2, <1>24
    <2>2. p3 \in Seq(Byte) /\ s \in Seq(Byte)
      BY <1>11, <1>17
    <2> HIDE DEF c
    <2>3. /\ Len(p3) + 2 + Len(c) = Len(p3 \o LongStr(c)) /\ Len(p3 \o LongStr(c)) <= Len(s)
          /\ ReadU16(s, Len(p3)) = Len(c)
          /\ SubSeq(s, (Len(p3) + 2) + 1, Len(p3 \o LongStr(c))) = c
      BY <2>1, <2>2, LongStrRead
    <2>4. p4 = p3 \o LongStr(c)
      BY DEF p4, c
    <2>5. /\ Len(p3) + 2 + Len(c) = Len(p4) /\ Len(p4) <= Len(s)
          /\ ReadU16(s, Len(p3)) = Len(c) /\ SubSeq(s, (Len(p3) + 2) + 1, Len(p4)) = c
      BY <2>3, <2>4, Zenon
    <2> QED BY <2>5 DEF c
  <1>34. /\ ReadOptional(s, 4, Len(p4)).value = w.original
         /\ ReadOptional(s, 4, Len(p4)).next = Len(p5)
    BY <1>1, <1>5, <1>12, <1>17, <1>23, <1>29, OptionalRead DEF p5
  <1>35. /\ ReadOptional(s, 8, Len(p5)).value = w.recipient
         /\ ReadOptional(s, 8, Len(p5)).next = Len(p6)
    BY <1>1, <1>5, <1>13, <1>17, <1>22, <1>29, OptionalRead DEF p6
  <1>36. /\ ReadOptional(s, 16, Len(p6)).value = w.peer
         /\ ReadOptional(s, 16, Len(p6)).next = Len(p7)
    BY <1>1, <1>5, <1>14, <1>17, <1>21, <1>29, OptionalRead DEF p7
  <1>37. ReadMentions(s, Len(p7)) = [found |-> w.mentions, next |-> Len(p8)]
    BY <1>3, <1>5, <1>15, <1>17, <1>20, <1>29, MentionsRead DEF p8
  <1>38. ReadOptional(s, 64, Len(p8)).value = w.channel
    BY <1>1, <1>5, <1>16, <1>17, <1>19, <1>29, OptionalRead
  <1>39. Len(p3) + 2 <= Len(s) /\ Len(s) >= 13
    <2> DEFINE a == w.id
               b == w.sender
    <2>1. a \in Seq(Byte) /\ Len(a) <= 255 /\ b \in Seq(Byte) /\ Len(b) <= 255
      BY <1>1
    <2> HIDE DEF a, b
    <2>2. Len(ShortStr(a)) = 1 + Len(a) /\ Len(ShortStr(b)) = 1 + Len(b)
          /\ Len(a) \in Nat /\ Len(b) \in Nat
      BY <2>1, ShortStrType, LenProperties
    <2>3. ShortStr(a) \in Seq(Byte) /\ ShortStr(b) \in Seq(Byte)
      BY <1>6 DEF a, b
    <2>4. Len(p2) = Len(p1) + Len(ShortStr(a))
      BY <1>8, <2>3, ConcatProperties DEF p2, a
    <2>5. Len(p3) = Len(p2) + Len(ShortStr(b))
      BY <1>10, <2>3, ConcatProperties DEF p3, b
    <2>6. Len(w.content) \in Nat
      BY <1>2, LenProperties
    <2>7. Len(p3) + 2 + Len(w.content) = Len(p4) /\ Len(p4) <= Len(s) /\ Len(p1) = 9
      BY <1>8, <1>33
    <2> HIDE DEF a, b
    <2>8. Len(p2) = 9 + (1 + Len(a)) /\ Len(p3) = Len(p2) + (1 + Len(b))
      BY <2>2, <2>4, <2>5, <2>7
    <2> QED BY <1>28, <2>2, <2>6, <2>7, <2>8, SizesFit
  <1> DEFINE id == ReadStr(s, 9)
             sender == ReadStr(s, id.next)
             begin == sender.next + 2
             end == begin + ReadU16(s, sender.next)
             original == ReadOptional(s, 4, end)
             recipient == ReadOptional(s, 8, original.next)
             peer == ReadOptional(s, 16, recipient.next)
             mentions == ReadMentions(s, peer.next)
             channel == ReadOptional(s, 64, mentions.next)
  <1>40. id.there /\ id.value = w.id /\ id.next = Len(p2)
    BY <1>31
  <1> HIDE DEF id
  <1>41. sender.there /\ sender.value = w.sender /\ sender.next = Len(p3)
    BY <1>32, <1>40
  <1> HIDE DEF sender
  <1>42. begin = Len(p3) + 2
    BY <1>41
  <1>43. end = Len(p4)
    BY <1>33, <1>41
  <1> HIDE DEF begin, end
  <1>44. original.value = w.original /\ original.next = Len(p5)
    BY <1>34, <1>43
  <1> HIDE DEF original
  <1>45. recipient.value = w.recipient /\ recipient.next = Len(p6)
    BY <1>35, <1>44
  <1> HIDE DEF recipient
  <1>46. peer.value = w.peer /\ peer.next = Len(p7)
    BY <1>36, <1>45
  <1> HIDE DEF peer
  <1>47. mentions.found = w.mentions /\ mentions.next = Len(p8)
    BY <1>37, <1>46
  <1> HIDE DEF mentions
  <1>48. channel.value = w.channel
    BY <1>38, <1>47
  <1>49. begin <= Len(s) /\ end <= Len(s) /\ SubSeq(s, begin + 1, end) = w.content
    BY <1>33, <1>39, <1>42, <1>43
  <1> HIDE DEF channel
  <1>50. /\ At(s, 0) = w.flags /\ Slice(s, 1, 8) = w.timestamp
         /\ ReadU16(s, sender.next) = Len(w.content)
         /\ id.there /\ id.value = w.id /\ sender.there /\ sender.value = w.sender
         /\ begin <= Len(s) /\ end <= Len(s) /\ SubSeq(s, begin + 1, end) = w.content
         /\ original.value = w.original /\ recipient.value = w.recipient
         /\ peer.value = w.peer /\ mentions.found = w.mentions
         /\ channel.value = w.channel /\ Len(s) >= 13
         /\ s \in Seq(Byte) /\ s[2] = w.timestamp[1] /\ s[3] = w.timestamp[2]
    BY <1>17, <1>29, <1>30, <1>33, <1>39, <1>40, <1>41, <1>44, <1>45, <1>46, <1>47, <1>48, <1>49
  <1> QED BY <1>0, <1>50, Zenon DEF id, sender, begin, end, original, recipient, peer, mentions, channel

(* What EncodeMessage writes of a message, the sender cut.                 *)
AsWritten(m) ==
    [flags |-> MessageFlags(m), timestamp |-> m.timestamp, id |-> m.id,
     sender |-> Slice(m.sender, 0, 255), content |-> m.content, original |-> m.original,
     recipient |-> m.recipient, peer |-> m.peer, mentions |-> m.mentions, channel |-> m.channel]

(* EncodeMessage writes those parts.                                       *)
LEMMA MessageWritten ==
    ASSUME NEW m \in WrittenMessages
    PROVE  Written(AsWritten(m)) /\ WrittenBytes(AsWritten(m)) = EncodeMessage(m)
PROOF
  <1> DEFINE cut == Slice(m.sender, 0, 255)
             n == MessageFlags(m)
             w == AsWritten(m)
  <1>1. /\ m.id \in Strs /\ m.original \in Strs /\ m.recipient \in Strs /\ m.peer \in Strs
        /\ m.channel \in Strs
    BY DEF WrittenMessages
  <1>2. m.mentions \in Seq(Strs) /\ Len(m.mentions) <= 255
    BY DEF WrittenMessages
  <1>3. /\ m.timestamp \in Seq(Byte) /\ Len(m.timestamp) = 8
        /\ m.sender \in Seq(Byte) /\ m.content \in Seq(Byte) /\ Len(m.content) <= 65535
        /\ IsUtf8(cut) /\ (m.encrypted \/ IsUtf8(m.content))
    BY DEF WrittenMessages
  <1>4. /\ n \in Byte
        /\ HasFlag(n, 1) <=> m.relay
        /\ HasFlag(n, 2) <=> m.private
        /\ HasFlag(n, 4) <=> m.original # <<>>
        /\ HasFlag(n, 8) <=> m.recipient # <<>>
        /\ HasFlag(n, 16) <=> m.peer # <<>>
        /\ HasFlag(n, 32) <=> m.mentions # <<>>
        /\ HasFlag(n, 64) <=> m.channel # <<>>
        /\ HasFlag(n, 128) <=> m.encrypted
    BY FlagsRead
  <1>5. cut \in Seq(Byte) /\ Len(cut) <= 255
    <2>1. m.sender \in Seq(Byte)
      BY <1>3
    <2> QED BY <2>1, Cut
  <1>6. \A x \in Strs : x \in Seq(Byte) /\ Len(x) <= 255 /\ IsUtf8(x)
    BY DEF Strs
  <1>7. /\ m.mentions \in Seq(Seq(Byte))
        /\ \A k \in 1 .. Len(m.mentions) : m.mentions[k] \in Strs
    <2> DEFINE M == m.mentions
    <2>1. M \in Seq(Strs)
      BY <1>2
    <2> HIDE DEF M
    <2>2. \A k \in 1 .. Len(M) : M[k] \in Strs
      BY <2>1, ElementOfSeq
    <2> DEFINE T == Seq(Byte)
    <2>3. Strs \subseteq T
      BY <1>6
    <2> HIDE DEF T
    <2>4. M \in Seq(T)
      BY <2>1, <2>3, SeqMonotonic
    <2> QED BY <2>2, <2>4 DEF M, T
  <1> HIDE DEF cut, n
  <1>8. Written(w)
    <2>1. \A k \in 1 .. Len(m.mentions) : Len(m.mentions[k]) <= 255
      BY <1>6, <1>7
    <2> DEFINE u == w
    <2> USE DEF cut, n
    <2>2. /\ u.flags = n /\ u.timestamp = m.timestamp /\ u.id = m.id /\ u.sender = cut
          /\ u.content = m.content /\ u.original = m.original /\ u.recipient = m.recipient
          /\ u.peer = m.peer /\ u.mentions = m.mentions /\ u.channel = m.channel
      BY DEF AsWritten
    <2> HIDE DEF u, cut, n
    <2>3. \A x \in {u.id, u.sender, u.original, u.recipient, u.peer, u.channel} :
             x \in Seq(Byte) /\ Len(x) <= 255
      BY <1>1, <1>5, <1>6, <2>2
    <2>4. /\ u.flags \in Byte /\ u.timestamp \in Seq(Byte) /\ Len(u.timestamp) = 8
          /\ u.content \in Seq(Byte) /\ Len(u.content) <= 65535
      BY <1>3, <1>4, <2>2
    <2>5. /\ u.mentions \in Seq(Seq(Byte)) /\ Len(u.mentions) <= 255
          /\ \A k \in 1 .. Len(u.mentions) : Len(u.mentions[k]) <= 255
      BY <1>2, <1>7, <2>1, <2>2
    <2>6. /\ HasFlag(u.flags, 4) <=> u.original # <<>>
          /\ HasFlag(u.flags, 8) <=> u.recipient # <<>>
          /\ HasFlag(u.flags, 16) <=> u.peer # <<>>
          /\ HasFlag(u.flags, 32) <=> u.mentions # <<>>
          /\ HasFlag(u.flags, 64) <=> u.channel # <<>>
      BY <1>4, <2>2
    <2>7. Written(u)
      BY <2>3, <2>4, <2>5, <2>6 DEF Written
    <2> QED BY <2>7 DEF u
  <1>9. WrittenBytes(w) = EncodeMessage(m)
    <2>1. Slice(cut, 0, 255) = cut
      BY <1>5, SliceAll
    <2>2. ShortStr(cut) = ShortStr(m.sender)
      BY <2>1 DEF ShortStr, cut
    <2> QED BY <2>2 DEF WrittenBytes, EncodeMessage, AsWritten, n, cut
  <1> QED BY <1>8, <1>9

(* DecodeMessage reads back what EncodeMessage wrote.                      *)
LEMMA MessageRead ==
    ASSUME NEW m \in WrittenMessages
    PROVE  DecodeMessage(EncodeMessage(m)) = [m EXCEPT !.sender = Slice(m.sender, 0, 255)]
PROOF
  <1> DEFINE cut == Slice(m.sender, 0, 255)
             n == MessageFlags(m)
             w == AsWritten(m)
             s == EncodeMessage(m)
  <1>1. /\ m.id \in Strs /\ m.original \in Strs /\ m.recipient \in Strs /\ m.peer \in Strs
        /\ m.channel \in Strs
    BY DEF WrittenMessages
  <1>2. m.mentions \in Seq(Strs) /\ Len(m.mentions) <= 255
    BY DEF WrittenMessages
  <1>3. /\ m.timestamp \in Seq(Byte) /\ Len(m.timestamp) = 8
        /\ m.sender \in Seq(Byte) /\ m.content \in Seq(Byte) /\ Len(m.content) <= 65535
        /\ IsUtf8(cut) /\ (m.encrypted \/ IsUtf8(m.content))
    BY DEF WrittenMessages
  <1>4. /\ n \in Byte
        /\ HasFlag(n, 1) <=> m.relay
        /\ HasFlag(n, 2) <=> m.private
        /\ HasFlag(n, 4) <=> m.original # <<>>
        /\ HasFlag(n, 8) <=> m.recipient # <<>>
        /\ HasFlag(n, 16) <=> m.peer # <<>>
        /\ HasFlag(n, 32) <=> m.mentions # <<>>
        /\ HasFlag(n, 64) <=> m.channel # <<>>
        /\ HasFlag(n, 128) <=> m.encrypted
    BY FlagsRead
  <1>6. \A x \in Strs : x \in Seq(Byte) /\ Len(x) <= 255 /\ IsUtf8(x)
    BY DEF Strs
  <1>7. /\ m.mentions \in Seq(Seq(Byte))
        /\ \A k \in 1 .. Len(m.mentions) : m.mentions[k] \in Strs
    <2> DEFINE M == m.mentions
    <2>1. M \in Seq(Strs)
      BY <1>2
    <2> HIDE DEF M
    <2>2. \A k \in 1 .. Len(M) : M[k] \in Strs
      BY <2>1, ElementOfSeq
    <2> DEFINE T == Seq(Byte)
    <2>3. Strs \subseteq T
      BY <1>6
    <2> HIDE DEF T
    <2>4. M \in Seq(T)
      BY <2>1, <2>3, SeqMonotonic
    <2> QED BY <2>2, <2>4 DEF M, T
  <1>8. Written(w) /\ WrittenBytes(w) = s
    BY MessageWritten
  <1>9. /\ w.flags = n /\ w.timestamp = m.timestamp /\ w.id = m.id /\ w.sender = cut
        /\ w.content = m.content /\ w.original = m.original /\ w.recipient = m.recipient
        /\ w.peer = m.peer /\ w.mentions = m.mentions /\ w.channel = m.channel
    BY DEF AsWritten
  <1> HIDE DEF cut, n
  <1> DEFINE id == ReadStr(s, 9)
             sender == ReadStr(s, id.next)
             begin == sender.next + 2
             end == begin + ReadU16(s, sender.next)
             original == ReadOptional(s, 4, end)
             recipient == ReadOptional(s, 8, original.next)
             peer == ReadOptional(s, 16, recipient.next)
             mentions == ReadMentions(s, peer.next)
             channel == ReadOptional(s, 64, mentions.next)
             strings == {r.value : r \in {id, sender, original, recipient, peer, channel}}
                        \cup ToSet(mentions.found)
  <1> HIDE DEF s, w
  <1>10. /\ At(s, 0) = w.flags /\ Slice(s, 1, 8) = w.timestamp
         /\ id.there /\ id.value = w.id /\ sender.there /\ sender.value = w.sender
         /\ begin <= Len(s) /\ end <= Len(s) /\ SubSeq(s, begin + 1, end) = w.content
         /\ original.value = w.original /\ recipient.value = w.recipient
         /\ peer.value = w.peer /\ mentions.found = w.mentions
         /\ channel.value = w.channel /\ Len(s) >= 13
    <2> HIDE DEF w
    <2> QED BY <1>8, FieldsRead
  <1>11. DecodeMessage(s) =
            IF /\ Len(s) >= 13 /\ id.there /\ sender.there /\ begin <= Len(s) /\ end <= Len(s)
               /\ \A t \in strings : IsUtf8(t)
               /\ HasFlag(At(s, 0), 128) \/ IsUtf8(SubSeq(s, begin + 1, end))
            THEN [relay |-> HasFlag(At(s, 0), 1), private |-> HasFlag(At(s, 0), 2),
                  encrypted |-> HasFlag(At(s, 0), 128), timestamp |-> Slice(s, 1, 8),
                  id |-> id.value, sender |-> sender.value, content |-> SubSeq(s, begin + 1, end),
                  original |-> original.value, recipient |-> recipient.value, peer |-> peer.value,
                  mentions |-> mentions.found, channel |-> channel.value]
            ELSE Unread
    BY Zenon DEF DecodeMessage
  <1> HIDE DEF id, sender, begin, end, original, recipient, peer, mentions, channel
  <1>12. /\ At(s, 0) = n /\ Slice(s, 1, 8) = m.timestamp
         /\ id.value = m.id /\ sender.value = cut /\ SubSeq(s, begin + 1, end) = m.content
         /\ original.value = m.original /\ recipient.value = m.recipient
         /\ peer.value = m.peer /\ mentions.found = m.mentions /\ channel.value = m.channel
    BY <1>9, <1>10
  <1>13. \A t \in strings : IsUtf8(t)
    <2>1. \A t \in ToSet(mentions.found) : t \in Strs
      BY <1>7, <1>12 DEF ToSet
    <2> QED BY <1>1, <1>3, <1>6, <1>12, <2>1
  <1> HIDE DEF strings
  <1>14. HasFlag(n, 128) \/ IsUtf8(m.content)
    BY <1>3, <1>4
  <1> DEFINE d == [relay |-> HasFlag(n, 1), private |-> HasFlag(n, 2),
                   encrypted |-> HasFlag(n, 128), timestamp |-> m.timestamp,
                   id |-> m.id, sender |-> cut, content |-> m.content,
                   original |-> m.original, recipient |-> m.recipient, peer |-> m.peer,
                   mentions |-> m.mentions, channel |-> m.channel]
  <1>15. DecodeMessage(s) = d
    BY <1>10, <1>11, <1>12, <1>13, <1>14
  <1>16. d = [m EXCEPT !.sender = cut]
    <2>1. /\ HasFlag(n, 1) = m.relay /\ HasFlag(n, 2) = m.private
          /\ HasFlag(n, 128) = m.encrypted
      <3>1. m.relay \in BOOLEAN /\ m.private \in BOOLEAN /\ m.encrypted \in BOOLEAN
        BY DEF WrittenMessages
      <3>2. HasFlag(n, 1) \in BOOLEAN /\ HasFlag(n, 2) \in BOOLEAN /\ HasFlag(n, 128) \in BOOLEAN
        BY DEF HasFlag
      <3> QED BY <1>4, <3>1, <3>2
    <2>2. m = [relay |-> m.relay, private |-> m.private, encrypted |-> m.encrypted,
               timestamp |-> m.timestamp, id |-> m.id, sender |-> m.sender,
               content |-> m.content, original |-> m.original, recipient |-> m.recipient,
               peer |-> m.peer, mentions |-> m.mentions, channel |-> m.channel]
      BY DEF WrittenMessages
    <2> QED BY <2>1, <2>2
  <1> QED BY <1>15, <1>16 DEF s, cut

(* A BitchatMessage is read back field by field: whichever of its optional *)
(* fields it has, whatever its strings and however many it mentions, each  *)
(* field is found where it was written.  The strings are those a byte can  *)
(* give the length of; the sender is the one that is cut.                  *)
THEOREM MessagesRoundTrip ==
    ASSUME \A b \in Bodies : b.type = "legacy" => b.message \in WrittenMessages
    PROVE  PathSpec => []MessageRoundTrip
PROOF
  <1>1. ParsedInv => MessageRoundTrip
    <2> SUFFICES ASSUME body \in Bodies, body.type = "legacy"
                 PROVE  DecodeMessage(Payload(body)) =
                            [body.message EXCEPT !.sender = Slice(body.message.sender, 0, 255)]
      BY DEF MessageRoundTrip, ParsedInv
    <2>1. Payload(body) = EncodeMessage(body.message)
      BY DEF Payload
    <2> QED BY <2>1, MessageRead
  <1> QED BY <1>1, ParsedAlways, PTL

(* A message a phone sends: its id is a uuid, its time is in milliseconds  *)
(* (the first two of eight bytes are 0 until the year 10000), and it says  *)
(* something; encrypted content that is no text may be a file.             *)
LegacyFormat(b) ==
    /\ b.type = "legacy" /\ b.message \in WrittenMessages /\ b.message.id \in Uuids
    /\ b.message.timestamp[1] = 0 /\ b.message.timestamp[2] = 0
    /\ b.message.content # <<>>
    /\ \/ IsUtf8(b.message.content)
       \/ 0 \in KnownAt(b.message.content, {0, 1, 4, 8})
       \/ KnownAt(b.message.content, {0, 1, 4, 8}) = {}

(* What a string that was read says of the bytes it was read from.         *)
LEMMA StrFound ==
    ASSUME NEW s \in Seq(Byte), NEW i \in Nat, ReadStr(s, i).there
    PROVE  /\ i + 1 + At(s, i) <= Len(s) /\ At(s, i) = Len(ReadStr(s, i).value)
           /\ ReadStr(s, i).value = Slice(s, i + 1, At(s, i))
           /\ ReadStr(s, i).next = i + 1 + At(s, i)
PROOF
  <1> DEFINE n == At(s, i)
             e == IF (i + 1) + n < Len(s) THEN (i + 1) + n ELSE Len(s)
             v == Slice(s, i + 1, n)
  <1>1. Len(s) \in Nat
    BY LenProperties
  <1>2. i < Len(s) /\ ~(i + 1 + n > Len(s)) /\ ReadStr(s, i) = [value |-> v, there |-> TRUE, next |-> i + 1 + n]
    BY <1>1 DEF ReadStr
  <1>3. n \in Nat
    <2>1. i + 1 \in 1 .. Len(s)
      BY <1>1, <1>2
    <2>2. s[i + 1] \in Byte
      BY <2>1, ElementOfSeq
    <2>3. \A x \in Byte : x \in Nat
      BY DEF Byte
    <2> QED BY <2>2, <2>3 DEF At
  <1> HIDE DEF n
  <1>4. e = (i + 1) + n /\ e \in Nat
    BY <1>1, <1>2, <1>3
  <1>5. Len(v) = n
    <2>1. \A j \in (i + 1) + 1 .. e : s[j] \in Byte
      <3> TAKE j \in (i + 1) + 1 .. e
      <3>1. j \in 1 .. Len(s)
        BY <1>1, <1>2, <1>3, <1>4
      <3> QED BY <3>1, ElementOfSeq
    <2> DEFINE a == (i + 1) + 1
    <2>2. a \in Int /\ e \in Int
      BY <1>4
    <2>3. v = SubSeq(s, a, e)
      BY DEF Slice
    <2>4. a = i + 2 /\ e = i + 1 + n
      BY <1>4
    <2> HIDE DEF a, e, v
    <2>5. Len(SubSeq(s, a, e)) = IF a <= e THEN e - a + 1 ELSE 0
      BY <2>1, <2>2, SubSeqProperties DEF a
    <2>6. (IF a <= e THEN e - a + 1 ELSE 0) = n
      BY <1>3, <2>4
    <2> QED BY <2>3, <2>5, <2>6
  <1> HIDE DEF v
  <1>6. ReadStr(s, i).value = v /\ ReadStr(s, i).next = i + 1 + n
    BY <1>2
  <1>7. i + 1 + n <= Len(s)
    BY <1>1, <1>2, <1>3
  <1> QED BY <1>5, <1>6, <1>7 DEF n, v

(* A content without the beginning of another file is left alone.          *)
LEMMA LegacyTrim ==
    ASSUME NEW x \in Seq(Byte), NEW offsets \in SUBSET Nat,
           0 \in KnownAt(x, offsets) \/ KnownAt(x, offsets) = {}
    PROVE  Trim(x, offsets) = x
PROOF
  <1> DEFINE K == KnownAt(x, offsets)
  <1>1. \A i \in K : i \in Nat
    BY DEF KnownAt
  <1> HIDE DEF K
  <1>2. CASE K = {}
    BY <1>2 DEF Trim, K
  <1>3. CASE K # {}
    <2>1. 0 \in K
      BY <1>3 DEF K
    <2>2. \A i \in K : 0 <= i /\ (i <= 0 => i = 0)
      BY <1>1
    <2>3. Min(K) = 0
      BY <2>1, <2>2 DEF Min
    <2>4. From(x, 0) = x
      BY SubSeqFull DEF From
    <2> QED BY <1>3, <2>3, <2>4 DEF Trim, K
  <1> QED BY <1>2, <1>3

(* No format tried before it fits a BitchatMessage: the length of its id   *)
(* is where the id of a receipt has its first dash, and its time begins    *)
(* with 0 where the daemon writes a length of 36 and a file in fields a 1. *)
LEMMA LegacyRead ==
    ASSUME NEW b, LegacyFormat(b), Meant(b) # Unread
    PROVE  ParseIncoming(EncodeMessage(b.message)) = Meant(b)
PROOF
  <1> DEFINE m == b.message
             s == EncodeMessage(m)
             cut == Slice(m.sender, 0, 255)
             x == m.content
             w == AsWritten(m)
  <1>1. /\ m \in WrittenMessages /\ m.id \in Uuids /\ m.timestamp[1] = 0 /\ m.timestamp[2] = 0
        /\ x # <<>>
        /\ IsUtf8(x) \/ 0 \in KnownAt(x, {0, 1, 4, 8}) \/ KnownAt(x, {0, 1, 4, 8}) = {}
    BY DEF LegacyFormat
  <1>2. /\ Meant(b) = IF IsUtf8(x) THEN Message(m.id, x) ELSE File(m.id, x, <<>>)
    BY DEF LegacyFormat, Meant
  <1>3. x \in Seq(Byte) /\ m.sender \in Seq(Byte)
    BY <1>1 DEF WrittenMessages
  <1>4. Len(m.id) = 36 /\ IsAscii(m.id)
    BY <1>1, UuidFacts
  <1> HIDE DEF m
  <1>5. Written(w) /\ WrittenBytes(w) = s
    BY <1>1, MessageWritten
  <1>6. /\ w.timestamp = m.timestamp /\ w.id = m.id /\ w.sender = cut /\ w.content = x
    BY DEF AsWritten
  <1> HIDE DEF w, s, x, cut
  <1> DEFINE id == ReadStr(s, 9)
             sender == ReadStr(s, id.next)
             begin == sender.next + 2
             end == begin + ReadU16(s, sender.next)
  <1>7. /\ id.there /\ id.value = m.id /\ sender.there /\ sender.value = cut
        /\ end <= Len(s) /\ SubSeq(s, begin + 1, end) = x
        /\ s \in Seq(Byte) /\ s[2] = 0 /\ s[3] = 0 /\ ReadU16(s, sender.next) = Len(x)
    <2>1. /\ id.there /\ id.value = w.id /\ sender.there /\ sender.value = w.sender
          /\ end <= Len(s) /\ SubSeq(s, begin + 1, end) = w.content
          /\ s \in Seq(Byte) /\ s[2] = w.timestamp[1] /\ s[3] = w.timestamp[2]
          /\ ReadU16(s, sender.next) = Len(w.content)
      BY <1>5, FieldsRead
    <2> HIDE DEF id, sender, begin, end
    <2> QED BY <1>1, <1>6, <2>1
  <1>8. Len(s) \in Nat /\ Len(cut) \in Nat
    <2>1. cut \in Seq(Byte)
      BY <1>3, Cut DEF cut
    <2> QED BY <1>7, <2>1, LenProperties
  <1>9. /\ 9 + 1 + At(s, 9) <= Len(s) /\ At(s, 9) = 36 /\ m.id = Slice(s, 9 + 1, At(s, 9))
        /\ id.next = 9 + 1 + At(s, 9)
    <2>1. 9 \in Nat /\ s \in Seq(Byte) /\ ReadStr(s, 9).there /\ ReadStr(s, 9).value = m.id
      BY <1>7
    <2>2. /\ 9 + 1 + At(s, 9) <= Len(s) /\ At(s, 9) = Len(ReadStr(s, 9).value)
          /\ ReadStr(s, 9).value = Slice(s, 9 + 1, At(s, 9))
          /\ ReadStr(s, 9).next = 9 + 1 + At(s, 9)
      BY <2>1, StrFound
    <2> QED BY <1>4, <2>1, <2>2
  <1>10. At(s, 9) = 36 /\ Slice(s, 10, 36) = m.id /\ id.next = 46
    BY <1>9
  <1>11. /\ 46 + 1 + At(s, 46) <= Len(s) /\ At(s, 46) = Len(cut) /\ sender.next = 46 + 1 + At(s, 46)
    <2>1. 46 \in Nat /\ sender = ReadStr(s, 46)
      BY <1>10
    <2> HIDE DEF sender, id
    <2> QED BY <1>7, <2>1, StrFound
  <1> DEFINE n == At(s, 46)
             at == 47 + n
             c == ReadU16(s, at)
  <1>12. n \in Nat /\ sender.next = at /\ begin = at + 2 /\ end = (at + 2) + c
    BY <1>8, <1>11
  <1> HIDE DEF id, sender, begin, end
  <1>13. c \in Nat
    <2>1. c = Len(x)
      BY <1>7, <1>12
    <2> QED BY <1>3, <2>1, LenProperties
  <1>14. Slice(s, at + 2, c) = x
    <2> HIDE DEF at, c
    <2>1. (at + 2) + c <= Len(s) /\ SubSeq(s, (at + 2) + 1, (at + 2) + c) = x
      BY <1>7, <1>12
    <2>2. (IF (at + 2) + c < Len(s) THEN (at + 2) + c ELSE Len(s)) = (at + 2) + c
      <3> DEFINE l == Len(s)
      <3>1. l \in Nat /\ (at + 2) + c <= l
        BY <1>8, <2>1
      <3> HIDE DEF l
      <3>2. at \in Nat
        BY <1>12 DEF at
      <3>3. (IF (at + 2) + c < l THEN (at + 2) + c ELSE l) = (at + 2) + c
        BY <1>13, <3>1, <3>2
      <3> QED BY <3>3 DEF l
    <2> QED BY <2>1, <2>2 DEF Slice
  <1>15. 49 <= Len(s) /\ at + 2 <= Len(s)
    <2> DEFINE l == Len(s)
    <2>1. l \in Nat /\ (at + 2) + c <= l
      BY <1>7, <1>8, <1>12
    <2> HIDE DEF l, c, n
    <2>2. 49 <= l /\ at + 2 <= l
      BY <1>12, <1>13, <2>1
    <2> QED BY <2>2 DEF l
  <1>16. ParseReceipt(s) = Unread
    BY <1>10 DEF ParseReceipt
  <1>17. ParseStandard(s) = Unread
    <2>1. ReadU16(s, 1) = 0
      BY <1>7 DEF ReadU16, At
    <2> QED BY <2>1 DEF ParseStandard
  <1>18. ParseTlv(s) = Unread
    <2>1. At(s, 1) # 1
      BY <1>7 DEF At
    <2> QED BY <2>1, Zenon DEF ParseTlv
  <1>19. ParseLegacy(s) = IF IsUtf8(x) THEN Message(m.id, x) ELSE File(m.id, Trim(x, {0, 1, 4, 8}), <<>>)
    <2>1. /\ ~(Len(s) < 14) /\ At(s, 9) # 0 /\ ~((10 + At(s, 9)) + 3 > Len(s)) /\ ~(at + 2 > Len(s))
      BY <1>8, <1>10, <1>12, <1>15
    <2>2. (10 + At(s, 9)) = 46 /\ 46 + 1 + At(s, 46) = at
      BY <1>10, <1>12
    <2> HIDE DEF at, c
    <2> QED BY <1>1, <1>4, <1>10, <1>14, <2>1, <2>2 DEF ParseLegacy, c
  <1>20. ~IsUtf8(x) => Trim(x, {0, 1, 4, 8}) = x
    <2>1. {0, 1, 4, 8} \in SUBSET Nat
      OBVIOUS
    <2> QED BY <1>1, <1>3, <2>1, LegacyTrim
  <1>21. ParseLegacy(s) = Meant(b)
    BY <1>2, <1>19, <1>20
  <1> QED BY <1>16, <1>17, <1>18, <1>21, FirstFit DEF s, m

-----------------------------------------------------------------------------
(* Announcements: the function Fields is, from every place in the payload, *)
(* of the fields still to come.                                            *)
FieldsFollow(s, f) ==
    f = [i \in 0 .. Len(s) |->
            IF i + 2 > Len(s) THEN {}
            ELSE LET next == i + 2 + At(s, i + 1)
                 IN IF next > Len(s) THEN {CutOff}
                    ELSE f[next] \cup (IF \E g \in f[next] : g[1] = At(s, i) THEN {}
                                       ELSE {<<At(s, i), Slice(s, i + 2, At(s, i + 1))>>})]

(* There is such a function.                                               *)
LEMMA FieldsExist ==
    ASSUME NEW s \in Seq(Byte)
    PROVE  \E f : FieldsFollow(s, f)
PROOF
  <1> DEFINE l == Len(s)
             D == 0 .. l
             After(i) == i + 2 + At(s, i + 1)
             Entry(i) == <<At(s, i), Slice(s, i + 2, At(s, i + 1))>>
             S == SUBSET ({Entry(i) : i \in D} \cup {CutOff})
             stop == {i \in D : i + 2 > l \/ After(i) > l}
             depth == [i \in D |-> l - i]
             base == [i \in D |-> IF i + 2 > l THEN {} ELSE {CutOff}]
             next == [i \in D |-> IF i \in stop THEN i ELSE After(i)]
             Further(i, x) == x \cup (IF \E g \in x : g[1] = At(s, i) THEN {} ELSE {Entry(i)})
             step == [y \in D \X S |-> Further(y[1], y[2])]
  <1>1. l \in Nat
    BY LenProperties
  <1>2. \A i \in D : ~(i + 2 > l) => At(s, i + 1) \in Nat
    <2> SUFFICES ASSUME NEW i \in D, ~(i + 2 > l)
                 PROVE  At(s, i + 1) \in Nat
      OBVIOUS
    <2>1. (i + 1) + 1 \in 1 .. Len(s)
      BY <1>1
    <2>2. s[(i + 1) + 1] \in Byte
      BY <2>1, ElementOfSeq
    <2>3. \A x \in Byte : x \in Nat
      BY DEF Byte
    <2> QED BY <2>2, <2>3 DEF At
  <1> HIDE DEF l
  <1>3. ASSUME NEW i \in D \ stop
        PROVE  After(i) \in D /\ After(i) > i /\ ~(i + 2 > l) /\ ~(After(i) > l)
    <2>1. i \in Nat /\ ~(i + 2 > l) /\ ~(After(i) > l) /\ At(s, i + 1) \in Nat
      BY <1>1, <1>2
    <2> DEFINE a == At(s, i + 1)
    <2> HIDE DEF a
    <2>2. i + 2 + a \in 0 .. l /\ i + 2 + a > i
      BY <1>1, <2>1 DEF a
    <2> QED BY <2>1, <2>2 DEF a
  <1>4. next \in [D -> D] /\ stop \in SUBSET D /\ \A i \in D \ stop : next[i] = After(i)
    <2> HIDE DEF D
    <2>1. \A i \in D : (IF i \in stop THEN i ELSE After(i)) \in D
      <3> HIDE DEF stop, After
      <3> QED BY <1>3
    <2>2. stop \in SUBSET D
      OBVIOUS
    <2> HIDE DEF stop, After
    <2> QED BY <2>1, <2>2
  <1>5. depth \in [D -> 0 .. l] /\ \A i \in D \ stop : depth[next[i]] < depth[i]
    <2>1. depth \in [D -> 0 .. l]
      BY <1>1
    <2>2. ASSUME NEW i \in D \ stop PROVE depth[next[i]] < depth[i]
      <3> DEFINE n == After(i)
      <3>1. n \in D /\ n > i /\ next[i] = n /\ i \in D
        BY <1>3, <1>4
      <3> HIDE DEF n, next, stop
      <3>2. depth[n] = l - n /\ depth[i] = l - i
        BY <3>1
      <3>3. l - n < l - i
        BY <1>1, <3>1
      <3> QED BY <3>1, <3>2, <3>3
    <2> QED BY <2>1, <2>2
  <1>6. base \in [D -> S] /\ step \in [D \X S -> S]
    <2>1. {} \in S /\ {CutOff} \in S
      <3> HIDE DEF Entry, D
      <3> QED OBVIOUS
    <2>2. ASSUME NEW i \in D, NEW x \in S PROVE Further(i, x) \in S
      <3> HIDE DEF Entry, D
      <3> QED OBVIOUS
    <2> HIDE DEF S, D, Further
    <2>3. base \in [D -> S]
      BY <2>1
    <2>4. \A y \in D \X S : y[1] \in D /\ y[2] \in S
      OBVIOUS
    <2> QED BY <2>2, <2>3, <2>4
  <1>7. WellFounded(D, S, l, depth, stop, base, next, step)
    <2> HIDE DEF D, S, depth, stop, base, next, step
    <2> QED BY <1>1, <1>4, <1>5, <1>6 DEF WellFounded
  <1>8. PICK f \in [D -> S] :
           \A i \in D : f[i] = IF i \in stop THEN base[i] ELSE step[<<i, f[next[i]]>>]
    <2> HIDE DEF D, S, depth, stop, base, next, step
    <2> QED BY <1>7, RecursionExists
  <1> DEFINE Value(i) == IF i + 2 > l THEN {}
                         ELSE IF After(i) > l THEN {CutOff} ELSE Further(i, f[After(i)])
  <1>9. ASSUME NEW i \in D PROVE f[i] = Value(i)
    <2>1. CASE i \in stop
      <3>1. f[i] = base[i]
        <4> HIDE DEF base, stop, D
        <4> QED BY <1>8, <2>1
      <3>2. base[i] = IF i + 2 > l THEN {} ELSE {CutOff}
        <4> HIDE DEF D
        <4> QED OBVIOUS
      <3>3. ~(i + 2 > l) => After(i) > l
        <4> HIDE DEF D, After
        <4> QED BY <2>1
      <3> HIDE DEF base, stop, After, Further, D
      <3> QED BY <3>1, <3>2, <3>3
    <2>2. CASE i \notin stop
      <3>1. next[i] = After(i) /\ After(i) \in D /\ ~(i + 2 > l) /\ ~(After(i) > l)
        <4> HIDE DEF stop, After, next, D
        <4> QED BY <1>3, <1>4, <2>2
      <3>2. f[i] = step[<<i, f[After(i)]>>]
        <4> HIDE DEF base, stop, D, step, next, After
        <4> QED BY <1>8, <2>2, <3>1
      <3>3. step[<<i, f[After(i)]>>] = Further(i, f[After(i)])
        <4> DEFINE x == f[After(i)]
        <4>1. x \in S
          <5> HIDE DEF S, D, After
          <5> QED BY <1>8, <3>1
        <4> HIDE DEF x, S, D, Further
        <4>2. step[<<i, x>>] = Further(i, x)
          BY <4>1
        <4> QED BY <4>2 DEF x
      <3> HIDE DEF step, stop, After, Further, D
      <3> QED BY <3>1, <3>2, <3>3
    <2> QED BY <2>1, <2>2
  <1>10. f = [i \in D |-> Value(i)]
    <2> HIDE DEF D, S, Value
    <2>1. f = [i \in D |-> f[i]]
      BY <1>8
    <2> QED BY <1>9, <2>1
  <1>11. FieldsFollow(s, f)
    BY <1>10, Zenon DEF FieldsFollow, l
  <1> QED BY <1>11

(* A field is found where it was written.                                  *)
FieldAt(s, f, q, t, v) ==
    /\ s \in Seq(Byte) /\ q \in Seq(Byte) /\ t \in Byte /\ v \in Seq(Byte) /\ Len(v) <= 255
    /\ Begins(s, q \o Field(t, v)) /\ FieldsFollow(s, f)

(* It adds the field to those behind it, unless they have one of its type. *)
FieldTaken(s, f, q, t, v) ==
    LET rest == f[Len(q \o Field(t, v))]
    IN  /\ Begins(s, q)
        /\ f[Len(q)] = rest \cup (IF \E g \in rest : g[1] = t THEN {} ELSE {<<t, v>>})

(* A field written there is taken.                                         *)
LEMMA FieldFound ==
    ASSUME NEW s, NEW f, NEW q, NEW t, NEW v, FieldAt(s, f, q, t, v)
    PROVE  FieldTaken(s, f, q, t, v)
PROOF
  <1> DEFINE n == Len(v)
             u == <<t, n>>
             p == q \o u
             i == Len(q)
  <1>0. /\ s \in Seq(Byte) /\ q \in Seq(Byte) /\ t \in Byte /\ v \in Seq(Byte) /\ Len(v) <= 255
        /\ Begins(s, q \o Field(t, v)) /\ FieldsFollow(s, f)
    BY DEF FieldAt
  <1>1. n \in Nat /\ n \in Byte /\ i \in Nat /\ Len(s) \in Nat
    <2>1. Len(v) \in Nat
      BY <1>0, LenProperties
    <2> QED BY <1>0, <2>1, SmallByte, LenProperties
  <1> HIDE DEF n
  <1>2. u \in Seq(Byte) /\ Len(u) = 2 /\ u[1] = t /\ u[2] = n
    BY <1>0, <1>1, Pair
  <1>3. Field(t, v) = u \o v
    BY DEF Field, n
  <1> HIDE DEF u
  <1>4. q \o Field(t, v) = p \o v /\ p \in Seq(Byte) /\ Field(t, v) \in Seq(Byte)
    <2>1. q \in Seq(Byte) /\ u \in Seq(Byte) /\ v \in Seq(Byte)
      BY <1>0, <1>2
    <2>2. (q \o u) \o v = q \o (u \o v) /\ q \o u \in Seq(Byte) /\ u \o v \in Seq(Byte)
      BY ONLY <2>1, BytesAssociate
    <2> QED BY <1>3, <2>2, Zenon
  <1>5. p \o v \in Seq(Byte) /\ Len(p \o v) = Len(p) + n /\ Len(p) + n <= Len(s)
        /\ Begins(s, p) /\ SubSeq(s, Len(p) + 1, Len(p) + n) = v
    <2> HIDE DEF p
    <2>1. Begins(s, p \o v)
      BY <1>0, <1>4
    <2> QED BY <1>0, <1>4, <2>1, BeginsPart DEF n
  <1>6. /\ Len(p) = i + 2 /\ Begins(s, q) /\ s[i + 1] = t /\ s[i + 2] = n
    <2>1. Begins(s, q \o u)
      BY <1>5
    <2>2. /\ Len(q \o u) = Len(q) + Len(u) /\ Begins(s, q)
          /\ \A j \in 1 .. Len(u) : s[Len(q) + j] = u[j]
      <3> HIDE DEF p
      <3>1. s \in Seq(Byte) /\ q \in Seq(Byte) /\ u \in Seq(Byte)
        BY <1>0, <1>2
      <3> QED BY ONLY <2>1, <3>1, BeginsPart
    <2> QED BY <1>2, <2>2
  <1> HIDE DEF p, i
  <1>7. At(s, i) = t /\ At(s, i + 1) = n /\ i + 2 + n = Len(p \o v)
    <2>1. (i + 1) + 1 = i + 2
      BY <1>1
    <2> QED BY <1>5, <1>6, <2>1 DEF At
  <1>8. Slice(s, i + 2, n) = v
    <2>1. (IF (i + 2) + n < Len(s) THEN (i + 2) + n ELSE Len(s)) = Len(p) + n
      BY <1>1, <1>5, <1>6
    <2>2. (i + 2) + 1 = Len(p) + 1
      BY <1>6
    <2> QED BY <1>5, <2>1, <2>2 DEF Slice
  <1>9. i \in 0 .. Len(s) /\ ~(i + 2 > Len(s)) /\ ~(i + 2 + n > Len(s))
    BY <1>1, <1>5, <1>6
  <1>10. f[i] = f[i + 2 + n] \cup (IF \E g \in f[i + 2 + n] : g[1] = t THEN {} ELSE {<<t, v>>})
    <2>1. f[i] = IF i + 2 > Len(s) THEN {}
                 ELSE LET next == i + 2 + At(s, i + 1)
                      IN IF next > Len(s) THEN {CutOff}
                         ELSE f[next] \cup (IF \E g \in f[next] : g[1] = At(s, i) THEN {}
                                            ELSE {<<At(s, i), Slice(s, i + 2, At(s, i + 1))>>})
      BY <1>0, <1>9, Zenon DEF FieldsFollow
    <2> QED BY <1>7, <1>8, <1>9, <2>1
  <1> QED BY <1>4, <1>5, <1>6, <1>7, <1>10 DEF i, FieldTaken

(* At the end of the payload no field is left.                             *)
LEMMA NoFieldLeft ==
    ASSUME NEW s \in Seq(Byte), NEW f, FieldsFollow(s, f)
    PROVE  f[Len(s)] = {}
PROOF
  <1>1. Len(s) \in Nat /\ Len(s) \in 0 .. Len(s) /\ Len(s) + 2 > Len(s)
    BY LenProperties
  <1> QED BY <1>1, Zenon DEF FieldsFollow

(* What is there of the fields an announcement is made of.                 *)
Announced(F, a) ==
    /\ CutOff \notin F
    /\ \A g \in F : g[1] \in {1, 2, 3} =>
          g \in {<<1, Slice(a.nick, 0, 15)>>, <<2, a.noise>>, <<3, a.sign>>}
    /\ {<<1, Slice(a.nick, 0, 15)>>, <<2, a.noise>>, <<3, a.sign>>} \subseteq F

(* A field before them does not change those of the announcement: the last *)
(* of a type counts.                                                       *)
LEMMA AnnouncedStays ==
    ASSUME NEW F, NEW a, Announced(F, a), NEW t \in Byte, NEW v
    PROVE  Announced(F \cup (IF \E g \in F : g[1] = t THEN {} ELSE {<<t, v>>}), a)
PROOF
  <1>1. CASE \E g \in F : g[1] = t
    <2>1. F \cup (IF \E g \in F : g[1] = t THEN {} ELSE {<<t, v>>}) = F
      BY <1>1
    <2> QED BY <2>1
  <1>2. CASE ~\E g \in F : g[1] = t
    <2> DEFINE G == F \cup {<<t, v>>}
    <2>1. F \cup (IF \E g \in F : g[1] = t THEN {} ELSE {<<t, v>>}) = G
      BY <1>2
    <2>2. <<t, v>> # CutOff
      BY DEF CutOff, Byte
    <2>3. t \notin {1, 2, 3}
      BY <1>2 DEF Announced
    <2>4. Announced(G, a)
      BY <2>2, <2>3 DEF Announced
    <2> QED BY <2>1, <2>4
  <1> QED BY <1>1, <1>2

(* DecodeAnnounce reads the announcement from those fields.                *)
LEMMA AnnouncedRead ==
    ASSUME NEW s, NEW a, Announced(Fields(s), a), IsUtf8(Slice(a.nick, 0, 15))
    PROVE  DecodeAnnounce(s) = [nick |-> Slice(a.nick, 0, 15), noise |-> a.noise, sign |-> a.sign]
PROOF
  <1> DEFINE F == Fields(s)
             Value(tag) == (CHOOSE g \in F : g[1] = tag)[2]
             cut == Slice(a.nick, 0, 15)
  <1>1. DecodeAnnounce(s) =
            IF CutOff \notin F /\ {1, 2, 3} \subseteq {g[1] : g \in F}
            THEN [nick |-> Text(Value(1)), noise |-> Value(2), sign |-> Value(3)] ELSE Unread
    BY Zenon DEF DecodeAnnounce, NICKNAME, NOISE_PUB, SIGN_PUB
  <1>a. Text(cut) = cut
    BY DEF Text
  <1> HIDE DEF F, cut
  <1>2. /\ CutOff \notin F
        /\ \A g \in F : g[1] \in {1, 2, 3} => g \in {<<1, cut>>, <<2, a.noise>>, <<3, a.sign>>}
        /\ <<1, cut>> \in F /\ <<2, a.noise>> \in F /\ <<3, a.sign>> \in F
    BY DEF Announced, F, cut
  <1>3. {1, 2, 3} \subseteq {g[1] : g \in F}
    <2>1. 1 = <<1, cut>>[1] /\ 2 = <<2, a.noise>>[1] /\ 3 = <<3, a.sign>>[1]
      OBVIOUS
    <2> QED BY <1>2, <2>1
  <1>4. Value(1) = cut
    <2>1. \A g \in F : g[1] = 1 => g = <<1, cut>>
      BY <1>2
    <2>2. (CHOOSE g \in F : g[1] = 1) = <<1, cut>>
      BY <1>2, <2>1
    <2>3. <<1, cut>>[2] = cut
      OBVIOUS
    <2> QED BY <2>2, <2>3, Zenon
  <1>5. Value(2) = a.noise
    <2>1. \A g \in F : g[1] = 2 => g = <<2, a.noise>>
      BY <1>2
    <2>2. (CHOOSE g \in F : g[1] = 2) = <<2, a.noise>>
      BY <1>2, <2>1
    <2>3. <<2, a.noise>>[2] = a.noise
      OBVIOUS
    <2> QED BY <2>2, <2>3, Zenon
  <1>6. Value(3) = a.sign
    <2>1. \A g \in F : g[1] = 3 => g = <<3, a.sign>>
      BY <1>2
    <2>2. (CHOOSE g \in F : g[1] = 3) = <<3, a.sign>>
      BY <1>2, <2>1
    <2>3. <<3, a.sign>>[2] = a.sign
      OBVIOUS
    <2> QED BY <2>2, <2>3, Zenon
  <1> HIDE DEF Value
  <1> QED BY <1>1, <1>2, <1>3, <1>4, <1>5, <1>6, <1>a DEF cut

(* The bytes of any field.                                                 *)
FieldBytes == {Field(t, v) : t \in Byte, v \in {x \in Seq(Byte) : Len(x) <= 255}}

(* An announcement with whatever fields a phone writes before those of     *)
(* encode_announce, and with a nick that is not cut inside a character;    *)
(* the keys have 32 bytes, a field at most 255.                            *)
AnnounceFormat(b) ==
    /\ b.type = "announce"
    /\ b.announce \in [nick : Seq(Byte), noise : Seq(Byte), sign : Seq(Byte)]
    /\ Len(b.announce.noise) <= 255 /\ Len(b.announce.sign) <= 255
    /\ IsUtf8(Slice(b.announce.nick, 0, 15))
    /\ \E parts \in Seq(Seq(Byte)) : /\ \A k \in 1 .. Len(parts) : parts[k] \in FieldBytes
                                     /\ b.more = FlattenSeq(parts)

(* The same of all sequences of bytes at once.                             *)
LEMMA AllAssociate == \A c, d, e \in Seq(Byte) : (c \o d) \o e = c \o (d \o e)
OBVIOUS

(* Its three fields, one behind the other.                                 *)
LEMMA AnnounceType ==
    ASSUME NEW a \in [nick : Seq(Byte), noise : Seq(Byte), sign : Seq(Byte)],
           Len(a.noise) <= 255, Len(a.sign) <= 255, NEW r \in Seq(Byte)
    PROVE  LET x == Slice(a.nick, 0, 15)
               u == Field(1, x)
               v == Field(2, a.noise)
               w == Field(3, a.sign)
           IN  /\ x \in Seq(Byte) /\ Len(x) <= 255
               /\ r \o u \in Seq(Byte) /\ (r \o u) \o v \in Seq(Byte)
               /\ ((r \o u) \o v) \o w = r \o EncodeAnnounce(a)
               /\ r \o EncodeAnnounce(a) \in Seq(Byte)
PROOF
  <1> DEFINE x == Slice(a.nick, 0, 15)
             y == a.noise
             z == a.sign
             u == Field(1, x)
             v == Field(2, y)
             w == Field(3, z)
             p == r \o u
             q == p \o v
             s == r \o EncodeAnnounce(a)
  <1>1. /\ x \in Seq(Byte) /\ y \in Seq(Byte) /\ z \in Seq(Byte)
        /\ Len(x) <= 255 /\ Len(y) <= 255 /\ Len(z) <= 255
        /\ 1 \in Byte /\ 2 \in Byte /\ 3 \in Byte
    <2>1. a.nick \in Seq(Byte) /\ y \in Seq(Byte) /\ z \in Seq(Byte)
      OBVIOUS
    <2>2. x \in Seq(Byte) /\ Len(x) <= 15
      BY <2>1, Cut
    <2>3. Len(x) \in Nat
      BY <2>2, LenProperties
    <2> QED BY <2>1, <2>2, <2>3 DEF Byte
  <1> HIDE DEF x, y, z
  <1>2. u \in Seq(Byte) /\ v \in Seq(Byte) /\ w \in Seq(Byte)
    <2>1. ASSUME NEW t \in Byte, NEW c \in Seq(Byte), Len(c) <= 255 PROVE Field(t, c) \in Seq(Byte)
      <3>1. Len(c) \in Byte
        BY <2>1, LenProperties, SmallByte
      <3>2. <<t, Len(c)>> \in Seq(Byte)
        BY <3>1, Pair
      <3> DEFINE h == <<t, Len(c)>>
      <3> HIDE DEF h
      <3>3. h \o c \in Seq(Byte)
        BY <3>2, BytesAssociate DEF h
      <3> QED BY <3>3 DEF h, Field
    <2> QED BY <1>1, <2>1
  <1>3. EncodeAnnounce(a) = (u \o v) \o w
    BY DEF EncodeAnnounce, NICKNAME, NOISE_PUB, SIGN_PUB, x, y, z
  <1> HIDE DEF u, v, w
  <1>4. s = q \o w /\ p \in Seq(Byte) /\ q \in Seq(Byte) /\ s \in Seq(Byte)
    <2>1. r \in Seq(Byte)
      OBVIOUS
    <2>a. \A c, d \in Seq(Byte) : c \o d \in Seq(Byte)
      BY ConcatProperties
    <2>b. \A c, d, e \in Seq(Byte) : (c \o d) \o e = c \o (d \o e)
      BY AllAssociate
    <2>2. (r \o u) \o v = r \o (u \o v) /\ p \in Seq(Byte) /\ u \o v \in Seq(Byte)
      <3>1. p \in Seq(Byte) /\ u \o v \in Seq(Byte)
        BY ONLY <1>2, <2>1, <2>a
      <3>2. (r \o u) \o v = r \o (u \o v)
        BY ONLY <1>2, <2>1, <2>b
      <3> QED BY <3>1, <3>2
    <2> DEFINE o == u \o v
    <2> HIDE DEF p
    <2>3. q \in Seq(Byte)
      BY ONLY <1>2, <2>2, <2>a
    <2>4. (r \o o) \o w = r \o (o \o w)
      <3>1. r \in Seq(Byte) /\ o \in Seq(Byte) /\ w \in Seq(Byte)
        BY <1>2, <2>2
      <3> HIDE DEF o
      <3> QED BY ONLY <2>b, <3>1
    <2>5. s = q \o w
      BY <1>3, <2>2, <2>4, Zenon DEF p, o
    <2> HIDE DEF q
    <2>6. q \o w \in Seq(Byte)
      BY ONLY <1>2, <2>3, <2>a
    <2> QED BY <2>2, <2>3, <2>5, <2>6
  <1> HIDE DEF p, q
  <1> QED BY <1>1, <1>4 DEF p, q, s, u, v, w, x, y, z

(* Behind whatever comes first, the three fields of encode_announce are    *)
(* found.                                                                  *)
LEMMA OwnFields ==
    ASSUME NEW a \in [nick : Seq(Byte), noise : Seq(Byte), sign : Seq(Byte)],
           Len(a.noise) <= 255, Len(a.sign) <= 255, NEW r \in Seq(Byte),
           NEW s, s = r \o EncodeAnnounce(a), NEW f, FieldsFollow(s, f)
    PROVE  Begins(s, r) /\ Announced(f[Len(r)], a)
PROOF
  <1> DEFINE x == Slice(a.nick, 0, 15)
             y == a.noise
             z == a.sign
             u == Field(1, x)
             v == Field(2, y)
             w == Field(3, z)
             p == r \o u
             q == p \o v
  <1>1. /\ x \in Seq(Byte) /\ y \in Seq(Byte) /\ z \in Seq(Byte)
        /\ Len(x) <= 255 /\ Len(y) <= 255 /\ Len(z) <= 255
        /\ 1 \in Byte /\ 2 \in Byte /\ 3 \in Byte
    <2>1. x \in Seq(Byte) /\ Len(x) <= 255
      BY AnnounceType
    <2>2. y \in Seq(Byte) /\ z \in Seq(Byte)
      OBVIOUS
    <2>3. 1 \in Byte /\ 2 \in Byte /\ 3 \in Byte
      BY DEF Byte
    <2> HIDE DEF x
    <2> QED BY <2>1, <2>2, <2>3
  <1>4. s = q \o w /\ p \in Seq(Byte) /\ q \in Seq(Byte) /\ s \in Seq(Byte)
    BY AnnounceType
  <1> HIDE DEF x, y, z, u, v, w, p, q
  <1>5. Begins(s, q \o w)
    <2>1. Len(s) \in Nat
      BY <1>4, LenProperties
    <2> QED BY <1>4, <2>1 DEF Begins
  <1>6. /\ Begins(s, q)
        /\ f[Len(q)] = f[Len(s)] \cup (IF \E g \in f[Len(s)] : g[1] = 3 THEN {} ELSE {<<3, z>>})
    <2>1. FieldAt(s, f, q, 3, z)
      BY <1>1, <1>4, <1>5 DEF FieldAt, w
    <2>2. FieldTaken(s, f, q, 3, z)
      BY <2>1, FieldFound
    <2> QED BY <1>4, <2>2 DEF FieldTaken, w
  <1>7. /\ Begins(s, p)
        /\ f[Len(p)] = f[Len(q)] \cup (IF \E g \in f[Len(q)] : g[1] = 2 THEN {} ELSE {<<2, y>>})
    <2>1. FieldAt(s, f, p, 2, y)
      BY <1>1, <1>4, <1>6 DEF FieldAt, v, q
    <2>2. FieldTaken(s, f, p, 2, y)
      BY <2>1, FieldFound
    <2> QED BY <2>2 DEF FieldTaken, q, v
  <1>8. /\ Begins(s, r)
        /\ f[Len(r)] = f[Len(p)] \cup (IF \E g \in f[Len(p)] : g[1] = 1 THEN {} ELSE {<<1, x>>})
    <2>1. FieldAt(s, f, r, 1, x)
      BY <1>1, <1>4, <1>7 DEF FieldAt, u, p
    <2>2. FieldTaken(s, f, r, 1, x)
      BY <2>1, FieldFound
    <2> QED BY <2>2 DEF FieldTaken, p, u
  <1>9. f[Len(s)] = {}
    BY <1>4, NoFieldLeft
  <1>10. f[Len(q)] = {<<3, z>>}
    BY <1>6, <1>9
  <1>11. f[Len(p)] = {<<2, y>>, <<3, z>>}
    BY <1>7, <1>10
  <1>12. f[Len(r)] = {<<1, x>>, <<2, y>>, <<3, z>>}
    BY <1>8, <1>11
  <1>13. Announced({<<1, x>>, <<2, y>>, <<3, z>>}, a)
    <2>1. CutOff \notin {<<1, x>>, <<2, y>>, <<3, z>>}
      BY DEF CutOff
    <2> QED BY <2>1 DEF Announced, x, y, z
  <1> QED BY <1>8, <1>12, <1>13

(* Parts behind one another are bytes.                                     *)
LEMMA FlattenType ==
    ASSUME NEW parts \in Seq(Seq(Byte))
    PROVE  FlattenSeq(parts) \in Seq(Byte)
PROOF
  <1>1. CASE Len(parts) = 0
    <2>1. parts = <<>>
      BY <1>1, EmptySeq
    <2>2. FlattenSeq(parts) = <<>>
      BY <2>1 DEF FlattenSeq
    <2> QED BY <2>2, EmptySeq
  <1>2. CASE Len(parts) # 0
    <2>1. Len(parts) \in Nat /\ Len(parts) > 0 /\ Len(parts) \in 1 .. Len(parts)
      BY <1>2, LenProperties
    <2>2. PICK f \in [1 .. Len(parts) -> Seq(Byte)] : FlattenSeq(parts) = f[Len(parts)]
      BY <2>1, FlattenFollows
    <2> QED BY <2>1, <2>2
  <1> QED BY <1>1, <1>2

(* Field by field from the last to the first: those before the             *)
(* announcement do not change it.                                          *)
LEMMA FieldsBefore ==
    ASSUME NEW s \in Seq(Byte), NEW f, FieldsFollow(s, f), NEW a, NEW parts \in Seq(Seq(Byte)),
           \A k \in 1 .. Len(parts) : parts[k] \in FieldBytes, Begins(s, FlattenSeq(parts)),
           Announced(f[Len(FlattenSeq(parts))], a)
    PROVE  Announced(f[0], a)
PROOF
  <1> DEFINE n == Len(parts)
             T == Seq(Byte)
             e == <<>>
  <1>1. n \in Nat /\ e \in T /\ Len(e) = 0
    BY LenProperties, EmptySeq
  <1>2. CASE n = 0
    <2>1. FlattenSeq(parts) = <<>>
      <3>1. parts = <<>>
        BY <1>2, EmptySeq
      <3> QED BY <3>1 DEF FlattenSeq
    <2> QED BY <1>1, <2>1
  <1>3. CASE n # 0
    <2> HIDE DEF e
    <2>1. PICK p \in [0 .. n -> T] :
             /\ p[0] = e /\ p[n] = e \o FlattenSeq(parts)
             /\ \A k \in 1 .. n : p[k] = p[k - 1] \o parts[k]
      <3>1. e \in Seq(Byte) /\ Len(parts) > 0
        BY <1>1, <1>3
      <3>2. \E p \in [0 .. Len(parts) -> Seq(Byte)] :
               /\ p[0] = e /\ p[Len(parts)] = e \o FlattenSeq(parts)
               /\ \A k \in 1 .. Len(parts) : p[k] = p[k - 1] \o parts[k]
        BY <3>1, WrittenInSteps
      <3> QED BY <3>2
    <2> DEFINE w == FlattenSeq(parts)
    <2>2. p[n] = w
      <3>1. w \in Seq(Byte)
        BY FlattenType
      <3> HIDE DEF w
      <3>2. <<>> \o w = w
        BY <3>1, ConcatEmptySeq
      <3> QED BY <2>1, <3>2, Zenon DEF e, w
    <2> HIDE DEF n, w
    <2>3. \A k \in 1 .. n : parts[k] \in T
      BY ElementOfSeq DEF n
    <2>4. \A k \in 0 .. n : Begins(s, p[k])
      <3>1. Begins(s, p[n])
        BY <2>2 DEF w
      <3>2. \A k \in 1 .. n : parts[k] \in Seq(Byte) /\ p[k] = p[k - 1] \o parts[k]
        BY <2>1, <2>3
      <3>3. p \in [0 .. n -> Seq(Byte)]
        BY <2>1
      <3>4. s \in Seq(Byte) /\ n \in Nat
        BY <1>1
      <3> QED BY ONLY <3>1, <3>2, <3>3, <3>4, StepsBegin
    <2>5. ASSUME NEW k \in 1 .. n, Announced(f[Len(p[k])], a)
          PROVE  Announced(f[Len(p[k - 1])], a)
      <3>1. k - 1 \in 0 .. n /\ k \in 0 .. n
        BY <1>1
      <3>2. PICK t \in Byte, v \in Seq(Byte) : Len(v) <= 255 /\ parts[k] = Field(t, v)
        BY DEF FieldBytes, n
      <3> DEFINE q == p[k - 1]
      <3>3. q \in Seq(Byte) /\ p[k] = q \o Field(t, v) /\ Begins(s, q \o Field(t, v))
        BY <2>1, <2>4, <3>1, <3>2
      <3> HIDE DEF q
      <3> DEFINE F == f[Len(q \o Field(t, v))]
      <3>4. f[Len(q)] = F \cup (IF \E g \in F : g[1] = t THEN {} ELSE {<<t, v>>})
        <4>1. FieldAt(s, f, q, t, v)
          BY <3>2, <3>3 DEF FieldAt
        <4>2. FieldTaken(s, f, q, t, v)
          BY <4>1, FieldFound
        <4> QED BY <4>2 DEF FieldTaken
      <3>5. Announced(F, a)
        BY <2>5, <3>3
      <3> HIDE DEF F
      <3>6. Announced(F \cup (IF \E g \in F : g[1] = t THEN {} ELSE {<<t, v>>}), a)
        BY <3>5, AnnouncedStays
      <3>7. Announced(f[Len(q)], a)
        BY <3>4, <3>6, Zenon
      <3> QED BY <3>7 DEF q
    <2> DEFINE Lost == {k \in 0 .. n : ~Announced(f[Len(p[n - k])], a)}
    <2>6. ASSUME Lost # {} PROVE FALSE
      <3>1. PICK k \in Lost : \A j \in Lost : k <= j
        <4>1. Lost \subseteq Nat
          OBVIOUS
        <4> HIDE DEF Lost
        <4> QED BY <2>6, <4>1, LeastNumber
      <3>2. k \in 0 .. n /\ ~Announced(f[Len(p[n - k])], a)
        OBVIOUS
      <3>3. n - 0 = n /\ Announced(f[Len(p[n])], a)
        BY <1>1, <2>2 DEF w
      <3>4. k # 0
        BY <3>2, <3>3
      <3>5. k - 1 \in 0 .. n /\ ~(k <= k - 1) /\ n - (k - 1) \in 1 .. n /\ n - (k - 1) - 1 = n - k
        BY <1>1, <3>2, <3>4
      <3>6. k - 1 \notin Lost
        <4> HIDE DEF Lost
        <4> QED BY <3>1, <3>5
      <3>7. Announced(f[Len(p[n - (k - 1)])], a)
        BY <3>5, <3>6
      <3>8. Announced(f[Len(p[n - k])], a)
        BY <2>5, <3>5, <3>7
      <3> QED BY <3>2, <3>8
    <2>7. n \in 0 .. n /\ n - n = 0
      BY <1>1
    <2>8. Announced(f[Len(p[0])], a)
      BY <2>6, <2>7
    <2> QED BY <1>1, <2>1, <2>8 DEF e
  <1> QED BY <1>2, <1>3

(* An announcement is read as what it announces.                           *)
LEMMA AnnounceRead ==
    ASSUME NEW b, AnnounceFormat(b)
    PROVE  Read(b) = Meant(b)
PROOF
  <1> DEFINE a == b.announce
             m == b.more
             s == m \o EncodeAnnounce(a)
             f == CHOOSE g : FieldsFollow(s, g)
  <1>1. /\ a \in [nick : Seq(Byte), noise : Seq(Byte), sign : Seq(Byte)]
        /\ Len(a.noise) <= 255 /\ Len(a.sign) <= 255
        /\ IsUtf8(Slice(a.nick, 0, 15))
    BY DEF AnnounceFormat
  <1>2. PICK parts \in Seq(Seq(Byte)) : /\ \A k \in 1 .. Len(parts) : parts[k] \in FieldBytes
                                        /\ m = FlattenSeq(parts)
    BY DEF AnnounceFormat
  <1>3. /\ Read(b) = DecodeAnnounce(s)
        /\ Meant(b) = [a EXCEPT !.nick = Slice(a.nick, 0, 15)]
    <2>1. Read(b) = DecodeAnnounce(s) /\ Meant(b) = [a EXCEPT !.nick = NickShown(a.nick)]
      BY DEF AnnounceFormat, Read, Meant, Payload, Private
    <2>2. NickShown(a.nick) = Slice(a.nick, 0, 15)
      BY <1>1 DEF NickShown
    <2> QED BY <2>1, <2>2
  <1> HIDE DEF a, m
  <1>4. m \in Seq(Byte)
    BY <1>2, FlattenType
  <1>5. s \in Seq(Byte)
    BY <1>1, <1>4, AnnounceType
  <1> HIDE DEF s
  <1>6. FieldsFollow(s, f)
    <2>1. \E g : FieldsFollow(s, g)
      BY <1>5, FieldsExist
    <2> QED BY <2>1
  <1>7. Fields(s) = f[0]
    BY Zenon DEF Fields, FieldsFollow, f
  <1> HIDE DEF f
  <1>8. Begins(s, m) /\ Announced(f[Len(m)], a)
    BY <1>1, <1>4, <1>6, OwnFields DEF s
  <1>9. Announced(f[0], a)
    BY <1>2, <1>5, <1>6, <1>8, FieldsBefore
  <1>10. DecodeAnnounce(s) = [nick |-> Slice(a.nick, 0, 15), noise |-> a.noise, sign |-> a.sign]
    BY <1>1, <1>7, <1>9, AnnouncedRead
  <1>11. [a EXCEPT !.nick = Slice(a.nick, 0, 15)] =
            [nick |-> Slice(a.nick, 0, 15), noise |-> a.noise, sign |-> a.sign]
    BY <1>1
  <1> QED BY <1>3, <1>10, <1>11

-----------------------------------------------------------------------------
(* Files in fields: the function ParseTlv is, from every place in the      *)
(* payload.                                                                *)
TlvFollow(s, file) ==
    file = [i \in 0 .. Len(s) |->
            IF i + 3 > Len(s) \/ (At(s, i) = 4 /\ i + 5 > Len(s)) THEN [names |-> <<>>, data |-> <<>>]
            ELSE IF At(s, i) = 4
                 THEN [[names |-> <<>>, data |-> <<>>] EXCEPT !.data = Slice(s, i + 5, ReadU32(s, i + 1))]
            ELSE LET next == i + 3 + ReadU16(s, i + 1)
                     f == IF next > Len(s) THEN [names |-> <<>>, data |-> <<>>] ELSE file[next]
                 IN IF At(s, i) = 0
                    THEN [f EXCEPT !.names = <<Slice(s, i + 3, ReadU16(s, i + 1))>> \o @] ELSE f]

(* There is such a function.                                               *)
LEMMA TlvExists ==
    ASSUME NEW s \in Seq(Byte)
    PROVE  \E f : TlvFollow(s, f)
PROOF
  <1> DEFINE l == Len(s)
             D == 0 .. l
             nothing == [names |-> <<>>, data |-> <<>>]
             After(i) == i + 3 + ReadU16(s, i + 1)
             Name(i) == Slice(s, i + 3, ReadU16(s, i + 1))
             Data(i) == Slice(s, i + 5, ReadU32(s, i + 1))
             N == {Name(i) : i \in D}
             E == {Data(i) : i \in D} \cup {<<>>}
             S == [names : Seq(N), data : E]
             Ends(i) == i + 3 > l \/ (At(s, i) = 4 /\ i + 5 > l)
             Found(i) == [nothing EXCEPT !.data = Data(i)]
             Further(i, x) == IF At(s, i) = 0 THEN [x EXCEPT !.names = <<Name(i)>> \o @] ELSE x
             First(i) == IF Ends(i) THEN nothing ELSE IF At(s, i) = 4 THEN Found(i) ELSE Further(i, nothing)
             stop == {i \in D : i + 3 > l \/ At(s, i) = 4 \/ After(i) > l}
             depth == [i \in D |-> l - i]
             base == [i \in D |-> First(i)]
             next == [i \in D |-> IF i \in stop THEN i ELSE After(i)]
             step == [y \in D \X S |-> Further(y[1], y[2])]
  <1>1. l \in Nat
    BY LenProperties
  <1>2. \A i \in D : ~(i + 3 > l) => ReadU16(s, i + 1) \in Nat
    <2> SUFFICES ASSUME NEW i \in D, ~(i + 3 > l)
                 PROVE  ReadU16(s, i + 1) \in Nat
      OBVIOUS
    <2>1. (i + 1) + 1 \in 1 .. Len(s) /\ ((i + 1) + 1) + 1 \in 1 .. Len(s)
      BY <1>1
    <2>2. s[(i + 1) + 1] \in Byte /\ s[((i + 1) + 1) + 1] \in Byte
      BY <2>1, ElementOfSeq
    <2>3. \A x, y \in Byte : 256 * x + y \in Nat
      BY DEF Byte
    <2> QED BY <2>2, <2>3 DEF ReadU16, At
  <1> HIDE DEF l
  <1>3. ASSUME NEW i \in D \ stop
        PROVE  After(i) \in D /\ After(i) > i /\ ~(i + 3 > l) /\ ~(After(i) > l) /\ At(s, i) # 4
    <2>1. i \in Nat /\ ~(i + 3 > l) /\ ~(After(i) > l) /\ ReadU16(s, i + 1) \in Nat /\ At(s, i) # 4
      BY <1>1, <1>2
    <2> DEFINE a == ReadU16(s, i + 1)
    <2> HIDE DEF a
    <2>2. i + 3 + a \in 0 .. l /\ i + 3 + a > i
      BY <1>1, <2>1 DEF a
    <2> QED BY <2>1, <2>2 DEF a
  <1>4. next \in [D -> D] /\ stop \in SUBSET D /\ \A i \in D \ stop : next[i] = After(i)
    <2> HIDE DEF D
    <2>1. \A i \in D : (IF i \in stop THEN i ELSE After(i)) \in D
      <3> HIDE DEF stop, After
      <3> QED BY <1>3
    <2>2. stop \in SUBSET D
      OBVIOUS
    <2> HIDE DEF stop, After
    <2> QED BY <2>1, <2>2
  <1>5. depth \in [D -> 0 .. l] /\ \A i \in D \ stop : depth[next[i]] < depth[i]
    <2>1. depth \in [D -> 0 .. l]
      BY <1>1
    <2>2. ASSUME NEW i \in D \ stop PROVE depth[next[i]] < depth[i]
      <3> DEFINE n == After(i)
      <3>1. n \in D /\ n > i /\ next[i] = n /\ i \in D
        BY <1>3, <1>4
      <3> HIDE DEF n, next, stop
      <3>2. depth[n] = l - n /\ depth[i] = l - i
        BY <3>1
      <3>3. l - n < l - i
        BY <1>1, <3>1
      <3> QED BY <3>1, <3>2, <3>3
    <2> QED BY <2>1, <2>2
  <1>6. base \in [D -> S] /\ step \in [D \X S -> S]
    <2> HIDE DEF Ends
    <2>1. ASSUME NEW i \in D PROVE Name(i) \in N /\ Data(i) \in E /\ <<>> \in E /\ <<>> \in Seq(N)
      <3>1. Name(i) \in N /\ Data(i) \in E /\ <<>> \in E
        <4> HIDE DEF Name, Data, D
        <4> QED OBVIOUS
      <3> HIDE DEF N
      <3> QED BY <3>1, EmptySeq
    <2> HIDE DEF N, E, Name, Data
    <2>2. ASSUME NEW i \in D PROVE nothing \in S /\ Found(i) \in S
      <3> DEFINE T == Seq(N)
      <3>1. Data(i) \in E /\ <<>> \in E /\ <<>> \in T
        BY <2>1
      <3> HIDE DEF T
      <3> QED BY <3>1 DEF T
    <2>3. ASSUME NEW i \in D, NEW x \in S PROVE Further(i, x) \in S
      <3>1. x.names \in Seq(N) /\ x.data \in E /\ x = [names |-> x.names, data |-> x.data]
        OBVIOUS
      <3>2. <<Name(i)>> \o x.names \in Seq(N)
        <4> DEFINE v == Name(i)
                   w == x.names
        <4>1. v \in N /\ w \in Seq(N)
          BY <2>1, <3>1
        <4> HIDE DEF v, w
        <4>2. <<v>> \in Seq(N)
          BY <4>1, Single
        <4>3. <<v>> \o w \in Seq(N)
          BY <4>1, <4>2, ConcatProperties
        <4> QED BY <4>3 DEF v, w
      <3> DEFINE T == Seq(N)
      <3>3. [x EXCEPT !.names = <<Name(i)>> \o @] \in S
        <4>1. <<Name(i)>> \o x.names \in T /\ x.data \in E /\ x \in [names : T, data : E]
          BY <3>1, <3>2
        <4> HIDE DEF T
        <4>2. [x EXCEPT !.names = <<Name(i)>> \o @] \in [names : T, data : E]
          BY <4>1
        <4> QED BY <4>2 DEF T
      <3> HIDE DEF S
      <3> QED BY <3>3
    <2> HIDE DEF S, D, Further, Found, nothing
    <2>4. \A i \in D : First(i) \in S
      BY <2>2, <2>3
    <2> HIDE DEF First
    <2>5. base \in [D -> S]
      BY <2>4
    <2>6. \A y \in D \X S : y[1] \in D /\ y[2] \in S
      OBVIOUS
    <2> QED BY <2>3, <2>5, <2>6
  <1>7. WellFounded(D, S, l, depth, stop, base, next, step)
    <2> HIDE DEF D, S, depth, stop, base, next, step
    <2> QED BY <1>1, <1>4, <1>5, <1>6 DEF WellFounded
  <1>8. PICK f \in [D -> S] :
           \A i \in D : f[i] = IF i \in stop THEN base[i] ELSE step[<<i, f[next[i]]>>]
    <2> HIDE DEF D, S, depth, stop, base, next, step
    <2> QED BY <1>7, RecursionExists
  <1> DEFINE Value(i) == IF Ends(i) THEN nothing
                         ELSE IF At(s, i) = 4 THEN Found(i)
                         ELSE Further(i, IF After(i) > l THEN nothing ELSE f[After(i)])
  <1>9. ASSUME NEW i \in D PROVE f[i] = Value(i)
    <2>1. CASE i \in stop
      <3>1. f[i] = base[i]
        <4> HIDE DEF base, stop, D
        <4> QED BY <1>8, <2>1
      <3>2. base[i] = First(i)
        <4> HIDE DEF D, First
        <4> QED OBVIOUS
      <3>3. Ends(i) \/ At(s, i) = 4 \/ After(i) > l
        <4> HIDE DEF D, After
        <4> QED BY <2>1
      <3> HIDE DEF base, stop, After, Further, Found, nothing, Ends, D
      <3> QED BY <3>1, <3>2, <3>3
    <2>2. CASE i \notin stop
      <3>1. next[i] = After(i) /\ After(i) \in D /\ ~Ends(i) /\ At(s, i) # 4 /\ ~(After(i) > l)
        <4>1. next[i] = After(i) /\ After(i) \in D /\ ~(i + 3 > l) /\ At(s, i) # 4 /\ ~(After(i) > l)
          <5> HIDE DEF stop, After, next, D
          <5> QED BY <1>3, <1>4, <2>2
        <4> HIDE DEF stop, After, next, D
        <4> QED BY <4>1
      <3>2. f[i] = step[<<i, f[After(i)]>>]
        <4> HIDE DEF base, stop, D, step, next, After
        <4> QED BY <1>8, <2>2, <3>1
      <3>3. step[<<i, f[After(i)]>>] = Further(i, f[After(i)])
        <4> DEFINE x == f[After(i)]
        <4>1. x \in S
          <5> HIDE DEF S, D, After
          <5> QED BY <1>8, <3>1
        <4> HIDE DEF x, S, D, Further
        <4>2. step[<<i, x>>] = Further(i, x)
          BY <4>1
        <4> QED BY <4>2 DEF x
      <3> HIDE DEF step, stop, After, Further, Found, nothing, Ends, D
      <3> QED BY <3>1, <3>2, <3>3
    <2> QED BY <2>1, <2>2
  <1>10. f = [i \in D |-> Value(i)]
    <2> HIDE DEF D, S, Value
    <2>1. f = [i \in D |-> f[i]]
      BY <1>8
    <2> QED BY <1>9, <2>1
  <1>11. TlvFollow(s, f)
    BY <1>10, Zenon DEF TlvFollow, l
  <1> QED BY <1>11

(* The two bytes of a length.                                              *)
TwoBytes(n, u) ==
    /\ u \in Seq(Byte) /\ Len(u) = 2
    /\ u[1] \in Nat /\ u[2] \in Nat /\ 256 * u[1] + u[2] = n

(* U16 writes a length ReadU16 reads.                                      *)
LEMMA LengthBytes ==
    ASSUME NEW n \in Nat, n <= 65535
    PROVE  TwoBytes(n, U16(n))
PROOF
  <1> DEFINE k == n \div 256
             l == n % 256
  <1>1. k \in Byte /\ l \in Byte /\ k \in Nat /\ l \in Nat /\ 256 * k + l = n
    BY DEF Byte
  <1>3. U16(n) = <<k, l>>
    BY DEF U16
  <1> HIDE DEF k, l
  <1>2. <<k, l>> \in Seq(Byte) /\ Len(<<k, l>>) = 2 /\ <<k, l>>[1] = k /\ <<k, l>>[2] = l
    BY <1>1, Pair
  <1> DEFINE u == <<k, l>>
  <1>4. u \in Seq(Byte) /\ Len(u) = 2 /\ u[1] = k /\ u[2] = l
    BY <1>2
  <1> HIDE DEF u
  <1>5. TwoBytes(n, u)
    BY <1>1, <1>4 DEF TwoBytes
  <1> QED BY <1>3, <1>5 DEF u

(* Two sequences of bytes, one behind the other.                           *)
LEMMA Behind ==
    ASSUME NEW c \in Seq(Byte), NEW d \in Seq(Byte)
    PROVE  c \o d \in Seq(Byte) /\ Len(c \o d) = Len(c) + Len(d)
BY ConcatProperties

(* A sequence of three.                                                    *)
LEMMA Triple ==
    ASSUME NEW S, NEW x \in S, NEW y \in S, NEW z \in S
    PROVE  /\ <<x, y, z>> \in Seq(S) /\ Len(<<x, y, z>>) = 3
           /\ <<x, y, z>>[1] = x /\ <<x, y, z>>[2] = y /\ <<x, y, z>>[3] = z
OBVIOUS

(* A part of a payload, and what is before it.                             *)
PartAt(s, q, r) ==
    /\ q \o r \in Seq(Byte) /\ Len(q \o r) = Len(q) + Len(r) /\ Len(q) + Len(r) <= Len(s)
    /\ Begins(s, q)
    /\ \A j \in 1 .. Len(r) : s[Len(q) + j] = r[j]
    /\ SubSeq(s, Len(q) + 1, Len(q) + Len(r)) = r

(* Every part written is there.                                            *)
LEMMA PartThere ==
    ASSUME NEW s \in Seq(Byte), NEW q \in Seq(Byte), NEW r \in Seq(Byte), Begins(s, q \o r)
    PROVE  PartAt(s, q, r)
BY BeginsPart DEF PartAt

(* A file in fields, not empty, its lengths those two bytes can tell.      *)
TlvFormat(b) ==
    /\ b.type = "tlv" /\ b.name \in Seq(Byte) /\ b.data \in Seq(Byte) /\ b.data # <<>>
    /\ Len(b.name) <= 65535 /\ Len(b.data) <= 65535

(* The bytes of a file in fields.                                          *)
TlvBytes(x, y) ==
    <<32, 1, 0>> \o U16(Len(x)) \o x \o <<4, 0, 0>> \o U16(Len(y)) \o y

(* What ParseTlv looks at.                                                 *)
TlvSeen(s, x, y) ==
    /\ s \in Seq(Byte) /\ Len(s) = 10 + Len(x) + Len(y)
    /\ At(s, 0) = 32 /\ At(s, 1) = 1 /\ At(s, 2) = 0
    /\ ReadU16(s, 3) = Len(x) /\ Slice(s, 5, Len(x)) = x
    /\ At(s, 5 + Len(x)) = 4 /\ ReadU32(s, 6 + Len(x)) = Len(y)
    /\ Slice(s, 10 + Len(x), Len(y)) = y

(* Each part is where ParseTlv looks for it.                               *)
LEMMA TlvParts ==
    ASSUME NEW x \in Seq(Byte), NEW y \in Seq(Byte), Len(x) <= 65535, Len(y) <= 65535
    PROVE  TlvSeen(TlvBytes(x, y), x, y)
PROOF
  <1> DEFINE n == Len(x)
             k == Len(y)
             h == <<32, 1, 0>>
             u == U16(n)
             g == <<4, 0, 0>>
             v == U16(k)
             p1 == h \o u
             p2 == p1 \o x
             p3 == p2 \o g
             p4 == p3 \o v
             s == p4 \o y
  <1>0. x \in Seq(Byte) /\ y \in Seq(Byte)
    OBVIOUS
  <1>1. n \in Nat /\ k \in Nat /\ n <= 65535 /\ k <= 65535
    BY LenProperties
  <1>2. TlvBytes(x, y) = s
    BY DEF TlvBytes
  <1> HIDE DEF n, k
  <1>3. /\ u \in Seq(Byte) /\ Len(u) = 2 /\ 256 * u[1] + u[2] = n
        /\ v \in Seq(Byte) /\ Len(v) = 2 /\ 256 * v[1] + v[2] = k
        /\ v[1] \in Nat /\ v[2] \in Nat
    <2>1. TwoBytes(n, u) /\ TwoBytes(k, v)
      BY <1>1, LengthBytes
    <2> HIDE DEF u, v
    <2> QED BY ONLY <2>1 DEF TwoBytes
  <1>4. /\ h \in Seq(Byte) /\ Len(h) = 3 /\ h[1] = 32 /\ h[2] = 1 /\ h[3] = 0
        /\ g \in Seq(Byte) /\ Len(g) = 3 /\ g[1] = 4 /\ g[2] = 0 /\ g[3] = 0
    <2>1. 32 \in Byte /\ 1 \in Byte /\ 0 \in Byte /\ 4 \in Byte
      BY DEF Byte
    <2> QED BY <2>1, Triple
  <1> HIDE DEF h, u, g, v
  <1>6. p1 \in Seq(Byte) /\ Len(p1) = 5
    <2>1. p1 \in Seq(Byte) /\ Len(p1) = Len(h) + Len(u)
      BY ONLY <1>3, <1>4, Behind
    <2> QED BY <1>3, <1>4, <2>1
  <1> HIDE DEF p1
  <1>7. p2 \in Seq(Byte) /\ Len(p2) = 5 + n
    <2>1. p2 \in Seq(Byte) /\ Len(p2) = Len(p1) + Len(x)
      BY ONLY <1>6, <1>0, Behind
    <2> QED BY <1>6, <2>1 DEF n
  <1> HIDE DEF p2
  <1>8. p3 \in Seq(Byte) /\ Len(p3) = 8 + n
    <2>1. p3 \in Seq(Byte) /\ Len(p3) = Len(p2) + Len(g)
      BY ONLY <1>4, <1>7, Behind
    <2>2. (5 + n) + 3 = 8 + n
      BY <1>1
    <2> QED BY ONLY <1>4, <1>7, <2>1, <2>2
  <1> HIDE DEF p3
  <1>9. p4 \in Seq(Byte) /\ Len(p4) = 10 + n
    <2>1. p4 \in Seq(Byte) /\ Len(p4) = Len(p3) + Len(v)
      BY ONLY <1>3, <1>8, Behind
    <2>2. (8 + n) + 2 = 10 + n
      BY <1>1
    <2> QED BY ONLY <1>3, <1>8, <2>1, <2>2
  <1> HIDE DEF p4
  <1>10. s \in Seq(Byte) /\ Len(s) = 10 + n + k
    <2>1. s \in Seq(Byte) /\ Len(s) = Len(p4) + Len(y)
      BY ONLY <1>9, <1>0, Behind
    <2> QED BY <1>9, <2>1 DEF k
  <1> HIDE DEF s
  <1>11. PartAt(s, p4, y)
    <2>1. Begins(s, p4 \o y)
      BY <1>1, <1>10 DEF Begins, s
    <2> QED BY <1>9, <1>10, <2>1, PartThere
  <1>12. PartAt(s, p3, v)
    <2>1. Begins(s, p3 \o v)
      BY <1>11 DEF PartAt, p4
    <2> QED BY <1>3, <1>8, <1>10, <2>1, PartThere
  <1>13. PartAt(s, p2, g)
    <2>1. Begins(s, p2 \o g)
      BY <1>12 DEF PartAt, p3
    <2> QED BY <1>4, <1>7, <1>10, <2>1, PartThere
  <1>14. PartAt(s, p1, x)
    <2>1. Begins(s, p1 \o x)
      BY <1>13 DEF PartAt, p2
    <2> QED BY <1>6, <1>10, <2>1, PartThere
  <1>15. PartAt(s, h, u)
    <2>1. Begins(s, h \o u)
      BY <1>14 DEF PartAt, p1
    <2> QED BY <1>3, <1>4, <1>10, <2>1, PartThere
  <1>16. s[1] = 32 /\ s[2] = 1 /\ s[3] = 0
    BY <1>4, <1>15 DEF PartAt, Begins
  <1>17. s[4] = u[1] /\ s[5] = u[2]
    BY <1>3, <1>4, <1>15 DEF PartAt
  <1>18. s[6 + n] = 4 /\ s[7 + n] = 0 /\ s[8 + n] = 0
    <2>1. \A j \in 1 .. 3 : s[(5 + n) + j] = g[j]
      <3>1. \A j \in 1 .. Len(g) : s[Len(p2) + j] = g[j]
        BY ONLY <1>13 DEF PartAt
      <3>2. Len(g) = 3 /\ Len(p2) = 5 + n
        BY <1>4, <1>7
      <3> QED BY ONLY <3>1, <3>2
    <2>2. (5 + n) + 1 = 6 + n /\ (5 + n) + 2 = 7 + n /\ (5 + n) + 3 = 8 + n
      BY <1>1
    <2> QED BY <1>4, <2>1, <2>2
  <1>19. s[9 + n] = v[1] /\ s[10 + n] = v[2]
    <2>1. \A j \in 1 .. 2 : s[(8 + n) + j] = v[j]
      <3>1. \A j \in 1 .. Len(v) : s[Len(p3) + j] = v[j]
        BY ONLY <1>12 DEF PartAt
      <3>2. Len(v) = 2 /\ Len(p3) = 8 + n
        BY <1>3, <1>8
      <3> QED BY ONLY <3>1, <3>2
    <2>2. (8 + n) + 1 = 9 + n /\ (8 + n) + 2 = 10 + n
      BY <1>1
    <2> QED BY <2>1, <2>2
  <1>20. Slice(s, 5, n) = x
    <2>1. SubSeq(s, 6, 5 + n) = x
      BY <1>6, <1>14 DEF PartAt, n
    <2>2. (IF 5 + n < Len(s) THEN 5 + n ELSE Len(s)) = 5 + n /\ 5 + 1 = 6
      BY <1>1, <1>10
    <2> QED BY <2>1, <2>2 DEF Slice
  <1>21. Slice(s, 10 + n, k) = y
    <2>1. SubSeq(s, (10 + n) + 1, (10 + n) + k) = y
      BY <1>9, <1>11 DEF PartAt, k
    <2>2. (IF (10 + n) + k < Len(s) THEN (10 + n) + k ELSE Len(s)) = (10 + n) + k
      BY <1>1, <1>10
    <2> QED BY <2>1, <2>2 DEF Slice
  <1>22. At(s, 0) = 32 /\ At(s, 1) = 1 /\ At(s, 2) = 0 /\ ReadU16(s, 3) = n
    BY <1>3, <1>16, <1>17 DEF At, ReadU16
  <1>23. At(s, 5 + n) = 4 /\ ReadU32(s, 6 + n) = k
    <2>1. /\ (5 + n) + 1 = 6 + n /\ (6 + n) + 1 = 7 + n /\ (6 + n) + 2 = 8 + n
          /\ (7 + n) + 1 = 8 + n /\ (8 + n) + 1 = 9 + n /\ (9 + n) + 1 = 10 + n
      BY <1>1
    <2>2. /\ At(s, 5 + n) = 4 /\ At(s, 6 + n) = 0 /\ At(s, 7 + n) = 0
          /\ At(s, 8 + n) = v[1] /\ At(s, 9 + n) = v[2]
      BY <1>18, <1>19, <2>1 DEF At
    <2>3. ReadU16(s, 6 + n) = 256 * 0 + 0
      BY <2>1, <2>2 DEF ReadU16
    <2>4. ReadU16(s, 8 + n) = 256 * v[1] + v[2]
      BY <2>1, <2>2 DEF ReadU16
    <2>5. ReadU32(s, 6 + n) = 65536 * (256 * 0 + 0) + (256 * v[1] + v[2])
      BY <2>1, <2>3, <2>4 DEF ReadU32
    <2> QED BY <1>1, <1>3, <2>2, <2>5
  <1> QED BY <1>2, <1>10, <1>20, <1>21, <1>22, <1>23 DEF TlvSeen, n, k

(* ParseTlv follows the fields: a name, then the data.                     *)
LEMMA TlvFound ==
    ASSUME NEW s, NEW x \in Seq(Byte), NEW y \in Seq(Byte), y # <<>>, TlvSeen(s, x, y)
    PROVE  ParseTlv(s) = File(FreshId, y, x)
PROOF
  <1> DEFINE n == Len(x)
             k == Len(y)
             nothing == [names |-> <<>>, data |-> <<>>]
             file == CHOOSE f : TlvFollow(s, f)
             Name(i) == Slice(s, i + 3, ReadU16(s, i + 1))
             After(i) == i + 3 + ReadU16(s, i + 1)
  <1>1. n \in Nat /\ k \in Nat /\ Len(s) = 10 + n + k
    BY LenProperties DEF TlvSeen
  <1>2. /\ At(s, 0) = 32 /\ At(s, 1) = 1 /\ At(s, 2) = 0
        /\ ReadU16(s, 3) = n /\ Slice(s, 5, n) = x
        /\ At(s, 5 + n) = 4 /\ ReadU32(s, 6 + n) = k
        /\ Slice(s, 10 + n, k) = y
    BY DEF TlvSeen
  <1> HIDE DEF n, k
  <1>3. TlvFollow(s, file)
    <2>1. \E f : TlvFollow(s, f)
      BY TlvExists DEF TlvSeen
    <2> QED BY <2>1
  <1>4. ParseTlv(s) =
            IF Len(s) >= 7 /\ At(s, 0) = 32 /\ At(s, 1) = 1 /\ file[2].data # <<>>
            THEN File(FreshId, file[2].data,
                      IF file[2].names = <<>> THEN <<>> ELSE Last(file[2].names))
            ELSE Unread
    BY Zenon DEF ParseTlv, TlvFollow, file
  <1> HIDE DEF file
  <1>5. \A i \in 0 .. Len(s) :
           file[i] = IF i + 3 > Len(s) \/ (At(s, i) = 4 /\ i + 5 > Len(s)) THEN nothing
                     ELSE IF At(s, i) = 4 THEN [nothing EXCEPT !.data = Slice(s, i + 5, ReadU32(s, i + 1))]
                     ELSE LET f == IF After(i) > Len(s) THEN nothing ELSE file[After(i)]
                          IN IF At(s, i) = 0 THEN [f EXCEPT !.names = <<Name(i)>> \o @] ELSE f
    BY <1>3, Zenon DEF TlvFollow
  <1>6. file[5 + n] = [names |-> <<>>, data |-> y]
    <2> DEFINE i == 5 + n
    <2>1. /\ i \in 0 .. Len(s) /\ ~(i + 3 > Len(s)) /\ ~(i + 5 > Len(s))
          /\ i + 5 = 10 + n /\ i + 1 = 6 + n
      BY <1>1
    <2>2. At(s, i) = 4 /\ Slice(s, i + 5, ReadU32(s, i + 1)) = y
      BY <1>2, <2>1
    <2> HIDE DEF i
    <2>3. file[i] = [nothing EXCEPT !.data = Slice(s, i + 5, ReadU32(s, i + 1))]
      <3> HIDE DEF nothing, After, Name
      <3> QED BY <1>5, <2>1, <2>2
    <2>4. file[i] = [names |-> <<>>, data |-> y]
      BY <2>2, <2>3
    <2> QED BY <2>4 DEF i
  <1>7. file[2] = [names |-> <<x>> \o <<>>, data |-> y]
    <2>1. /\ 2 \in 0 .. Len(s) /\ ~(2 + 3 > Len(s)) /\ After(2) = 5 + n
          /\ ~(After(2) > Len(s)) /\ Name(2) = x
      BY <1>1, <1>2
    <2>2. file[2] = LET f == IF After(2) > Len(s) THEN nothing ELSE file[After(2)]
                    IN IF At(s, 2) = 0 THEN [f EXCEPT !.names = <<Name(2)>> \o @] ELSE f
      <3>1. At(s, 2) # 4
        BY <1>2
      <3> HIDE DEF nothing, After, Name
      <3> QED BY <1>5, <2>1, <3>1, Zenon
    <2>3. file[2] = [file[5 + n] EXCEPT !.names = <<x>> \o @]
      <3> HIDE DEF nothing, After, Name
      <3> QED BY <1>2, <2>1, <2>2
    <2> QED BY <1>6, <2>3
  <1>8. <<x>> \o <<>> = <<x>> /\ <<x>> # <<>> /\ Last(<<x>>) = x
    BY DEF Last
  <1>9. file[2].data = y /\ file[2].names = <<x>>
    BY <1>7, <1>8
  <1>10. Len(s) >= 7
    BY <1>1
  <1> QED BY <1>2, <1>4, <1>8, <1>9, <1>10

(* A file in fields is read as that file: it begins with 32, not with the  *)
(* type of a receipt, and where the daemon writes a length of 36 it has    *)
(* 256.                                                                    *)
LEMMA TlvRead ==
    ASSUME NEW b, TlvFormat(b), Meant(b) # Unread
    PROVE  Read(b) = Meant(b)
PROOF
  <1> DEFINE x == b.name
             y == b.data
             s == TlvBytes(x, y)
  <1>1. /\ x \in Seq(Byte) /\ y \in Seq(Byte) /\ y # <<>>
        /\ Len(x) <= 65535 /\ Len(y) <= 65535
    BY DEF TlvFormat
  <1>2. Read(b) = ParseIncoming(s) /\ Meant(b) = File(FreshId, y, x)
    BY DEF TlvFormat, Read, Meant, Payload, Private, TlvBytes
  <1> HIDE DEF x, y
  <1>3. TlvSeen(s, x, y)
    BY <1>1, TlvParts
  <1> HIDE DEF s
  <1>4. ParseTlv(s) = File(FreshId, y, x)
    BY <1>1, <1>3, TlvFound
  <1>5. ParseReceipt(s) = Unread
    <2>1. At(s, 0) \notin {2, 3}
      BY <1>3 DEF TlvSeen
    <2> QED BY <2>1, Zenon DEF ParseReceipt
  <1>6. ParseStandard(s) = Unread
    <2>1. ReadU16(s, 1) # 36
      BY <1>3 DEF TlvSeen, ReadU16
    <2> QED BY <2>1, Zenon DEF ParseStandard
  <1> QED BY <1>2, <1>4, <1>5, <1>6, FirstFit

(* What phones send is read as what it is: a BitchatMessage with any       *)
(* fields, an announcement behind any fields of its own, a file in fields; *)
(* whatever is written in them, and whatever frames they were cut into.    *)
(* The nick of an announcement is one that 15 bytes do not cut inside a    *)
(* character: what is left of that character is read as another one.       *)
(* That no message is the mark for one that cannot be read is all that is  *)
(* asked of the others.                                                    *)
THEOREM PhoneMessagesRead ==
    ASSUME \A b \in Bodies : Meant(b) # Unread
    PROVE  PathSpec => []((LegacyFormat(body) \/ AnnounceFormat(body) \/ TlvFormat(body)) => ParsedAsSent)
PROOF
  <1>1. ParsedInv => ((LegacyFormat(body) \/ AnnounceFormat(body) \/ TlvFormat(body)) => ParsedAsSent)
    <2> SUFFICES ASSUME body \in Bodies,
                        LegacyFormat(body) \/ AnnounceFormat(body) \/ TlvFormat(body)
                 PROVE  Read(body) = Meant(body)
      BY DEF ParsedInv, ParsedAsSent
    <2>1. CASE LegacyFormat(body)
      <3>1. Read(body) = ParseIncoming(EncodeMessage(body.message))
        BY <2>1 DEF LegacyFormat, Read, Payload, Private
      <3> QED BY <2>1, <3>1, LegacyRead
    <2>2. CASE AnnounceFormat(body)
      BY <2>2, AnnounceRead
    <2>3. CASE TlvFormat(body)
      BY <2>3, TlvRead
    <2> QED BY <2>1, <2>2, <2>3
  <1> QED BY <1>1, ParsedAlways, PTL

-----------------------------------------------------------------------------
(* What fits the link.                                                     *)

(* An announcement of the daemon: its keys have 32 bytes.                  *)
OwnAnnouncement(b) ==
    /\ b.type = "announce" /\ b.more = <<>>
    /\ b.announce \in [nick : Seq(Byte), noise : Seq(Byte), sign : Seq(Byte)]
    /\ Len(b.announce.noise) = 32 /\ Len(b.announce.sign) = 32

(* The messages are bytes, and those the daemon itself sends whole are in  *)
(* the formats it writes.                                                  *)
FormatsHold ==
    \A b \in Bodies : /\ Payload(b) \in Seq(Byte)
                      /\ Direct(b) => OwnFormat(b) \/ OwnAnnouncement(b)

(* The length of a field.                                                  *)
LEMMA FieldLen ==
    ASSUME NEW t \in Byte, NEW x \in Seq(Byte), Len(x) <= 255
    PROVE  Field(t, x) \in Seq(Byte) /\ Len(Field(t, x)) = 2 + Len(x)
PROOF
  <1> DEFINE h == <<t, Len(x)>>
  <1>1. Len(x) \in Nat /\ Len(x) \in Byte
    <2>1. Len(x) \in Nat
      BY LenProperties
    <2> QED BY <2>1, SmallByte
  <1>2. h \in Seq(Byte) /\ Len(h) = 2
    BY <1>1, Pair
  <1>3. Field(t, x) = h \o x
    BY DEF Field
  <1> HIDE DEF h
  <1> QED BY <1>2, <1>3, Behind

(* A nick is cut to 15 bytes.                                              *)
LEMMA NickLength ==
    ASSUME NEW s \in Seq(Byte)
    PROVE  /\ Slice(s, 0, 15) \in Seq(Byte)
           /\ Len(Slice(s, 0, 15)) <= 15 /\ Len(Slice(s, 0, 15)) \in Nat
PROOF
  <1> DEFINE n == IF 15 < Len(s) THEN 15 ELSE Len(s)
  <1>1. n \in Nat /\ n <= 15 /\ n <= Len(s)
    <2>1. Len(s) \in Nat
      BY LenProperties
    <2> QED BY <2>1
  <1>2. Slice(s, 0, 15) = SubSeq(s, 1, n)
    BY DEF Slice
  <1> HIDE DEF n
  <1>3. SubSeq(s, 1, n) \in Seq(Byte) /\ Len(SubSeq(s, 1, n)) = n
    BY <1>1, SubSeqProperties
  <1> QED BY <1>1, <1>2, <1>3

(* A text, a receipt and an announcement of the daemon are short.          *)
LEMMA OwnLength ==
    ASSUME NEW b, Direct(b), OwnFormat(b) \/ OwnAnnouncement(b), Sendable(b),
           b.type # "public"
    PROVE  /\ Len(Payload(b)) \in Nat
           /\ b.type \in Private => Len(Payload(b)) <= 296
           /\ b.type \notin Private => Len(Payload(b)) <= 85
PROOF
  <1>1. CASE b.type = "text"
    <2> DEFINE id == b.id
               data == b.data
               h == <<1>> \o U16(Len(id))
               k == <<1, Len(data)>>
    <2>1. id \in Uuids /\ data \in Seq(Byte) /\ Len(data) <= 255 /\ Len(data) \in Nat
      <3>1. id \in Uuids /\ data \in Seq(Byte) /\ Len(data) <= 255
        BY <1>1 DEF OwnFormat, OwnAnnouncement, Sendable
      <3> QED BY <3>1, LenProperties
    <2>2. id \in Seq(Byte) /\ Len(id) = 36
      BY <2>1, UuidFacts
    <2>3. h \in Seq(Byte) /\ Len(h) = 3
      BY <2>2, HeadBytes
    <2>4. k \in Seq(Byte) /\ Len(k) = 2
      <3>1. 1 \in Byte
        BY DEF Byte
      <3>2. Len(data) \in Byte
        BY <2>1, SmallByte
      <3> QED BY <3>1, <3>2, Pair
    <2>5. Payload(b) = ((h \o id) \o k) \o data
      <3>1. Payload(b) = EncodeMessagePayload(id, data)
        BY <1>1 DEF Payload
      <3> QED BY <3>1 DEF EncodeMessagePayload
    <2> HIDE DEF id, data, h, k
    <2>6. h \o id \in Seq(Byte) /\ Len(h \o id) = 39
      <3>1. h \o id \in Seq(Byte) /\ Len(h \o id) = Len(h) + Len(id)
        BY ONLY <2>2, <2>3, Behind
      <3> QED BY ONLY <2>2, <2>3, <3>1
    <2>7. (h \o id) \o k \in Seq(Byte) /\ Len((h \o id) \o k) = 41
      <3>1. /\ (h \o id) \o k \in Seq(Byte)
            /\ Len((h \o id) \o k) = Len(h \o id) + Len(k)
        BY ONLY <2>4, <2>6, Behind
      <3> QED BY ONLY <2>4, <2>6, <3>1
    <2>8. Len(Payload(b)) = 41 + Len(data)
      <3>1. Len(((h \o id) \o k) \o data) = Len((h \o id) \o k) + Len(data)
        BY ONLY <2>1, <2>7, Behind
      <3> QED BY ONLY <2>5, <2>7, <3>1
    <2> QED BY <1>1, <2>1, <2>8 DEF Private
  <1>2. CASE b.type = "receipt"
    <2> DEFINE k == <<IF b.read THEN 2 ELSE 3>>
    <2>1. b.id \in Uuids /\ b.more = <<>>
      BY <1>2 DEF OwnFormat, OwnAnnouncement, Direct
    <2>2. b.id \in Seq(Byte) /\ Len(b.id) = 36
      BY <2>1, UuidFacts
    <2>3. k \in Seq(Byte) /\ Len(k) = 1
      <3>1. (IF b.read THEN 2 ELSE 3) \in Byte
        BY DEF Byte
      <3> QED BY <3>1, Single
    <2>4. Payload(b) = (k \o b.id) \o <<>>
      <3>1. Payload(b) = EncodeReceipt(b.read, b.id) \o b.more
        BY <1>2 DEF Payload
      <3> QED BY <2>1, <3>1 DEF EncodeReceipt
    <2> HIDE DEF k
    <2>5. k \o b.id \in Seq(Byte) /\ Len(k \o b.id) = 37
      <3>1. k \o b.id \in Seq(Byte) /\ Len(k \o b.id) = Len(k) + Len(b.id)
        BY ONLY <2>2, <2>3, Behind
      <3> QED BY ONLY <2>2, <2>3, <3>1
    <2>6. (k \o b.id) \o <<>> = k \o b.id
      BY <2>5
    <2>7. Len(Payload(b)) = 37
      BY ONLY <2>4, <2>5, <2>6
    <2> QED BY <1>2, <2>7 DEF Private
  <1>3. CASE b.type = "announce"
    <2> DEFINE a == b.announce
               x == Slice(a.nick, 0, 15)
               u == Field(1, x)
               v == Field(2, a.noise)
               w == Field(3, a.sign)
    <2>1. /\ a \in [nick : Seq(Byte), noise : Seq(Byte), sign : Seq(Byte)]
          /\ Len(a.noise) = 32 /\ Len(a.sign) = 32 /\ b.more = <<>>
      BY <1>3 DEF OwnFormat, OwnAnnouncement
    <2>2. a.nick \in Seq(Byte) /\ a.noise \in Seq(Byte) /\ a.sign \in Seq(Byte)
      BY <2>1
    <2>3. x \in Seq(Byte) /\ Len(x) <= 15 /\ Len(x) \in Nat
      BY <2>2, NickLength
    <2>a. 1 \in Byte /\ 2 \in Byte /\ 3 \in Byte
      BY DEF Byte
    <2> HIDE DEF a, x
    <2>4. u \in Seq(Byte) /\ Len(u) = 2 + Len(x)
      BY <2>3, <2>a, FieldLen
    <2>5. v \in Seq(Byte) /\ Len(v) = 34 /\ w \in Seq(Byte) /\ Len(w) = 34
      <3>1. Len(a.noise) = 32 /\ Len(a.sign) = 32 /\ 32 <= 255 /\ 2 + 32 = 34
        BY <2>1
      <3>2. v \in Seq(Byte) /\ Len(v) = 2 + Len(a.noise)
        BY ONLY <2>2, <2>a, <3>1, FieldLen
      <3>3. w \in Seq(Byte) /\ Len(w) = 2 + Len(a.sign)
        BY ONLY <2>2, <2>a, <3>1, FieldLen
      <3> QED BY ONLY <3>1, <3>2, <3>3
    <2>6. Payload(b) = <<>> \o ((u \o v) \o w)
      BY <1>3, <2>1 DEF Payload, EncodeAnnounce, NICKNAME, NOISE_PUB, SIGN_PUB, a, x
    <2> HIDE DEF u, v, w
    <2>7. u \o v \in Seq(Byte) /\ Len(u \o v) = 36 + Len(x)
      <3>1. u \o v \in Seq(Byte) /\ Len(u \o v) = Len(u) + Len(v)
        BY ONLY <2>4, <2>5, Behind
      <3> QED BY ONLY <2>3, <2>4, <2>5, <3>1
    <2>8. (u \o v) \o w \in Seq(Byte) /\ Len((u \o v) \o w) = 70 + Len(x)
      <3>1. (u \o v) \o w \in Seq(Byte) /\ Len((u \o v) \o w) = Len(u \o v) + Len(w)
        BY ONLY <2>5, <2>7, Behind
      <3> QED BY ONLY <2>3, <2>5, <2>7, <3>1
    <2>9. <<>> \o ((u \o v) \o w) = (u \o v) \o w
      BY <2>8
    <2>10. Len(Payload(b)) = 70 + Len(x)
      BY ONLY <2>6, <2>8, <2>9
    <2> QED BY <1>3, <2>3, <2>10 DEF Private
  <1> QED BY <1>1, <1>2, <1>3 DEF Direct

(* A packet that carries a message is a packet.                            *)
LEMMA CarrierType ==
    ASSUME NEW b, Payload(b) \in Seq(Byte)
    PROVE  PacketFor(b) \in PacketType
PROOF
  <1>1. Len(Payload(b)) \in Nat
    BY LenProperties
  <1>2. Direct(b) \in BOOLEAN
    BY DEF Direct
  <1> QED BY <1>1, <1>2 DEF PacketFor, PacketType

(* The packet of such a message fits, padded.                              *)
LEMMA CarrierFits ==
    ASSUME NEW b, Direct(b), OwnFormat(b) \/ OwnAnnouncement(b), Sendable(b),
           b.type # "public", NEW i \in FrameIds(PacketFor(b))
    PROVE  LinkLen(PacketFor(b), i) <= FRAGMENT_SIZE_THRESHOLD
PROOF
  <1> DEFINE p == PacketFor(b)
             n == Len(Payload(b))
  <1>1. /\ n \in Nat
        /\ b.type \in Private => n <= 296
        /\ b.type \notin Private => n <= 85
    BY OwnLength
  <1>2. /\ p.plain = n + (IF b.type \in Private THEN 20 ELSE 0)
        /\ p.deflated = p.plain /\ p.version = 1 /\ p.hops = 0
        /\ p.recipient = (b.type \in Private)
        /\ p.signed = (b.type \in {"public", "announce"}) /\ p.direct = Direct(b)
    <2>1. p = [plain |-> n + IF b.type \in Private THEN 20 ELSE 0,
               deflated |-> n + IF b.type \in Private THEN 20 ELSE 0, version |-> 1,
               recipient |-> b.type \in Private, hops |-> 0,
               signed |-> b.type \in {"public", "announce"}, run |-> 0, direct |-> Direct(b)]
      BY DEF PacketFor
    <2> HIDE DEF p, n
    <2> QED BY <2>1
  <1> HIDE DEF p, n
  <1>3. p.plain \in Nat
    BY <1>1, <1>2
  <1>4. BlobLen(p) = p.plain /\ Version(p) = 1
    BY <1>2, <1>3 DEF BlobLen, Compressed, Version, HasRoute
  <1>5. RawLen(p) \in 0 .. 512
    <2>1. AddressLen(p) = IF b.type \in Private THEN 8 ELSE 0
      <3>1. ~HasRoute(p)
        BY <1>2 DEF HasRoute
      <3>2. AddressLen(p) = (IF p.recipient THEN 8 ELSE 0) + 0
        BY <3>1, Zenon DEF AddressLen, PEER_ID_SIZE
      <3>3. p.recipient <=> b.type \in Private
        BY <1>2
      <3> QED BY <3>2, <3>3
    <2>2. SignatureLen(p) \in {0, 64} /\ HeaderLen(Version(p)) = 14
      BY <1>4 DEF SignatureLen, HeaderLen
    <2> QED BY <1>1, <1>2, <1>4, <2>1, <2>2 DEF RawLen, PEER_ID_SIZE
  <1>6. Whole(p)
    BY <1>2 DEF Whole
  <1>7. LinkLen(p, i) = RawLen(p) + PadLen(RawLen(p))
    BY <1>6 DEF LinkLen, FrameLen
  <1>8. LinkLen(p, i) <= FRAGMENT_SIZE_THRESHOLD
    BY <1>5, <1>7, PadFits DEF FRAGMENT_SIZE_THRESHOLD
  <1> QED BY <1>8 DEF p

(* What is under way is a packet, and that of the message under way.       *)
Underway ==
    /\ pkt \in {None} \cup Packets \cup {PacketFor(b) : b \in Bodies}
    /\ body # None => body \in Bodies /\ Sendable(body) /\ pkt = PacketFor(body)

(* FramesFitLink, for every set of packets and of messages in the formats  *)
(* the daemon writes: neither what create_fragments makes nor a text, a    *)
(* receipt or an announcement sent whole is longer, padded, than what      *)
(* would be fragmented.  Messages to everyone and what is relayed may be.  *)
THEOREM FramesFit ==
    ASSUME FormatsHold
    PROVE  PathSpec => []FramesFitLink
PROOF
  <1>1. PathInit => Underway
    BY DEF PathInit, Init, Underway
  <1>2. Underway /\ [PathNext]_pathVars => Underway'
    <2> SUFFICES ASSUME Underway, [PathNext]_pathVars
                 PROVE  Underway'
      OBVIOUS
    <2>1. ASSUME NEW b \in Bodies, Compose(b)
          PROVE  Underway'
      BY <2>1 DEF Compose, Send, Underway
    <2>2. ASSUME NEW p \in Packets, SendOther(p)
          PROVE  Underway'
      BY <2>2 DEF SendOther, Send, Underway
    <2>3. ASSUME NEW i \in FrameIds(pkt), Arrive(i)
          PROVE  Underway'
      BY <2>3 DEF Arrive, Deliver, Underway
    <2>4. UNCHANGED pathVars => Underway'
      BY DEF pathVars, vars, Underway
    <2> QED BY <2>1, <2>2, <2>3, <2>4 DEF PathNext
  <1>3. Underway => FramesFitLink
    <2> SUFFICES ASSUME Underway, pkt # None, NEW i \in FrameIds(pkt),
                        ~(pkt.direct /\ (body = None \/ body.type = "public")),
                        ~(Whole(pkt) /\ ~pkt.direct /\ pkt.run > 0)
                 PROVE  LinkLen(pkt, i) <= FRAGMENT_SIZE_THRESHOLD
      BY DEF FramesFitLink
    <2>1. pkt \in PacketType
      <3>1. CASE pkt \in Packets
        BY <3>1, PacketsAssumption
      <3>2. CASE \E b \in Bodies : pkt = PacketFor(b)
        BY <3>2, CarrierType DEF FormatsHold
      <3> QED BY <3>1, <3>2 DEF Underway
    <2>2. CASE ~pkt.direct
      <3>1. ~Whole(pkt) \/ (pkt.run = 0 /\ ~pkt.direct)
        BY <2>1, <2>2 DEF PacketType
      <3> QED BY <2>1, <3>1, LinkBound
    <2>3. CASE pkt.direct
      <3>1. body \in Bodies /\ Sendable(body) /\ pkt = PacketFor(body) /\ body.type # "public"
        BY <2>3 DEF Underway
      <3>2. Direct(body)
        BY <2>3, <3>1 DEF PacketFor
      <3> QED BY <3>1, <3>2, CarrierFits DEF FormatsHold
    <2> QED BY <2>2, <2>3
  <1> QED BY <1>1, <1>2, <1>3, PTL DEF PathSpec

-----------------------------------------------------------------------------
(* Sending and delivering a message is framing of the packet it is in: the *)
(* theorems above hold on the way of messages, with the packets they are   *)
(* in among the packets.                                                   *)
Framing == INSTANCE PacketFraming WITH Packets <- Packets \cup {PacketFor(b) : b \in Bodies}

(* Only what is sent depends on the packets, not what becomes of it.       *)
LEMMA SameFraming ==
    ASSUME NEW p, NEW i
    PROVE  /\ Framing!FrameIds(p) = FrameIds(p)
           /\ Framing!Deliver(i) <=> Deliver(i)
PROOF
  <1>1. \A q : Framing!RawLen(q) = RawLen(q) /\ Framing!Encodable(q) = Encodable(q)
    BY DEF RawLen, Framing!RawLen, Encodable, Framing!Encodable, HeaderLen,
           Framing!HeaderLen, Version, Framing!Version, HasRoute, Framing!HasRoute,
           PEER_ID_SIZE, Framing!PEER_ID_SIZE, AddressLen, Framing!AddressLen, BlobLen,
           Framing!BlobLen, Compressed, Framing!Compressed, COMPRESSION_THRESHOLD_BYTES,
           Framing!COMPRESSION_THRESHOLD_BYTES, SignatureLen, Framing!SignatureLen
  <1>2. \A q : Framing!AddressLen(q) = AddressLen(q) /\ Framing!Overhead(q) = Overhead(q)
    BY DEF AddressLen, Framing!AddressLen, Overhead, Framing!Overhead, HeaderLen,
           Framing!HeaderLen, Version, Framing!Version, HasRoute, Framing!HasRoute,
           PEER_ID_SIZE, Framing!PEER_ID_SIZE, FRAGMENT_HEADER_SIZE,
           Framing!FRAGMENT_HEADER_SIZE
  <1>3. \A n : Framing!PadLen(n) = PadLen(n)
    BY Zenon DEF PadLen, Framing!PadLen, Fitting, Framing!Fitting, PADDING_BLOCK_SIZES,
           Framing!PADDING_BLOCK_SIZES, Min, Framing!Min
  <1>4. \A q : Framing!UnpaddedLen(q) = UnpaddedLen(q) /\ Framing!MaxData(q) = MaxData(q)
    BY <1>1, <1>2, <1>3 DEF UnpaddedLen, Framing!UnpaddedLen, MaxData, Framing!MaxData,
           MAX_FRAGMENT_SIZE, Framing!MAX_FRAGMENT_SIZE
  <1>5. \A q : Framing!Whole(q) = Whole(q) /\ Framing!Total(q) = Total(q)
    BY <1>4 DEF Whole, Framing!Whole, Total, Framing!Total, FRAGMENT_SIZE_THRESHOLD,
           Framing!FRAGMENT_SIZE_THRESHOLD
  <1>6. \A q : Framing!FrameIds(q) = FrameIds(q) /\ Framing!Accepts(q) = Accepts(q)
    BY <1>1, <1>4, <1>5 DEF FrameIds, Framing!FrameIds, Accepts, Framing!Accepts,
           MAX_FRAGMENTS_PER_ID, Framing!MAX_FRAGMENTS_PER_ID
  <1>7. \A q, n : Framing!ChunkLen(q, n) = ChunkLen(q, n) /\ Framing!FrameLen(q, n) = FrameLen(q, n)
    BY <1>1, <1>2, <1>4, <1>5 DEF ChunkLen, Framing!ChunkLen, FrameLen, Framing!FrameLen,
           HeaderLen, Framing!HeaderLen, HasRoute, Framing!HasRoute, PEER_ID_SIZE,
           Framing!PEER_ID_SIZE, FRAGMENT_HEADER_SIZE, Framing!FRAGMENT_HEADER_SIZE
  <1>8. \A q : Framing!JoinedChunks(q) = JoinedChunks(q)
    <2> TAKE q
    <2>1. \A bytes : [n \in 0 .. Framing!Total(q) |->
                         IF n = 0 THEN 0 ELSE bytes[n - 1] + Framing!ChunkLen(q, n - 1)]
                    = [n \in 0 .. Total(q) |->
                         IF n = 0 THEN 0 ELSE bytes[n - 1] + ChunkLen(q, n - 1)]
      BY <1>5, <1>7
    <2>2. (CHOOSE bytes : bytes = [n \in 0 .. Framing!Total(q) |->
                         IF n = 0 THEN 0 ELSE bytes[n - 1] + Framing!ChunkLen(q, n - 1)])
          = CHOOSE bytes : bytes = [n \in 0 .. Total(q) |->
                         IF n = 0 THEN 0 ELSE bytes[n - 1] + ChunkLen(q, n - 1)]
      BY <2>1, Zenon
    <2> QED BY <2>2, <1>5 DEF JoinedChunks, Framing!JoinedChunks
  <1>10. \A q : Framing!JoinedLen(q) = JoinedLen(q)
    BY <1>3, <1>5, <1>7, <1>8 DEF JoinedLen, Framing!JoinedLen, LinkLen, Framing!LinkLen
  <1>9. \A q, n : Framing!Decode(q, n) = Decode(q, n)
    BY <1>1 DEF Decode, Framing!Decode, SignatureLen, Framing!SignatureLen
  <1> QED BY <1>6, <1>10, <1>9 DEF Deliver, Framing!Deliver

(* Every behaviour of MessagePath is one of PacketFraming: composing a     *)
(* message, or sending another packet, is sending a packet, and parsing    *)
(* what was decoded changes nothing of the framing.                        *)
THEOREM PathImplementsFraming == PathSpec => Framing!Spec
PROOF
  <1>1. PathInit => Framing!Init
    BY DEF PathInit, Init, Framing!Init
  <1>2. [PathNext]_pathVars => [Framing!Next]_Framing!vars
    <2> SUFFICES ASSUME [PathNext]_pathVars
                 PROVE  [Framing!Next]_Framing!vars
      OBVIOUS
    <2>1. ASSUME NEW b \in Bodies, Compose(b)
          PROVE  Framing!Next
      <3>1. Framing!Send(PacketFor(b))
        BY <2>1 DEF Compose, Send, Framing!Send
      <3> QED BY <3>1 DEF Framing!Next
    <2>2. ASSUME NEW p \in Packets, SendOther(p)
          PROVE  Framing!Next
      <3>1. Framing!Send(p)
        BY <2>2 DEF SendOther, Send, Framing!Send
      <3> QED BY <3>1 DEF Framing!Next
    <2>3. ASSUME pkt # None, NEW i \in FrameIds(pkt), Arrive(i)
          PROVE  Framing!Next
      <3>1. Framing!Deliver(i) /\ i \in Framing!FrameIds(pkt)
        BY <2>3, SameFraming DEF Arrive
      <3> QED BY <2>3, <3>1 DEF Framing!Next
    <2>4. CASE UNCHANGED pathVars
      BY <2>4 DEF pathVars, vars, Framing!vars
    <2> QED BY <2>1, <2>2, <2>3, <2>4 DEF PathNext
  <1> QED BY <1>1, <1>2, PTL DEF PathSpec, Framing!Spec

=============================================================================
