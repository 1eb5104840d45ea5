--------------------------- MODULE PhoneLinkProofs ---------------------------
(***************************************************************************)
(* That the state of the session manager and its phones is well formed     *)
(* (TypeOK), that a session the Pi holds to be established belongs to a    *)
(* handshake its phone has finished (Agreement), that the queue of unsent  *)
(* texts is exact and that daemon and phones implement MessageService, for *)
(* any number of phones, texts and keys, whatever of Happenings may happen;*)
(* and, on a link that keeps order, that texts are heard in order by a     *)
(* phone that stays subscribed, and that a session both ends share lasts.  *)
(***************************************************************************)
EXTENDS PhoneLink, FiniteSetTheorems, SequenceTheorems, TLAPS

-----------------------------------------------------------------------------
(* Types of what the operators return.                                     *)

(* Quotients and remainders of numbers of messages.                        *)
LEMMA DivType == ASSUME NEW a \in Nat, NEW b \in Nat \ {0} PROVE a \div b \in Nat /\ a % b \in Nat
  OBVIOUS

(* encrypt changes what a session counts, never its state or keys.         *)
LEMMA EncryptedType ==
    ASSUME NEW s \in SessionType, NEW n \in Nat
    PROVE  /\ Encrypted(s, n) \in SessionType
           /\ Encrypted(s, n).st = s.st
           /\ Encrypted(s, n).ei = s.ei
           /\ Encrypted(s, n).er = s.er
           /\ Keys(Encrypted(s, n)) \in PacketKeys
<1>1. CASE n = 0
  BY <1>1 DEF Encrypted, SessionType, Keys, PacketKeys, KeyOrNone
<1>2. CASE n # 0
  <2> DEFINE a == s.used + n - 1
             d == a \div MsgLimit
             r == a % MsgLimit
  <2>1. s.used \in Nat /\ s.epoch \in Nat
    BY DEF SessionType
  <2>2. a \in Nat
    BY <1>2, <2>1
  <2>3. d \in Nat /\ r \in Nat
    BY <2>2, DivType, MsgLimitAssumption
  <2>4. Encrypted(s, n) = [s EXCEPT !.epoch = @ + d, !.used = 1 + r]
    BY <1>2 DEF Encrypted
  <2> HIDE DEF d, r
  <2> DEFINE e == s.epoch + d
             u == 1 + r
  <2>5. e \in Nat /\ u \in Nat
    BY <2>1, <2>3
  <2>6. Encrypted(s, n) = [s EXCEPT !.epoch = e, !.used = u]
    BY <2>4 DEF SessionType
  <2> HIDE DEF e, u
  <2>7. Encrypted(s, n) \in SessionType
    BY <2>5, <2>6 DEF SessionType
  <2>8. /\ Encrypted(s, n).st = s.st /\ Encrypted(s, n).ei = s.ei /\ Encrypted(s, n).er = s.er
    BY <2>4 DEF SessionType
  <2>9. QED
    BY <2>7, <2>8 DEF SessionType, Keys, PacketKeys, KeyOrNone
<1>3. QED
  BY <1>1, <1>2

(* Counting a part of 1 .. n.                                              *)
LEMMA PartOfInterval ==
    ASSUME NEW n \in Nat, NEW S \in SUBSET (1 .. n)
    PROVE  Cardinality(S) \in Nat /\ Cardinality(S) <= n
<1>1. IsFiniteSet(1 .. n) /\ Cardinality(1 .. n) = IF 1 > n THEN 0 ELSE n - 1 + 1
  BY FS_Interval, SMT
<1>2. Cardinality(1 .. n) = n
  BY <1>1
<1>3. IsFiniteSet(S) /\ Cardinality(S) <= Cardinality(1 .. n)
  BY <1>1, FS_Subset
<1>4. QED
  BY <1>2, <1>3, FS_CardinalityType

(* A packet taken out of a queue leaves the others in their order.         *)
LEMMA RemoveAtType ==
    ASSUME NEW S, NEW q \in Seq(S), NEW i \in DOMAIN q
    PROVE  /\ RemoveAt(q, i) \in Seq(S)
           /\ Len(RemoveAt(q, i)) = Len(q) - 1
           /\ \A j \in 1 .. Len(q) - 1 :
                 RemoveAt(q, i)[j] = IF j < i THEN q[j] ELSE q[j + 1]
<1>1. i \in 1 .. Len(q)
  OBVIOUS
<1> DEFINE a == SubSeq(q, 1, i - 1)
           b == SubSeq(q, i + 1, Len(q))
<1>2. a \in Seq(S) /\ Len(a) = i - 1 /\ \A j \in 1 .. i - 1 : a[j] = q[j]
  BY <1>1, SubSeqProperties
<1>3. b \in Seq(S) /\ Len(b) = Len(q) - i /\ \A j \in 1 .. Len(q) - i : b[j] = q[i + j]
  BY <1>1, SubSeqProperties
<1>4. RemoveAt(q, i) = a \o b
  BY DEF RemoveAt
<1> HIDE DEF a, b
<1>5. /\ a \o b \in Seq(S) /\ Len(a \o b) = Len(a) + Len(b)
      /\ \A j \in 1 .. Len(a) + Len(b) : (a \o b)[j] = IF j <= Len(a) THEN a[j] ELSE b[j - Len(a)]
  BY <1>2, <1>3, ConcatProperties
<1>6. Len(q) \in Nat /\ Len(a) + Len(b) = Len(q) - 1
  BY <1>1, <1>2, <1>3
<1>7. ASSUME NEW j \in 1 .. Len(q) - 1
      PROVE  (a \o b)[j] = IF j < i THEN q[j] ELSE q[j + 1]
  <2>1. CASE j < i
    BY <1>1, <1>2, <1>5, <1>6, <2>1
  <2>2. CASE ~(j < i)
    <3>1. j - Len(a) \in 1 .. Len(q) - i /\ i + (j - Len(a)) = j + 1
      BY <1>1, <1>2, <1>6, <2>2
    <3>2. b[j - Len(a)] = q[j + 1]
      BY <1>3, <3>1
    <3>3. (a \o b)[j] = b[j - Len(a)]
      BY <1>1, <1>2, <1>5, <1>6, <2>2
    <3>4. QED
      BY <2>2, <3>2, <3>3
  <2>3. QED
    BY <2>1, <2>2
<1>8. QED
  BY <1>4, <1>5, <1>6, <1>7

(* What _send_packet leaves on the links are packets.                      *)
LEMMA SentType ==
    ASSUME down \in [Peers -> Seq(DownPackets)], NEW p \in Peers, NEW s \in Seq(DownPackets)
    PROVE  Sent(p, s) \in [Peers -> Seq(DownPackets)]
  BY ConcatProperties DEF Sent

Plain == [type : {"announce", "leave", "chat"}]

(* The packets that carry neither a handshake nor a message.               *)
LEMMA PlainType == /\ ANNOUNCE \in Plain /\ LEAVE \in Plain /\ CHAT \in Plain
                   /\ Plain \subseteq DownPackets
  BY DEF Plain, ANNOUNCE, LEAVE, CHAT, DownPackets

(* The same of what every phone gets.                                      *)
LEMMA JoinType ==
    ASSUME NEW q \in Seq(DownPackets), NEW s \in Seq(Plain)
    PROVE  Join(q, s) \in Seq(DownPackets)
<1>1. s \in Seq(DownPackets)
  BY PlainType, SeqMonotonic
<1>2. QED
  BY <1>1, ConcatProperties DEF Join

(* The same for all links together.                                        *)
LEMMA ToAllType ==
    ASSUME down \in [Peers -> Seq(DownPackets)], NEW s \in Seq(Plain)
    PROVE  ToAll(s) \in [Peers -> Seq(DownPackets)]
  BY JoinType DEF ToAll

(* What the daemon broadcasts.                                             *)
LEMMA PlainSeqs == /\ <<ANNOUNCE>> \in Seq(Plain) /\ <<LEAVE, ANNOUNCE>> \in Seq(Plain)
                   /\ <<CHAT>> \in Seq(Plain)
  BY PlainType

Queued == [text : Texts, stale : BOOLEAN]

(* The length and the indices of SubSeq(q, k + 1, n), as arithmetic.       *)
LEMMA StretchLength ==
    ASSUME NEW n \in Nat, NEW k \in Nat, k <= n
    PROVE  /\ (IF k + 1 <= n THEN n - (k + 1) + 1 ELSE 0) = n - k
           /\ n - (k + 1) + 1 = n - k
           /\ \A i \in 1 .. n - k : (k + 1) + i - 1 = k + i
  OBVIOUS

(* What is left of a sequence of length n without its first k elements.    *)
LEMMA Suffix ==
    ASSUME NEW S, NEW q, NEW n \in Nat, NEW k \in Nat, k <= n, \A i \in 1 .. n : q[i] \in S
    PROVE  /\ SubSeq(q, k + 1, n) \in Seq(S)
           /\ Len(SubSeq(q, k + 1, n)) = n - k
           /\ \A i \in 1 .. n - k : SubSeq(q, k + 1, n)[i] = q[k + i]
<1> DEFINE m == k + 1
<1>1. m \in Int /\ n \in Int /\ \A i \in m .. n : q[i] \in S
  OBVIOUS
<1>2. /\ (IF m <= n THEN n - m + 1 ELSE 0) = n - k
      /\ n - m + 1 = n - k
      /\ \A i \in 1 .. n - k : m + i - 1 = k + i
  BY StretchLength
<1> HIDE DEF m
<1>3. /\ SubSeq(q, m, n) \in Seq(S)
      /\ Len(SubSeq(q, m, n)) = IF m <= n THEN n - m + 1 ELSE 0
      /\ \A i \in 1 .. n - m + 1 : SubSeq(q, m, n)[i] = q[m + i - 1]
  BY <1>1, SubSeqProperties
<1>4. /\ SubSeq(q, m, n) \in Seq(S)
      /\ Len(SubSeq(q, m, n)) = n - k
      /\ \A i \in 1 .. n - k : SubSeq(q, m, n)[i] = q[k + i]
  BY <1>2, <1>3, Zenon
<1> QED
  BY <1>4 DEF m

(* A drain takes a stretch of the queue.                                   *)
LEMMA DrainedType ==
    ASSUME pendingSends \in [Peers -> Seq(Queued)], NEW p \in Peers
    PROVE  /\ StillQueued(p) \in Seq(Queued)
           /\ Drained(p) \in Seq(Queued)
           /\ \E k \in Nat :
                 /\ k + Len(Drained(p)) <= Len(pendingSends[p])
                 /\ \A i \in DOMAIN Drained(p) : Drained(p)[i] = pendingSends[p][k + i]
           /\ TextsIn(Drained(p)) \subseteq TextsIn(pendingSends[p])
           /\ TextsIn(StillQueued(p)) \subseteq TextsIn(pendingSends[p])
<1> DEFINE q == pendingSends[p]
           old == {i \in DOMAIN q : q[i].stale}
           k == Cardinality(old)
           s == StillQueued(p)
           ok == {i \in DOMAIN s : \A j \in 1 .. i : s[j].text \notin Long}
           l == Cardinality(ok)
<1>1. q \in Seq(Queued) /\ DOMAIN q = 1 .. Len(q) /\ Len(q) \in Nat
  OBVIOUS
<1>2. old \subseteq 1 .. Len(q)
  BY <1>1
<1> HIDE DEF old
<1>3. k \in Nat /\ k <= Len(q)
  BY <1>1, <1>2, PartOfInterval
<1>4. s = SubSeq(q, k + 1, Len(q))
  BY DEF StillQueued, old
<1> HIDE DEF k, s
<1>5. s \in Seq(Queued) /\ Len(s) = Len(q) - k /\ \A i \in 1 .. Len(q) - k : s[i] = q[k + i]
  <2> HIDE DEF q
  <2>1. \A i \in 1 .. Len(q) : q[i] \in Queued
    BY <1>1
  <2> DEFINE n == Len(q)
  <2>2. n \in Nat /\ k \in Nat /\ k <= n /\ \A i \in 1 .. n : q[i] \in Queued
    BY <1>1, <1>3, <2>1
  <2>3. s = SubSeq(q, k + 1, n)
    BY <1>4
  <2> HIDE DEF n
  <2>4. /\ SubSeq(q, k + 1, n) \in Seq(Queued)
        /\ Len(SubSeq(q, k + 1, n)) = n - k
        /\ \A i \in 1 .. n - k : SubSeq(q, k + 1, n)[i] = q[k + i]
    BY <2>2, Suffix
  <2>5. s \in Seq(Queued) /\ Len(s) = n - k /\ \A i \in 1 .. n - k : s[i] = q[k + i]
    BY <2>3, <2>4, Zenon
  <2> QED BY <2>5 DEF n
<1>6. DOMAIN s = 1 .. Len(s) /\ Len(s) \in Nat
  BY <1>5
<1>7. ok \subseteq 1 .. Len(s)
  BY <1>6
<1> HIDE DEF ok
<1>8. l \in Nat /\ l <= Len(s)
  BY <1>6, <1>7, PartOfInterval
<1>9. Drained(p) = SubSeq(s, 1, l)
  BY DEF Drained, s, ok
<1> HIDE DEF l
<1>10. Drained(p) \in Seq(Queued) /\ Len(Drained(p)) = l /\ \A i \in 1 .. l : Drained(p)[i] = s[i]
  BY <1>5, <1>6, <1>8, <1>9, SubSeqProperties
<1>11. \A i \in 1 .. l : i \in 1 .. Len(q) - k /\ Drained(p)[i] = q[k + i]
  BY <1>3, <1>5, <1>8, <1>10
<1>12. DOMAIN Drained(p) = 1 .. l
  BY <1>10
<1>13. TextsIn(Drained(p)) \subseteq TextsIn(q)
  BY <1>1, <1>3, <1>11, <1>12 DEF TextsIn
<1>14. \A i \in 1 .. Len(s) : k + i \in 1 .. Len(q) /\ s[i] = q[k + i]
  BY <1>1, <1>3, <1>5
<1>15. TextsIn(s) \subseteq TextsIn(q)
  BY <1>1, <1>6, <1>14 DEF TextsIn
<1>16. k + Len(Drained(p)) <= Len(q)
  BY <1>1, <1>3, <1>5, <1>8, <1>10
<1>17. \A i \in DOMAIN Drained(p) : Drained(p)[i] = q[k + i]
  BY <1>11, <1>12
<1> HIDE DEF q
<1>18. /\ s \in Seq(Queued) /\ Drained(p) \in Seq(Queued)
       /\ TextsIn(Drained(p)) \subseteq TextsIn(q) /\ TextsIn(s) \subseteq TextsIn(q)
  BY <1>5, <1>10, <1>13, <1>15
<1>19. \E n \in Nat : /\ n + Len(Drained(p)) <= Len(q)
                      /\ \A i \in DOMAIN Drained(p) : Drained(p)[i] = q[n + i]
  BY <1>3, <1>16, <1>17
<1>20. QED
  BY <1>18, <1>19 DEF s, q

Fates == {"new", "queued", "sent", "refused", "expired", "left", "timedOut", "cancelled", "crashed"}

(* TypeOK for the session manager's half of the state, and for the rest.   *)
ManagerTyped ==
    /\ sessions \in [Peers -> SessionType \cup {None}]
    /\ peers \subseteq Peers /\ announced \subseteq Peers
    /\ peerNoisePub \in [Peers -> 1 .. MaxInstalls \cup {None}]
    /\ lastMsg1 \in [Peers -> KeyOrNone]
    /\ pendingMsg2 \in [Peers -> Messages \cup {None}]
    /\ pendingSends \in [Peers -> Seq(Queued)]
    /\ lastSeen \in [Peers -> {"never", "recent", "silent"}]
    /\ failCount \in [Peers -> 0 .. FailLimit - 1]
    /\ fate \in [Texts -> Fates]
    /\ reachable \in BOOLEAN /\ notifiedOnce \in BOOLEAN
    /\ fresh \in Nat
    /\ down \in [Peers -> Seq(DownPackets)]

PhonesTyped ==
    /\ up \in [Peers -> Seq(UpPackets)]
    /\ phone \in [Peers -> PhoneType] /\ install \in [Peers -> 1 .. MaxInstalls]
    /\ heard \in [Peers -> Seq(Texts)] /\ posted \subseteq Letters
    /\ derived \in [Peers -> SUBSET (KeyOrNone \X KeyOrNone)]
    /\ ordered \in Seq(Texts)

(* The two halves are the whole.                                           *)
LEMMA TypeParts == /\ TypeOK <=> ManagerTyped /\ PhonesTyped
                   /\ TypeOK' <=> ManagerTyped' /\ PhonesTyped'
  BY DEF TypeOK, ManagerTyped, PhonesTyped, Fates, Queued

(* The constructors of packets.                                            *)
LEMMA PacketTypes ==
    /\ \A m \in Messages : Handshake(m) \in DownPackets /\ Handshake(m) \in UpPackets
    /\ \A k \in PacketKeys, t \in Texts, y \in {"text", "file"} :
          Noise(k, [type |-> y, id |-> t]) \in DownPackets
    /\ \A k \in PacketKeys, l \in Letters : Noise(k, [type |-> "receipt", id |-> l]) \in DownPackets
    /\ \A k \in PacketKeys, l \in Letters, y \in {"text", "receipt"} :
          Noise(k, [type |-> y, id |-> l]) \in UpPackets
  BY DEF Handshake, Noise, DownPackets, UpPackets

(* The operations of NoiseSession return sessions and messages.            *)
LEMMA SessionTypes ==
    /\ Responder \in SessionType /\ Responder.st = "start"
    /\ \A e \in Nat : Msg1(e) \in Messages
    /\ \A e, f \in KeyOrNone : Msg2(e, f) \in Messages /\ Msg3(e, f) \in Messages
    /\ \A s \in SessionType, m \in Messages : Read(s, m) \in SessionType
    /\ \A s \in SessionType, e \in Nat : Write(s, e) \in SessionType /\ Write(s, e).er = e
    /\ \A s \in SessionType : Aged(s) \in SessionType /\ Aged(s).st = s.st
                              /\ Aged(s).ei = s.ei /\ Aged(s).er = s.er
    /\ \A s \in SessionType : Keys(s) \in PacketKeys
<1>1. \A s \in SessionType, m \in Messages : Read(s, m) \in SessionType
  <2> SUFFICES ASSUME NEW s \in SessionType, NEW m \in Messages PROVE Read(s, m) \in SessionType
    OBVIOUS
  <2>1. m.kind = "msg1" => m.ei \in KeyOrNone
    BY DEF Messages
  <2>2. QED
    BY <2>1 DEF Read, SessionType, Fail, Garbage, Ephemeral, Messages, KeyOrNone
<1>2. \A s \in SessionType, e \in Nat : Write(s, e) \in SessionType /\ Write(s, e).er = e
  BY DEF SessionType, Write, Ephemeral
<1>3. \A s \in SessionType : Aged(s) \in SessionType /\ Aged(s).st = s.st
                              /\ Aged(s).ei = s.ei /\ Aged(s).er = s.er
  BY MsgLimitAssumption DEF SessionType, Aged
<1>4. Responder \in SessionType /\ Responder.st = "start"
  BY DEF SessionType, Responder
<1>5. \A s \in SessionType : Keys(s) \in PacketKeys
  BY DEF SessionType, Keys, PacketKeys, KeyOrNone
<1>6. \A e \in Nat : Msg1(e) \in Messages
  BY DEF Msg1, Messages, KeyOrNone, Ephemeral
<1>7. \A e, f \in KeyOrNone : Msg2(e, f) \in Messages /\ Msg3(e, f) \in Messages
  BY DEF Msg2, Msg3, Messages
<1>8. QED
  BY <1>1, <1>2, <1>3, <1>4, <1>5, <1>6, <1>7

(* A drain turns queued texts into as many packets and gives each a fate.  *)
LEMMA DrainPacketsType ==
    ASSUME ManagerTyped, NEW p \in Peers, NEW s \in SessionType
    PROVE  /\ DrainPackets(p, s) \in Seq(DownPackets)
           /\ Len(Drained(p)) \in Nat
           /\ DOMAIN DrainPackets(p, s) = DOMAIN Drained(p)
           /\ DrainFate(p) \in [Texts -> Fates]
           /\ Emptied(p) \in [Peers -> Seq(Queued)]
<1>1. Drained(p) \in Seq(Queued)
  BY DrainedType DEF ManagerTyped
<1> DEFINE d == Drained(p)
           n == Len(d)
           pkt(i) == Noise(Keys(Encrypted(s, i)), [type |-> "text", id |-> d[i].text])
<1>2. n \in Nat /\ DOMAIN d = 1 .. n
  BY <1>1
<1>3. ASSUME NEW i \in 1 .. n PROVE pkt(i) \in DownPackets
  <2>1. d[i] \in Queued
    BY <1>1, <1>2, ElementOfSeq
  <2>2. d[i].text \in Texts
    BY <2>1 DEF Queued
  <2>3. Keys(Encrypted(s, i)) \in PacketKeys
    BY EncryptedType
  <2>4. QED
    BY <2>2, <2>3, PacketTypes
<1>4. DrainPackets(p, s) = [i \in 1 .. n |-> pkt(i)]
  BY <1>2 DEF DrainPackets
<1> HIDE DEF pkt, n, d
<1>5. DrainPackets(p, s) \in Seq(DownPackets)
  BY <1>2, <1>3, <1>4, IsASeq
<1>6. DOMAIN DrainPackets(p, s) = DOMAIN d
  BY <1>2, <1>4
<1>7. DrainFate(p) \in [Texts -> Fates]
  BY DEF DrainFate, Fates, ManagerTyped
<1>8. Emptied(p) \in [Peers -> Seq(Queued)]
  BY DEF Emptied, ManagerTyped
<1>9. QED
  BY <1>2, <1>5, <1>6, <1>7, <1>8 DEF d, n

(* One packet is a sequence of packets.                                    *)
LEMMA SingletonType == \A S : \A x \in S : <<x>> \in Seq(S)
  OBVIOUS

(* _handle_noise_handshake keeps the types.                                *)
LEMMA HandshakeTyped ==
    ASSUME ManagerTyped, NEW p \in Peers, NEW m \in Messages, HandleNoiseHandshake(p, m)
    PROVE  ManagerTyped'
<1> USE DEF handshake, registry, queues, link, rest, Seen
<1>1. /\ \A x \in DownPackets : Sent(p, <<x>>) \in [Peers -> Seq(DownPackets)]
      /\ Reader(p, m) \in SessionType
      /\ Read(Reader(p, m), m) \in SessionType
  <2>1. ASSUME NEW x \in DownPackets PROVE Sent(p, <<x>>) \in [Peers -> Seq(DownPackets)]
    BY SentType, SingletonType DEF ManagerTyped
  <2>2. Reader(p, m) \in SessionType
    BY SessionTypes DEF Reader, ManagerTyped
  <2>3. QED
    BY <2>1, <2>2, SessionTypes
<1>2. CASE IgnoreHandshake(p, m)
  BY <1>2 DEF IgnoreHandshake, ManagerTyped
<1>3. CASE ResendMsg2(p, m)
  <2>1. pendingMsg2[p] \in Messages
    BY <1>3 DEF ResendMsg2, Retried, ManagerTyped
  <2>2. down' \in [Peers -> Seq(DownPackets)]
    BY <1>1, <1>3, <2>1, PacketTypes DEF ResendMsg2
  <2>3. sessions' \in [Peers -> SessionType \cup {None}]
    BY <1>3, SessionTypes DEF ResendMsg2, ManagerTyped
  <2>4. QED
    BY <1>3, <2>2, <2>3 DEF ResendMsg2, ManagerTyped
<1>4. CASE FailHandshake(p, m)
  BY <1>4 DEF FailHandshake, Forget, ManagerTyped, KeyOrNone
<1>5. CASE Establish(p, m)
  <2> DEFINE s == Read(Reader(p, m), m)
  <2>1. s \in SessionType
    BY <1>1
  <2> HIDE DEF s
  <2>2. /\ DrainPackets(p, s) \in Seq(DownPackets) /\ Len(Drained(p)) \in Nat
        /\ DrainFate(p) \in [Texts -> Fates] /\ Emptied(p) \in [Peers -> Seq(Queued)]
    BY <2>1, DrainPacketsType
  <2>3. Sent(p, DrainPackets(p, s)) \in [Peers -> Seq(DownPackets)]
    BY <2>2, SentType DEF ManagerTyped
  <2>4. Encrypted(s, Len(Drained(p))) \in SessionType
    BY <2>1, <2>2, EncryptedType
  <2>5. QED
    BY <1>5, <2>2, <2>3, <2>4 DEF Establish, Forget, ManagerTyped, KeyOrNone, s
<1>6. CASE AnswerMsg1(p, m)
  <2> DEFINE s == Read(Reader(p, m), m)
             w == Write(s, NextKey)
  <2>1. s \in SessionType
    BY <1>1
  <2>2. NextKey \in Nat
    BY DEF NextKey, ManagerTyped
  <2> HIDE DEF s
  <2>3. w \in SessionType
    BY <2>1, <2>2, SessionTypes
  <2> HIDE DEF w
  <2>4. Msg2(w.ei, w.er) \in Messages
    BY <2>3, SessionTypes DEF SessionType, KeyOrNone
  <2>5. Sent(p, <<Handshake(Msg2(w.ei, w.er))>>) \in [Peers -> Seq(DownPackets)]
    BY <1>1, <2>4, PacketTypes
  <2>6. m.ei \in KeyOrNone
    BY DEF Messages
  <2>7. QED
    BY <1>6, <2>2, <2>3, <2>4, <2>5, <2>6 DEF AnswerMsg1, ManagerTyped, s, w
<1>7. QED
  BY <1>2, <1>3, <1>4, <1>5, <1>6 DEF HandleNoiseHandshake

(* A reset keeps the types.                                                *)
LEMMA ResetTyped ==
    ASSUME ManagerTyped, NEW p \in Peers, Reset(p)
    PROVE  /\ sessions' \in [Peers -> SessionType \cup {None}]
           /\ announced' \subseteq Peers
           /\ down' \in [Peers -> Seq(DownPackets)]
<1>1. down' \in [Peers -> Seq(DownPackets)]
  BY ToAllType, PlainSeqs DEF Reset, ManagerTyped
<1>2. QED
  BY <1>1, SessionTypes DEF Reset, ManagerTyped

(* _handle_noise_encrypted keeps the types.                                *)
LEMMA EncryptedTyped ==
    ASSUME ManagerTyped, NEW p \in Peers, NEW k \in PacketKeys,
           NEW b \in [type : {"text", "receipt"}, id : Letters], HandleNoiseEncrypted(p, k, b)
    PROVE  ManagerTyped'
<1> USE DEF handshake, registry, queues, link, rest, Seen
<1>1. CASE NoSession(p)
  BY <1>1, ResetTyped DEF NoSession, ManagerTyped, Reset
<1>2. FailLimit \in Nat \ {0}
  BY TextsAssumption
<1>3. CASE Undecryptable(p, k)
  <2>1. CASE GivesUp(p)
    <3>1. Reset(p) /\ failCount' = [failCount EXCEPT ![p] = 0]
      BY <1>3, <2>1 DEF Undecryptable
    <3>2. failCount' \in [Peers -> 0 .. FailLimit - 1]
      BY <1>2, <3>1 DEF ManagerTyped
    <3>3. QED
      BY <1>3, <3>1, <3>2, ResetTyped DEF Undecryptable, ManagerTyped, Reset
  <2>2. CASE ~GivesUp(p)
    <3>1. /\ failCount' = [failCount EXCEPT ![p] = @ + 1] /\ UNCHANGED <<handshake, announced, down>>
          /\ failCount[p] + 1 < FailLimit
      BY <1>2, <1>3, <2>2 DEF Undecryptable, GivesUp, ManagerTyped
    <3>2. failCount' \in [Peers -> 0 .. FailLimit - 1]
      BY <1>2, <3>1 DEF ManagerTyped
    <3>3. QED
      BY <1>3, <3>1, <3>2 DEF Undecryptable, ManagerTyped
  <2>3. QED
    BY <2>1, <2>2
<1>4. CASE Decrypted(p, k, b)
  <2> DEFINE s == sessions[p]
             n == Cardinality(Acknowledgement(b))
             pkt(i) == Noise(Keys(Encrypted(s, i)), [type |-> "receipt", id |-> b.id])
  <2>1. s \in SessionType
    BY <1>4 DEF Decrypted, Decrypts, Established, ManagerTyped
  <2>2. n \in Nat
    BY FS_EmptySet, PartOfInterval DEF Acknowledgement
  <2>3. \A i \in 1 .. n : pkt(i) \in DownPackets
    BY <2>1, EncryptedType, PacketTypes
  <2> HIDE DEF pkt, n, s
  <2>4. [i \in 1 .. n |-> pkt(i)] \in Seq(DownPackets)
    BY <2>2, <2>3, IsASeq
  <2>5. Sent(p, [i \in 1 .. n |-> pkt(i)]) \in [Peers -> Seq(DownPackets)]
    BY <2>4, SentType DEF ManagerTyped
  <2>6. Encrypted(s, n) \in SessionType
    BY <2>1, <2>2, EncryptedType
  <2>7. down' = Sent(p, [i \in 1 .. n |-> pkt(i)])
    BY <1>4 DEF Decrypted, pkt, n, s
  <2>8. failCount' \in [Peers -> 0 .. FailLimit - 1]
    BY <1>2, <1>4 DEF Decrypted, ManagerTyped
  <2>9. sessions' \in [Peers -> SessionType \cup {None}]
    BY <1>4, <2>6 DEF Decrypted, ManagerTyped, n, s
  <2>10. QED
    BY <1>4, <2>5, <2>7, <2>8, <2>9 DEF Decrypted, ManagerTyped
<1>5. QED
  BY <1>1, <1>3, <1>4 DEF HandleNoiseEncrypted

(* The answer to an announcement keeps the types.                          *)
LEMMA EchoTyped ==
    ASSUME ManagerTyped, NEW p \in Peers, Echo(p)
    PROVE  /\ announced' \subseteq Peers
           /\ lastSeen' \in [Peers -> {"never", "recent", "silent"}]
           /\ down' \in [Peers -> Seq(DownPackets)]
<1>1. down' \in [Peers -> Seq(DownPackets)]
  BY ToAllType, PlainSeqs DEF Echo, ManagerTyped
<1>2. QED
  BY <1>1 DEF Echo, Seen, ManagerTyped

(* Forgetting peers keeps the types.                                       *)
LEMMA DropTyped ==
    ASSUME ManagerTyped, NEW P \in SUBSET Peers, NEW f \in Fates, DropPeers(P, f),
           lastSeen' \in [Peers -> {"never", "recent", "silent"}]
    PROVE  ManagerTyped'
<1>1. /\ sessions' \in [Peers -> SessionType \cup {None}]
      /\ lastMsg1' \in [Peers -> KeyOrNone]
      /\ pendingMsg2' \in [Peers -> Messages \cup {None}]
      /\ peerNoisePub' \in [Peers -> 1 .. MaxInstalls \cup {None}]
  BY DEF DropPeers, ManagerTyped, KeyOrNone
<1>2. /\ pendingSends' \in [Peers -> Seq(Queued)]
      /\ fate' \in [Texts -> Fates]
  BY DEF DropPeers, ManagerTyped, FateOf
<1>3. QED
  BY <1>1, <1>2 DEF DropPeers, ManagerTyped, link, rest

(* The handlers of the packets a phone sends.                              *)
LEMMA HandlersTyped ==
    ASSUME ManagerTyped, NEW p \in Peers
    PROVE  /\ \A k \in 1 .. MaxInstalls : HandleAnnounce(p, k) => ManagerTyped'
           /\ HandleRequestSync(p) => ManagerTyped'
           /\ HandleLeave(p) => ManagerTyped'
           /\ HandlePublic(p) => ManagerTyped'
<1> USE DEF handshake, registry, queues, link, rest
<1>1. ASSUME NEW k \in 1 .. MaxInstalls, HandleAnnounce(p, k) PROVE ManagerTyped'
  <2>1. Echo(p)
    BY <1>1 DEF HandleAnnounce
  <2>2. QED
    BY <1>1, <2>1, EchoTyped DEF HandleAnnounce, Forget, ManagerTyped, KeyOrNone
<1>2. ASSUME HandleRequestSync(p) PROVE ManagerTyped'
  BY <1>2, EchoTyped DEF HandleRequestSync, ManagerTyped
<1>3. ASSUME HandleLeave(p) PROVE ManagerTyped'
  <2>1. lastSeen' \in [Peers -> {"never", "recent", "silent"}]
    BY <1>3 DEF HandleLeave, Seen, ManagerTyped
  <2>2. QED
    BY <1>3, <2>1, DropTyped DEF HandleLeave, Fates
<1>4. ASSUME HandlePublic(p) PROVE ManagerTyped'
  BY <1>4 DEF HandlePublic, Seen, ManagerTyped
<1>5. QED
  BY <1>1, <1>2, <1>3, <1>4

(* Commands and timers.                                                    *)
LEMMA TextStepTyped ==
    ASSUME ManagerTyped, NEW t \in Texts, Queue(t) \/ SendNow(t) \/ SendFile(t)
    PROVE  ManagerTyped'
<1> USE DEF handshake, registry, queues, link, rest
<1>1. To[t] \in Peers
  BY TextsAssumption
<1> DEFINE p == To[t]
           s == Encrypted(sessions[p], 1)
<1>2. CASE Queue(t)
  <2>1. [text |-> t, stale |-> FALSE] \in Queued
    BY DEF Queued
  <2>2. pendingSends' \in [Peers -> Seq(Queued)]
    BY <1>1, <1>2, <2>1, AppendProperties DEF Queue, ManagerTyped
  <2>3. down' \in [Peers -> Seq(DownPackets)]
    BY <1>2, ToAllType, PlainSeqs DEF Queue, ManagerTyped
  <2>4. QED
    BY <1>1, <1>2, <2>2, <2>3 DEF Queue, ManagerTyped, Fates
<1>3. ASSUME Established(sessions[p]), NEW y \in {"text", "file"}
      PROVE  /\ s \in SessionType
             /\ Sent(p, <<Noise(Keys(s), [type |-> y, id |-> t])>>) \in [Peers -> Seq(DownPackets)]
  <2>1. sessions[p] \in SessionType
    BY <1>1, <1>3 DEF Established, ManagerTyped
  <2>2. s \in SessionType /\ Keys(s) \in PacketKeys
    BY <2>1, EncryptedType
  <2> HIDE DEF s, p
  <2>3. Noise(Keys(s), [type |-> y, id |-> t]) \in DownPackets
    BY <2>2, PacketTypes
  <2>4. p \in Peers
    BY <1>1 DEF p
  <2>5. QED
    BY <2>2, <2>3, <2>4, SentType, SingletonType DEF ManagerTyped
<1> HIDE DEF s, p
<1>4. CASE SendNow(t)
  <2>1. CASE t \in Long
    BY <1>1, <1>4, <2>1 DEF SendNow, ManagerTyped, Fates, s, p
  <2>2. CASE t \notin Long
    BY <1>1, <1>3, <1>4, <2>2 DEF SendNow, ManagerTyped, Fates, s, p
  <2>3. QED
    BY <2>1, <2>2
<1>5. CASE SendFile(t)
  <2>1. CASE Established(sessions[p])
    <3>1. /\ s \in SessionType
          /\ Sent(p, <<Noise(Keys(s), [type |-> "file", id |-> t])>>) \in [Peers -> Seq(DownPackets)]
      BY <1>3, <2>1
    <3>2. /\ fate' = [fate EXCEPT ![t] = "sent"]
          /\ sessions' = [sessions EXCEPT ![p] = s]
          /\ down' = Sent(p, <<Noise(Keys(s), [type |-> "file", id |-> t])>>)
      BY <1>5, <2>1 DEF SendFile, s, p
    <3>3. QED
      BY <1>1, <1>5, <3>1, <3>2 DEF SendFile, ManagerTyped, Fates
  <2>2. CASE ~Established(sessions[p])
    BY <1>1, <1>5, <2>2 DEF SendFile, ManagerTyped, Fates, s, p
  <2>3. QED
    BY <2>1, <2>2
<1>6. QED
  BY <1>2, <1>4, <1>5

(* What a subscriber is sent first.                                        *)
LEMMA WelcomeType == Welcome \in Seq(Plain)
  BY PlainSeqs DEF Welcome

(* The commands and timers that concern every phone.                       *)
LEMMA CommandTyped ==
    ASSUME ManagerTyped, SetNick \/ PeriodicAnnounce \/ Broadcast \/ Subscribe \/ Unsubscribe
    PROVE  ManagerTyped'
<1> USE DEF handshake, registry, queues, link, rest
<1>1. ASSUME NEW s \in Seq(Plain) PROVE ToAll(s) \in [Peers -> Seq(DownPackets)]
  BY ToAllType DEF ManagerTyped
<1>2. CASE SetNick
  BY <1>1, <1>2, PlainSeqs DEF SetNick, ManagerTyped
<1>3. CASE PeriodicAnnounce
  BY <1>1, <1>3, PlainSeqs DEF PeriodicAnnounce, ManagerTyped
<1>4. CASE Broadcast
  BY <1>1, <1>4, PlainSeqs DEF Broadcast, ManagerTyped
<1>5. CASE Subscribe
  <2>1. down' \in [Peers -> Seq(DownPackets)]
    BY <1>5, JoinType, WelcomeType DEF Subscribe, ManagerTyped
  <2>2. QED
    BY <1>5, <2>1 DEF Subscribe, ManagerTyped
<1>6. CASE Unsubscribe
  BY <1>6 DEF Unsubscribe, ManagerTyped
<1>7. QED
  BY <1>2, <1>3, <1>4, <1>5, <1>6

(* The timers that concern one phone, and the sweep.                       *)
LEMMA TimerTyped ==
    ASSUME ManagerTyped, NEW p \in Peers,
           PeerTimeout \/ Silence(p) \/ CooldownEnds(p) \/ QueueAges(p) \/ SessionAges(p)
               \/ CancelPendingSends(p)
    PROVE  ManagerTyped'
<1> USE DEF handshake, registry, queues, link, rest
<1>1. CASE PeerTimeout
  <2>1. TimedOut \in SUBSET Peers
    BY DEF TimedOut, ManagerTyped
  <2>2. lastSeen' \in [Peers -> {"never", "recent", "silent"}]
    BY <1>1 DEF PeerTimeout, ManagerTyped
  <2>3. QED
    BY <1>1, <2>1, <2>2, DropTyped DEF PeerTimeout, Fates
<1>2. CASE Silence(p)
  BY <1>2 DEF Silence, ManagerTyped
<1>3. CASE CooldownEnds(p)
  BY <1>3 DEF CooldownEnds, ManagerTyped
<1>4. CASE QueueAges(p)
  <2>1. PICK i \in DOMAIN pendingSends[p] :
            pendingSends' = [pendingSends EXCEPT ![p][i].stale = TRUE]
    BY <1>4 DEF QueueAges
  <2> DEFINE q == pendingSends[p]
             x == [q[i] EXCEPT !.stale = TRUE]
  <2>2. q \in Seq(Queued) /\ i \in 1 .. Len(q)
    BY <2>1 DEF ManagerTyped
  <2>3. q[i] \in Queued
    BY <2>2, ElementOfSeq
  <2>4. x \in Queued
    BY <2>3 DEF Queued
  <2>5. pendingSends' = [pendingSends EXCEPT ![p] = [q EXCEPT ![i] = x]]
    BY <2>1
  <2> HIDE DEF x, q
  <2>6. [q EXCEPT ![i] = x] \in Seq(Queued)
    BY <2>2, <2>4, ExceptSeq
  <2>7. QED
    BY <1>4, <2>5, <2>6 DEF QueueAges, ManagerTyped
<1>5. CASE SessionAges(p)
  <2>1. sessions[p] \in SessionType \cup {None} /\ sessions[p] # None
    BY <1>5 DEF SessionAges, Established, ManagerTyped
  <2>2. Aged(sessions[p]) \in SessionType
    BY <2>1, SessionTypes
  <2>3. sessions' \in [Peers -> SessionType \cup {None}]
    BY <1>5, <2>2 DEF SessionAges, ManagerTyped
  <2>4. QED
    BY <1>5, <2>3 DEF SessionAges, ManagerTyped
<1>6. CASE CancelPendingSends(p)
  BY <1>6 DEF CancelPendingSends, FateOf, Fates, ManagerTyped
<1>7. QED
  BY <1>1, <1>2, <1>3, <1>4, <1>5, <1>6

-----------------------------------------------------------------------------
(* The phones and the link.                                                *)

(* What a phone sends.                                                     *)
LEMMA SendType ==
    ASSUME up \in [Peers -> Seq(UpPackets)], NEW p \in Peers, NEW x \in UpPackets, Send(p, <<x>>)
    PROVE  up' \in [Peers -> Seq(UpPackets)]
  BY ConcatProperties, SingletonType DEF Send

(* The steps of the phones keep the types.                                 *)
LEMMA PhonesTypedNext ==
    ASSUME ManagerTyped, PhonesTyped, Phones
    PROVE  ManagerTyped' /\ PhonesTyped'
<1> USE DEF handshake, registry, queues, link, rest, smVars, phoneVars
<1>1. PICK p \in Peers :
        \/ PhoneAnnounce(p) \/ PhoneStart(p) \/ PhoneRetry(p) \/ PhoneAsks(p)
        \/ PhoneChats(p) \/ PhoneLeaves(p) \/ PhoneReinstalls(p)
        \/ \E m \in Letters : PhoneWrites(p, m)
  BY DEF Phones
<1> DEFINE UpOK == up' \in [Peers -> Seq(UpPackets)]
<1>2. CASE PhoneAnnounce(p)
  <2>1. Hello(p) \in UpPackets
    BY DEF Hello, UpPackets, PhonesTyped
  <2>2. UpOK
    BY <1>2, <2>1, SendType DEF PhoneAnnounce, PhonesTyped
  <2>3. phone' \in [Peers -> PhoneType]
    <3>1. phone[p] \in PhoneType
      BY DEF PhonesTyped
    <3>2. [phone[p] EXCEPT !.introduced = TRUE] \in PhoneType
      BY <3>1 DEF PhoneType
    <3>3. phone' = [phone EXCEPT ![p] = [phone[p] EXCEPT !.introduced = TRUE]]
      BY <1>2 DEF PhoneAnnounce
    <3>4. QED
      BY <3>2, <3>3 DEF PhonesTyped
  <2>4. QED
    BY <1>2, <2>2, <2>3 DEF PhoneAnnounce, ManagerTyped, PhonesTyped
<1>3. CASE PhoneStart(p)
  <2>1. NextKey \in Nat /\ NextKey \in KeyOrNone
    BY DEF NextKey, ManagerTyped, KeyOrNone, Ephemeral
  <2>2. UpOK
    BY <1>3, <2>1, SessionTypes, PacketTypes, SendType DEF PhoneStart, PhonesTyped
  <2>3. phone' \in [Peers -> PhoneType]
    <3> DEFINE x == [phone[p] EXCEPT !.st = "waiting", !.ei = NextKey, !.er = None]
    <3>1. phone[p] \in PhoneType
      BY DEF PhonesTyped
    <3>2. x \in PhoneType
      BY <2>1, <3>1 DEF PhoneType, KeyOrNone
    <3>3. phone' = [phone EXCEPT ![p] = x]
      BY <1>3 DEF PhoneStart
    <3>4. QED
      BY <3>2, <3>3 DEF PhonesTyped
  <2>4. QED
    BY <1>3, <2>1, <2>2, <2>3 DEF PhoneStart, ManagerTyped, PhonesTyped
<1>4. CASE PhoneRetry(p)
  <2>1. phone[p].ei \in KeyOrNone
    BY DEF PhonesTyped, PhoneType
  <2>2. Msg1(phone[p].ei) \in Messages
    BY <2>1 DEF Msg1, Messages, KeyOrNone
  <2>3. UpOK
    BY <1>4, <2>2, PacketTypes, SendType DEF PhoneRetry, PhonesTyped
  <2>4. QED
    BY <1>4, <2>3 DEF PhoneRetry, ManagerTyped, PhonesTyped
<1>5. CASE PhoneAsks(p)
  <2>1. [type |-> "sync"] \in UpPackets
    BY DEF UpPackets
  <2>2. UpOK
    BY <1>5, <2>1, SendType DEF PhoneAsks, PhonesTyped
  <2>3. QED
    BY <1>5, <2>2 DEF PhoneAsks, ManagerTyped, PhonesTyped
<1>6. CASE PhoneChats(p)
  <2>1. CHAT \in UpPackets
    BY DEF UpPackets, CHAT
  <2>2. UpOK
    BY <1>6, <2>1, SendType DEF PhoneChats, PhonesTyped
  <2>3. QED
    BY <1>6, <2>2 DEF PhoneChats, ManagerTyped, PhonesTyped
<1>7. CASE PhoneLeaves(p)
  <2>1. Goodbye \in UpPackets
    BY DEF UpPackets, Goodbye
  <2>2. UpOK
    BY <1>7, <2>1, SendType DEF PhoneLeaves, PhonesTyped
  <2>3. phone' \in [Peers -> PhoneType]
    BY <1>7 DEF PhoneLeaves, PhonesTyped, PhoneType, Dropped, KeyOrNone
  <2>4. QED
    BY <1>7, <2>2, <2>3 DEF PhoneLeaves, ManagerTyped, PhonesTyped
<1>8. CASE PhoneReinstalls(p)
  <2>1. phone' \in [Peers -> PhoneType]
    BY <1>8 DEF PhoneReinstalls, PhonesTyped, PhoneType, NewPhone, KeyOrNone
  <2>2. install' \in [Peers -> 1 .. MaxInstalls]
    BY <1>8, LinkAssumption DEF PhoneReinstalls, PhonesTyped
  <2>3. QED
    BY <1>8, <2>1, <2>2 DEF PhoneReinstalls, ManagerTyped, PhonesTyped
<1>9. ASSUME NEW m \in Letters, PhoneWrites(p, m) PROVE ManagerTyped' /\ PhonesTyped'
  <2> DEFINE k == [ei |-> phone[p].ei, er |-> phone[p].er, epoch |-> 0]
             y == IF m \in Receipts THEN "receipt" ELSE "text"
  <2>1. k \in PacketKeys /\ y \in {"text", "receipt"}
    BY DEF PhonesTyped, PhoneType, PacketKeys
  <2>2. Send(p, <<Noise(k, [type |-> y, id |-> m])>>)
    BY <1>9 DEF PhoneWrites
  <2> HIDE DEF k, y
  <2>3. Noise(k, [type |-> y, id |-> m]) \in UpPackets
    BY <2>1, PacketTypes
  <2>4. UpOK
    BY <2>2, <2>3, SendType DEF PhonesTyped
  <2>5. QED
    BY <1>9, <2>4 DEF PhoneWrites, ManagerTyped, PhonesTyped
<1>10. QED
  BY <1>1, <1>2, <1>3, <1>4, <1>5, <1>6, <1>7, <1>8, <1>9

(* What a packet to the Pi carries, by its type.                           *)
LEMMA UpKinds ==
    \A x \in UpPackets :
        /\ x.type = "announce" => x.pub \in 1 .. MaxInstalls
        /\ x.type = "handshake" => x.m \in Messages
        /\ x.type = "noise" => /\ x.keys \in PacketKeys
                               /\ x.body \in [type : {"text", "receipt"}, id : Letters]
  BY DEF UpPackets

(* What a packet to a phone carries, by its type.                          *)
LEMMA DownKinds ==
    \A x \in DownPackets :
        /\ x.type = "handshake" => x.m \in Messages
        /\ x.type = "noise" => /\ x.keys \in PacketKeys
                               /\ x.body.type # "receipt" => x.body.id \in Texts
  BY DEF DownPackets

(* What the daemon makes of a packet, and which packets reach it.          *)
Handled(p, x) ==
    \/ x.type = "announce" /\ HandleAnnounce(p, x.pub)
    \/ x.type = "handshake" /\ HandleNoiseHandshake(p, x.m)
    \/ x.type = "noise" /\ HandleNoiseEncrypted(p, x.keys, x.body)
    \/ x.type = "sync" /\ HandleRequestSync(p)
    \/ x.type = "leave" /\ HandleLeave(p)
    \/ x.type = "chat" /\ HandlePublic(p)

LEMMA Delivered ==
    ASSUME up \in [Peers -> Seq(UpPackets)], NEW p \in Peers, DeliverUp(p)
    PROVE  \E i \in DOMAIN up[p] : /\ up[p][i] \in UpPackets
                                   /\ up' = [up EXCEPT ![p] = RemoveAt(@, i)]
                                   /\ Handled(p, up[p][i])
                                   /\ UNCHANGED <<phoneVars, ordered>>
<1>1. PICK i \in Next1(up[p]) : /\ up' = [up EXCEPT ![p] = RemoveAt(@, i)]
                                /\ Handled(p, up[p][i])
                                /\ UNCHANGED <<phoneVars, ordered>>
  BY DEF DeliverUp, Handled
<1>2. i \in DOMAIN up[p] /\ up[p] \in Seq(UpPackets)
  BY DEF Next1
<1>3. up[p][i] \in UpPackets
  BY <1>2, ElementOfSeq
<1>4. QED
  BY <1>1, <1>2, <1>3

(* Delivering and losing packets keep the types.                           *)
LEMMA LinkTyped ==
    ASSUME ManagerTyped, PhonesTyped, Link
    PROVE  ManagerTyped' /\ PhonesTyped'
<1> USE DEF handshake, registry, queues, link, rest, smVars, phoneVars
<1>1. PICK p \in Peers : DeliverUp(p) \/ DeliverDown(p) \/ LoseUp(p) \/ LoseDown(p)
  BY DEF Link
<1>2. up[p] \in Seq(UpPackets) /\ down[p] \in Seq(DownPackets)
  BY DEF ManagerTyped, PhonesTyped
<1>3. ASSUME NEW i \in DOMAIN up[p], up' = [up EXCEPT ![p] = RemoveAt(@, i)]
      PROVE  up' \in [Peers -> Seq(UpPackets)]
  BY <1>2, <1>3, RemoveAtType DEF PhonesTyped
<1>4. ASSUME NEW i \in DOMAIN down[p], down' = [down EXCEPT ![p] = RemoveAt(@, i)]
      PROVE  down' \in [Peers -> Seq(DownPackets)]
  BY <1>2, <1>4, RemoveAtType DEF ManagerTyped
<1>5. CASE DeliverUp(p)
  <2>1. PICK i \in DOMAIN up[p] :
        /\ up[p][i] \in UpPackets
        /\ up' = [up EXCEPT ![p] = RemoveAt(@, i)]
        /\ Handled(p, up[p][i])
        /\ UNCHANGED <<phoneVars, ordered>>
    BY <1>5, Delivered DEF PhonesTyped
  <2>2. ManagerTyped'
    BY <2>1, UpKinds, HandlersTyped, HandshakeTyped, EncryptedTyped DEF Handled
  <2>3. QED
    BY <1>3, <2>1, <2>2 DEF PhonesTyped
<1>6. CASE DeliverDown(p)
  <2>1. PICK i \in Next1(down[p]) :
        /\ down' = [down EXCEPT ![p] = RemoveAt(@, i)]
        /\ PhoneHears(p, down[p][i])
        /\ UNCHANGED <<handshake, registry, queues, link, rest, install, posted, ordered>>
    BY <1>6 DEF DeliverDown
  <2>2. i \in DOMAIN down[p]
    BY DEF Next1
  <2> DEFINE x == down[p][i]
  <2>3. x \in DownPackets
    BY <1>2, <2>2, ElementOfSeq
  <2>4. ManagerTyped'
    BY <1>4, <2>1, <2>2 DEF ManagerTyped
  <2> HIDE DEF x
  <2>5. /\ up' \in [Peers -> Seq(UpPackets)]
        /\ phone' \in [Peers -> PhoneType]
        /\ heard' \in [Peers -> Seq(Texts)]
        /\ derived' \in [Peers -> SUBSET (KeyOrNone \X KeyOrNone)]
    <3>1. PhoneHears(p, x)
      BY <2>1 DEF x
    <3>2. CASE x.type \in {"chat", "announce", "leave"}
      <4>1. UNCHANGED <<up, heard, derived>>
        BY <3>1, <3>2 DEF PhoneHears
      <4>2. \/ phone' = phone
            \/ phone' = [phone EXCEPT ![p].knows = TRUE]
            \/ phone' = [phone EXCEPT ![p] = [Dropped(@) EXCEPT !.knows = FALSE]]
        BY <3>1, <3>2 DEF PhoneHears
      <4>3. phone[p] \in PhoneType
        BY DEF PhonesTyped
      <4>4. /\ [phone[p] EXCEPT !.knows = TRUE] \in PhoneType
            /\ [Dropped(phone[p]) EXCEPT !.knows = FALSE] \in PhoneType
        BY <4>3 DEF PhoneType, Dropped, KeyOrNone
      <4>5. phone' \in [Peers -> PhoneType]
        BY <4>2, <4>4 DEF PhonesTyped
      <4>6. QED
        BY <4>1, <4>5 DEF PhonesTyped
    <3>3. CASE x.type = "handshake"
      <4>1. x.m \in Messages /\ x.m.ei \in KeyOrNone /\ x.m.er \in KeyOrNone
        BY <2>3, <3>3, DownKinds DEF Messages
      <4>2. Handshake(Msg3(x.m.ei, x.m.er)) \in UpPackets
        BY <4>1, SessionTypes, PacketTypes
      <4>3. CASE phone[p].st = "waiting" /\ x.m.ei = phone[p].ei
        <5>1. /\ phone' = [phone EXCEPT ![p].st = "up", ![p].er = x.m.er]
              /\ derived' = [derived EXCEPT ![p] = @ \cup {<<x.m.ei, x.m.er>>}]
              /\ Send(p, <<Handshake(Msg3(x.m.ei, x.m.er))>>)
              /\ heard' = heard
          BY <3>1, <3>3, <4>3 DEF PhoneHears
        <5>2. up' \in [Peers -> Seq(UpPackets)]
          BY <4>2, <5>1, SendType DEF PhonesTyped
        <5>3. phone' \in [Peers -> PhoneType]
          <6>1. [phone[p] EXCEPT !.st = "up", !.er = x.m.er] \in PhoneType
            BY <4>1 DEF PhonesTyped, PhoneType
          <6> QED BY <5>1, <6>1 DEF PhonesTyped
        <5>4. <<x.m.ei, x.m.er>> \in KeyOrNone \X KeyOrNone
          BY <4>1
        <5>5. derived' \in [Peers -> SUBSET (KeyOrNone \X KeyOrNone)]
          BY <5>1, <5>4 DEF PhonesTyped
        <5>6. QED
          BY <5>1, <5>2, <5>3, <5>5 DEF PhonesTyped
      <4>4. CASE ~(phone[p].st = "waiting" /\ x.m.ei = phone[p].ei)
        BY <3>1, <3>3, <4>4 DEF PhoneHears, PhonesTyped
      <4>5. QED
        BY <4>3, <4>4
    <3>4. CASE x.type = "noise"
      <4>1. x.body.type # "receipt" => x.body.id \in Texts
        BY <2>3, <3>4, DownKinds
      <4>2. \/ heard' = [heard EXCEPT ![p] = heard[p]]
            \/ x.body.id \in Texts /\ heard' = [heard EXCEPT ![p] = Append(heard[p], x.body.id)]
        BY <3>1, <3>4, <4>1 DEF PhoneHears
      <4>3. x.body.id \in Texts => Append(heard[p], x.body.id) \in Seq(Texts)
        BY AppendProperties DEF PhonesTyped
      <4>4. heard' \in [Peers -> Seq(Texts)]
        BY <4>2, <4>3 DEF PhonesTyped
      <4>5. QED
        BY <3>1, <3>4, <4>4 DEF PhoneHears, PhonesTyped
    <3>5. QED
      BY <3>1, <3>2, <3>3, <3>4 DEF PhoneHears
  <2>6. QED
    BY <2>1, <2>4, <2>5 DEF PhonesTyped
<1>7. CASE LoseUp(p)
  BY <1>3, <1>7 DEF LoseUp, ManagerTyped, PhonesTyped
<1>8. CASE LoseDown(p)
  BY <1>4, <1>8 DEF LoseDown, ManagerTyped, PhonesTyped
<1>9. QED
  BY <1>1, <1>5, <1>6, <1>7, <1>8

(* The types hold at first.                                                *)
LEMMA TypeInit == Init => TypeOK
<1> SUFFICES ASSUME Init PROVE TypeOK
  OBVIOUS
<1>1. failCount \in [Peers -> 0 .. FailLimit - 1]
  BY TextsAssumption DEF Init, SMInit
<1>2. /\ sessions \in [Peers -> SessionType \cup {None}]
      /\ peerNoisePub \in [Peers -> 1 .. MaxInstalls \cup {None}]
      /\ lastMsg1 \in [Peers -> KeyOrNone]
      /\ pendingMsg2 \in [Peers -> Messages \cup {None}]
      /\ pendingSends \in [Peers -> Seq(Queued)]
  BY DEF Init, SMInit, KeyOrNone
<1>3. /\ lastSeen \in [Peers -> {"never", "recent", "silent"}]
      /\ fate \in [Texts -> Fates]
      /\ down \in [Peers -> Seq(DownPackets)]
  BY DEF Init, SMInit, Fates
<1>4. ManagerTyped
  BY <1>1, <1>2, <1>3 DEF Init, SMInit, ManagerTyped
<1>5. NewPhone \in PhoneType /\ StalePhone \in PhoneType
  BY DEF PhoneType, NewPhone, StalePhone, KeyOrNone, Ephemeral
<1>6. phone \in [Peers -> PhoneType]
  BY <1>5 DEF Init
<1>7. derived \in [Peers -> SUBSET (KeyOrNone \X KeyOrNone)]
  BY DEF Init, KeyOrNone, Ephemeral
<1>8. PhonesTyped
  BY <1>6, <1>7, LinkAssumption DEF Init, PhonesTyped
<1>9. QED
  BY <1>4, <1>8, TypeParts

(* Every step keeps the types.                                             *)
LEMMA TypeNext == TypeOK /\ [Next]_vars => TypeOK'
<1> SUFFICES ASSUME TypeOK, [Next]_vars PROVE TypeOK'
  OBVIOUS
<1> USE DEF handshake, registry, queues, link, rest, smVars, phoneVars
<1>1. ManagerTyped /\ PhonesTyped
  BY TypeParts
<1>2. CASE Commands
  <2>1. CASE \E t \in Texts : (Queue(t) \/ SendNow(t) \/ SendFile(t)) /\ ordered' = Append(ordered, t)
                              /\ UNCHANGED <<phoneVars, up>>
    <3>1. PICK t \in Texts : (Queue(t) \/ SendNow(t) \/ SendFile(t)) /\ ordered' = Append(ordered, t)
                             /\ UNCHANGED <<phoneVars, up>>
      BY <2>1
    <3>2. ManagerTyped'
      BY <1>1, <3>1, TextStepTyped
    <3>3. PhonesTyped'
      BY <1>1, <3>1, AppendProperties DEF PhonesTyped
    <3>4. QED
      BY <3>2, <3>3, TypeParts
  <2>2. CASE (SetNick \/ PeriodicAnnounce \/ Broadcast \/ Subscribe)
             /\ UNCHANGED <<phoneVars, up, ordered>>
    <3>1. ManagerTyped'
      BY <1>1, <2>2, CommandTyped
    <3>2. PhonesTyped'
      BY <1>1, <2>2 DEF PhonesTyped
    <3>3. QED
      BY <3>1, <3>2, TypeParts
  <2>3. QED
    BY <1>2, <2>1, <2>2 DEF Commands
<1>3. CASE Clock
  <2>1. ManagerTyped'
    <3>1. CASE PeerTimeout
      <4>1. PICK p \in Peers : TRUE
        BY <1>1, <3>1 DEF PeerTimeout, TimedOut, ManagerTyped
      <4>2. QED
        BY <1>1, <3>1, TimerTyped
    <3>2. QED
      BY <1>1, <1>3, <3>1, TimerTyped, CommandTyped DEF Clock
  <2>2. PhonesTyped'
    BY <1>1, <1>3 DEF Clock, PhonesTyped
  <2>3. QED
    BY <2>1, <2>2, TypeParts
<1>4. CASE Phones
  BY <1>1, <1>4, PhonesTypedNext, TypeParts
<1>5. CASE Link
  BY <1>1, <1>5, LinkTyped, TypeParts
<1>6. CASE UNCHANGED vars
  <2>1. ManagerTyped'
    BY <1>1, <1>6 DEF vars, ManagerTyped
  <2>2. PhonesTyped'
    BY <1>1, <1>6 DEF vars, PhonesTyped
  <2>3. QED
    BY <2>1, <2>2, TypeParts
<1>7. QED
  BY <1>2, <1>3, <1>4, <1>5, <1>6 DEF Next

(* Sessions, queues, caches and packets are always well formed, however    *)
(* packets are lost, repeated, delayed or garbled by the phone (TypeOK).   *)
THEOREM TypeCorrect == Spec => []TypeOK
  BY TypeInit, TypeNext, PTL DEF Spec

-----------------------------------------------------------------------------
(* Agreement.  A third message is evidence: whoever sends one has finished *)
(* the handshake with its keys, and only with one is a session established.*)

Third(x) == x.type = "handshake" /\ x.m.kind = "msg3"

Evidence ==
    \A p \in Peers : \A i \in DOMAIN up[p] :
        Third(up[p][i]) => <<up[p][i].m.ei, up[p][i].m.er>> \in derived[p]

AgreementInv == TypeOK /\ Agreement /\ Evidence

(* What is established was, under the same keys.                           *)
NothingEstablished ==
    \A p \in Peers :
        Established(sessions'[p]) => /\ Established(sessions[p])
                                    /\ sessions'[p].ei = sessions[p].ei
                                    /\ sessions'[p].er = sessions[p].er

(* What is under way when a packet leaves the link was under way before.   *)
LEMMA UpTaken ==
    ASSUME TypeOK, NEW p \in Peers, NEW i \in DOMAIN up[p], up' = [up EXCEPT ![p] = RemoveAt(@, i)]
    PROVE  \A q \in Peers : \A j \in DOMAIN up'[q] : \E k \in DOMAIN up[q] : up'[q][j] = up[q][k]
<1>1. up[p] \in Seq(UpPackets) /\ DOMAIN up[p] = 1 .. Len(up[p]) /\ Len(up[p]) \in Nat
  BY DEF TypeOK
<1>2. up'[p] = RemoveAt(up[p], i) /\ \A q \in Peers \ {p} : up'[q] = up[q]
  BY DEF TypeOK
<1>3. /\ Len(RemoveAt(up[p], i)) = Len(up[p]) - 1 /\ RemoveAt(up[p], i) \in Seq(UpPackets)
      /\ \A j \in 1 .. Len(up[p]) - 1 :
            RemoveAt(up[p], i)[j] = IF j < i THEN up[p][j] ELSE up[p][j + 1]
  BY <1>1, RemoveAtType
<1>4. ASSUME NEW j \in DOMAIN up'[p] PROVE \E k \in DOMAIN up[p] : up'[p][j] = up[p][k]
  <2>1. j \in 1 .. Len(up[p]) - 1
    BY <1>1, <1>2, <1>3
  <2>2. j \in DOMAIN up[p] /\ j + 1 \in DOMAIN up[p]
    BY <1>1, <2>1
  <2>3. QED
    BY <1>2, <1>3, <2>1, <2>2
<1>5. QED
  BY <1>2, <1>4

(* When a phone sends a packet, only that one is new.                      *)
LEMMA UpSent ==
    ASSUME TypeOK, NEW p \in Peers, NEW x \in UpPackets, Send(p, <<x>>)
    PROVE  \A q \in Peers : \A j \in DOMAIN up'[q] :
              (q = p /\ up'[q][j] = x) \/ (j \in DOMAIN up[q] /\ up'[q][j] = up[q][j])
<1>1. up[p] \in Seq(UpPackets) /\ DOMAIN up[p] = 1 .. Len(up[p]) /\ Len(up[p]) \in Nat
  BY DEF TypeOK
<1>2. up'[p] = Append(up[p], x)
  BY <1>1, AppendIsConcat DEF Send, TypeOK
<1>3. ASSUME NEW j \in DOMAIN up'[p]
      PROVE  up'[p][j] = x \/ (j \in DOMAIN up[p] /\ up'[p][j] = up[p][j])
  BY <1>1, <1>2, AppendProperties
<1>4. \A q \in Peers \ {p} : up'[q] = up[q]
  BY DEF TypeOK, Send
<1>5. QED
  BY <1>3, <1>4

(* A packet less is no evidence more.                                      *)
LEMMA EvidenceRemoved ==
    ASSUME TypeOK, Evidence, NEW p \in Peers, NEW i \in DOMAIN up[p],
           up' = [up EXCEPT ![p] = RemoveAt(@, i)], UNCHANGED derived
    PROVE  Evidence'
<1>1. \A q \in Peers : \A j \in DOMAIN up'[q] : \E k \in DOMAIN up[q] : up'[q][j] = up[q][k]
  BY UpTaken
<1>2. QED
  BY <1>1 DEF Evidence

(* A phone sends a third message only with a handshake it has finished.    *)
LEMMA EvidenceSent ==
    ASSUME TypeOK, Evidence, NEW p \in Peers, NEW x \in UpPackets, Send(p, <<x>>),
           derived' \in [Peers -> SUBSET (KeyOrNone \X KeyOrNone)],
           \A q \in Peers : derived[q] \subseteq derived'[q],
           Third(x) => <<x.m.ei, x.m.er>> \in derived'[p]
    PROVE  Evidence'
<1>1. \A q \in Peers : \A j \in DOMAIN up'[q] :
          (q = p /\ up'[q][j] = x) \/ (j \in DOMAIN up[q] /\ up'[q][j] = up[q][j])
  BY UpSent
<1>2. QED
  BY <1>1 DEF Evidence

(* Only a third message, read in the state wrote, establishes a session,   *)
(* and under the keys it carries.                                          *)
LEMMA HandlersEstablish ==
    ASSUME TypeOK, NEW p \in Peers, NEW x \in UpPackets, Handled(p, x)
    PROVE  \/ NothingEstablished
           \/ /\ Third(x) /\ Establish(p, x.m)
              /\ \A q \in Peers \ {p} : sessions'[q] = sessions[q]
              /\ sessions'[p].ei = x.m.ei /\ sessions'[p].er = x.m.er
<1> USE DEF handshake, registry, queues, link, rest
<1>1. sessions \in [Peers -> SessionType \cup {None}] /\ ManagerTyped
  BY TypeParts DEF ManagerTyped
<1>2. Responder \in SessionType /\ ~Established(Responder)
  BY SessionTypes DEF Established
<1>3. CASE x.type = "announce" /\ HandleAnnounce(p, x.pub)
  BY <1>1, <1>3 DEF HandleAnnounce, Established, NothingEstablished
<1>4. CASE x.type = "sync" /\ HandleRequestSync(p)
  BY <1>4 DEF HandleRequestSync, NothingEstablished
<1>5. CASE x.type = "leave" /\ HandleLeave(p)
  BY <1>1, <1>5 DEF HandleLeave, DropPeers, Established, NothingEstablished
<1>6. CASE x.type = "chat" /\ HandlePublic(p)
  BY <1>6 DEF HandlePublic, NothingEstablished
<1>7. CASE x.type = "noise" /\ HandleNoiseEncrypted(p, x.keys, x.body)
  <2>1. CASE NoSession(p)
    BY <1>1, <1>2, <2>1 DEF NoSession, Reset, NothingEstablished
  <2>2. CASE Undecryptable(p, x.keys)
    BY <1>1, <1>2, <2>2 DEF Undecryptable, Reset, NothingEstablished
  <2>3. CASE Decrypted(p, x.keys, x.body)
    <3> DEFINE n == Cardinality(Acknowledgement(x.body))
    <3>1. n \in Nat
      BY FS_EmptySet, PartOfInterval DEF Acknowledgement
    <3>2. Established(sessions[p]) /\ sessions[p] \in SessionType
      BY <1>1, <2>3 DEF Decrypted, Decrypts, Established
    <3>3. sessions' = [sessions EXCEPT ![p] = Encrypted(sessions[p], n)]
      BY <2>3 DEF Decrypted
    <3> HIDE DEF n
    <3>4. QED
      BY <1>1, <3>1, <3>2, <3>3, EncryptedType DEF NothingEstablished
  <2>4. QED
    BY <1>7, <2>1, <2>2, <2>3 DEF HandleNoiseEncrypted
<1>8. CASE x.type = "handshake" /\ HandleNoiseHandshake(p, x.m)
  <2> DEFINE m == x.m
             r == Reader(p, m)
             s == Read(r, m)
  <2>1. m \in Messages
    BY <1>8, UpKinds
  <2>2. r \in SessionType
    BY <1>1, SessionTypes DEF Reader
  <2>3. s \in SessionType
    BY <2>1, <2>2, SessionTypes
  <2>4. CASE IgnoreHandshake(p, m)
    BY <2>4 DEF IgnoreHandshake, NothingEstablished
  <2>5. CASE ResendMsg2(p, m)
    BY <1>1, <1>2, <2>5 DEF ResendMsg2, NothingEstablished, Established
  <2>6. CASE FailHandshake(p, m)
    BY <1>1, <2>6 DEF FailHandshake, NothingEstablished, Established
  <2>7. CASE AnswerMsg1(p, m)
    <3> DEFINE w == Write(s, NextKey)
    <3>1. w.st = "wrote"
      BY <2>3 DEF Write, SessionType
    <3>2. sessions' = [sessions EXCEPT ![p] = w]
      BY <2>7 DEF AnswerMsg1
    <3> HIDE DEF w
    <3>3. QED
      BY <1>1, <3>1, <3>2 DEF NothingEstablished, Established
  <2>8. CASE Establish(p, m)
    <3>1. s.st = "transport"
      BY <2>8 DEF Establish
    <3>2. r.st = "wrote" /\ Finishes(r, m) /\ s = [r EXCEPT !.st = "transport"]
      BY <2>2, <3>1 DEF Read, SessionType, Fail
    <3>3. m.kind = "msg3" /\ s.ei = m.ei /\ s.er = m.er
      BY <2>2, <3>2 DEF Finishes, SessionType
    <3>4. Len(Drained(p)) \in Nat
      BY <1>1, <2>3, DrainPacketsType
    <3>5. sessions' = [sessions EXCEPT ![p] = Encrypted(s, Len(Drained(p)))]
      BY <2>8 DEF Establish
    <3> HIDE DEF s, r
    <3>6. QED
      BY <1>1, <1>8, <2>3, <2>8, <3>3, <3>4, <3>5, EncryptedType DEF Third
  <2>9. QED
    BY <1>8, <2>4, <2>5, <2>6, <2>7, <2>8 DEF HandleNoiseHandshake
<1>9. QED
  BY <1>3, <1>4, <1>5, <1>6, <1>7, <1>8 DEF Handled

(* Where nothing is established nothing has to be shown.                   *)
LEMMA AgreementKept ==
    ASSUME TypeOK, Agreement, NothingEstablished, \A q \in Peers : derived[q] \subseteq derived'[q]
    PROVE  Agreement'
  BY DEF Agreement, NothingEstablished

(* No command and no timer establishes a session.                          *)
LEMMA DaemonEstablishesNothing ==
    ASSUME TypeOK, Commands \/ Clock
    PROVE  NothingEstablished
<1> USE DEF handshake, registry, queues, link, rest
<1>1. sessions \in [Peers -> SessionType \cup {None}] /\ ManagerTyped
  BY TypeParts DEF ManagerTyped
<1>2. ASSUME NEW t \in Texts, Queue(t) \/ SendNow(t) \/ SendFile(t) PROVE NothingEstablished
  <2>1. To[t] \in Peers
    BY TextsAssumption
  <2>2. \/ UNCHANGED sessions
        \/ /\ Established(sessions[To[t]])
           /\ sessions' = [sessions EXCEPT ![To[t]] = Encrypted(sessions[To[t]], 1)]
    BY <1>2 DEF Queue, SendNow, SendFile
  <2>3. Established(sessions[To[t]]) => sessions[To[t]] \in SessionType
    BY <1>1, <2>1 DEF Established
  <2>4. QED
    BY <1>1, <2>1, <2>2, <2>3, EncryptedType DEF NothingEstablished
<1>3. CASE SetNick \/ PeriodicAnnounce \/ Broadcast \/ Subscribe \/ Unsubscribe
  BY <1>3 DEF SetNick, PeriodicAnnounce, Broadcast, Subscribe, Unsubscribe, NothingEstablished
<1>4. CASE PeerTimeout
  BY <1>1, <1>4 DEF PeerTimeout, DropPeers, Established, NothingEstablished
<1>5. ASSUME NEW p \in Peers, Silence(p) \/ CooldownEnds(p) \/ QueueAges(p) \/ CancelPendingSends(p)
      PROVE  NothingEstablished
  BY <1>5 DEF Silence, CooldownEnds, QueueAges, CancelPendingSends, NothingEstablished
<1>6. ASSUME NEW p \in Peers, SessionAges(p) PROVE NothingEstablished
  BY <1>1, <1>6, SessionTypes DEF SessionAges, Established, NothingEstablished
<1>7. CASE Commands
  BY <1>2, <1>3, <1>7 DEF Commands
<1>8. CASE Clock
  BY <1>3, <1>4, <1>5, <1>6, <1>8 DEF Clock
<1>9. QED
  BY <1>7, <1>8

(* No phone sends a third message of its own accord.                       *)
LEMMA PhonesSend ==
    ASSUME NEW p \in Peers,
           \/ PhoneAnnounce(p) \/ PhoneStart(p) \/ PhoneRetry(p) \/ PhoneAsks(p)
           \/ PhoneChats(p) \/ PhoneLeaves(p) \/ PhoneReinstalls(p)
           \/ \E m \in Letters : PhoneWrites(p, m)
    PROVE  UNCHANGED up \/ \E x : Send(p, <<x>>) /\ ~Third(x)
<1>1. PhoneAnnounce(p) => Send(p, <<Hello(p)>>) /\ ~Third(Hello(p))
  BY DEF PhoneAnnounce, Hello, Third
<1>2. \A e : ~Third(Handshake(Msg1(e)))
  BY DEF Third, Handshake, Msg1
<1>3. PhoneStart(p) \/ PhoneRetry(p) => \E e : Send(p, <<Handshake(Msg1(e))>>)
  BY DEF PhoneStart, PhoneRetry
<1>4. PhoneAsks(p) => Send(p, <<[type |-> "sync"]>>) /\ ~Third([type |-> "sync"])
  BY DEF PhoneAsks, Third
<1>5. PhoneChats(p) => Send(p, <<CHAT>>) /\ ~Third(CHAT)
  BY DEF PhoneChats, CHAT, Third
<1>6. PhoneLeaves(p) => Send(p, <<Goodbye>>) /\ ~Third(Goodbye)
  BY DEF PhoneLeaves, Goodbye, Third
<1>7. \A k, b : ~Third(Noise(k, b))
  BY DEF Third, Noise
<1>8. ASSUME NEW m \in Letters, PhoneWrites(p, m) PROVE \E k, b : Send(p, <<Noise(k, b)>>)
  BY <1>8 DEF PhoneWrites
<1>9. PhoneReinstalls(p) => UNCHANGED up
  BY DEF PhoneReinstalls
<1>10. QED
  BY <1>1, <1>2, <1>3, <1>4, <1>5, <1>6, <1>7, <1>8, <1>9

(* Every step keeps Agreement and the evidence for it.                     *)
LEMMA AgreementNext == AgreementInv /\ [Next]_vars => AgreementInv'
<1> SUFFICES ASSUME AgreementInv, [Next]_vars PROVE AgreementInv'
  OBVIOUS
<1> USE DEF handshake, registry, queues, link, rest, smVars, phoneVars
<1>1. TypeOK /\ Agreement /\ Evidence /\ TypeOK'
  BY TypeNext DEF AgreementInv
<1>2. CASE Commands \/ Clock
  <2>1. UNCHANGED <<up, derived>>
    BY <1>2 DEF Commands, Clock
  <2>2. NothingEstablished
    BY <1>1, <1>2, DaemonEstablishesNothing
  <2>3. Agreement'
    BY <1>1, <2>1, <2>2, AgreementKept
  <2>4. Evidence'
    BY <1>1, <2>1 DEF Evidence
  <2>5. QED
    BY <1>1, <2>3, <2>4 DEF AgreementInv
<1>3. CASE Phones
  <2>1. PICK p \in Peers :
        \/ PhoneAnnounce(p) \/ PhoneStart(p) \/ PhoneRetry(p) \/ PhoneAsks(p)
        \/ PhoneChats(p) \/ PhoneLeaves(p) \/ PhoneReinstalls(p)
        \/ \E m \in Letters : PhoneWrites(p, m)
    BY <1>3 DEF Phones
  <2>2. UNCHANGED derived
    BY <2>1 DEF PhoneAnnounce, PhoneStart, PhoneRetry, PhoneAsks, PhoneChats, PhoneLeaves,
                PhoneReinstalls, PhoneWrites
  <2>3. NothingEstablished
    BY <2>1 DEF PhoneAnnounce, PhoneStart, PhoneRetry, PhoneAsks, PhoneChats, PhoneLeaves,
                PhoneReinstalls, PhoneWrites, NothingEstablished
  <2>4. UNCHANGED up \/ \E x : Send(p, <<x>>) /\ ~Third(x)
    BY <2>1, PhonesSend
  <2>5. ASSUME NEW x, Send(p, <<x>>), ~Third(x) PROVE Evidence'
    <3>1. up[p] \in Seq(UpPackets) /\ up'[p] = up[p] \o <<x>> /\ up'[p] \in Seq(UpPackets)
      BY <1>1, <2>5 DEF Send, TypeOK
    <3>2. x \in UpPackets
      BY <3>1
    <3>3. QED
      BY <1>1, <2>2, <2>5, <3>2, EvidenceSent DEF TypeOK
  <2>6. Evidence'
    BY <1>1, <2>2, <2>4, <2>5 DEF Evidence
  <2>7. QED
    BY <1>1, <2>2, <2>3, <2>6, AgreementKept DEF AgreementInv
<1>4. CASE Link
  <2>1. PICK p \in Peers : DeliverUp(p) \/ DeliverDown(p) \/ LoseUp(p) \/ LoseDown(p)
    BY <1>4 DEF Link
  <2>2. CASE DeliverUp(p)
    <3>1. PICK i \in DOMAIN up[p] :
        /\ up[p][i] \in UpPackets
        /\ up' = [up EXCEPT ![p] = RemoveAt(@, i)]
        /\ Handled(p, up[p][i])
        /\ UNCHANGED <<phoneVars, ordered>>
      BY <1>1, <2>2, Delivered DEF TypeOK
    <3> DEFINE x == up[p][i]
    <3>2. Evidence'
      BY <1>1, <3>1, EvidenceRemoved
    <3>3. Third(x) => <<x.m.ei, x.m.er>> \in derived[p]
      BY <1>1 DEF Evidence
    <3>4. \/ NothingEstablished
          \/ /\ Third(x)
             /\ \A q \in Peers \ {p} : sessions'[q] = sessions[q]
             /\ sessions'[p].ei = x.m.ei /\ sessions'[p].er = x.m.er
      BY <1>1, <3>1, HandlersEstablish
    <3> HIDE DEF x
    <3>5. Agreement'
      BY <1>1, <3>1, <3>3, <3>4, AgreementKept DEF Agreement
    <3>6. QED
      BY <1>1, <3>2, <3>5 DEF AgreementInv
  <2>3. CASE DeliverDown(p)
    <3>1. PICK i \in Next1(down[p]) :
        /\ PhoneHears(p, down[p][i])
        /\ UNCHANGED <<handshake, registry, queues, link, rest, install, posted, ordered>>
      BY <2>3 DEF DeliverDown
    <3> DEFINE x == down[p][i]
    <3>2. NothingEstablished
      BY <3>1 DEF NothingEstablished
    <3>3. x \in DownPackets
      BY <1>1, ElementOfSeq DEF Next1, TypeOK
    <3> HIDE DEF x
    <3>4. PhoneHears(p, x)
      BY <3>1 DEF x
    <3>5. \/ UNCHANGED <<up, derived>>
          \/ /\ x.type = "handshake"
             /\ derived' = [derived EXCEPT ![p] = @ \cup {<<x.m.ei, x.m.er>>}]
             /\ Send(p, <<Handshake(Msg3(x.m.ei, x.m.er))>>)
      BY <3>4 DEF PhoneHears
    <3>6. CASE UNCHANGED <<up, derived>>
      BY <1>1, <3>2, <3>6, AgreementKept DEF Evidence, AgreementInv
    <3>7. CASE /\ x.type = "handshake"
               /\ derived' = [derived EXCEPT ![p] = @ \cup {<<x.m.ei, x.m.er>>}]
               /\ Send(p, <<Handshake(Msg3(x.m.ei, x.m.er))>>)
      <4> DEFINE y == Handshake(Msg3(x.m.ei, x.m.er))
      <4>1. y \in UpPackets /\ y.m.ei = x.m.ei /\ y.m.er = x.m.er
        BY <3>3, <3>7, DownKinds, SessionTypes, PacketTypes DEF Messages, Handshake, Msg3
      <4>2. \A q \in Peers : derived[q] \subseteq derived'[q]
        BY <1>1, <3>7 DEF TypeOK
      <4>3. <<x.m.ei, x.m.er>> \in derived'[p]
        BY <1>1, <3>7 DEF TypeOK
      <4> HIDE DEF y
      <4>4. Evidence'
        BY <1>1, <3>7, <4>1, <4>2, <4>3, EvidenceSent DEF TypeOK, y
      <4>5. QED
        BY <1>1, <3>2, <4>2, <4>4, AgreementKept DEF AgreementInv
    <3>8. QED
      BY <3>5, <3>6, <3>7
  <2>4. CASE LoseUp(p)
    <3>1. PICK i \in DOMAIN up[p] : up' = [up EXCEPT ![p] = RemoveAt(@, i)]
      BY <2>4 DEF LoseUp
    <3>2. UNCHANGED derived /\ NothingEstablished
      BY <2>4 DEF LoseUp, NothingEstablished
    <3>3. QED
      BY <1>1, <3>1, <3>2, EvidenceRemoved, AgreementKept DEF AgreementInv
  <2>5. CASE LoseDown(p)
    <3>1. UNCHANGED <<derived, up>> /\ NothingEstablished
      BY <2>5 DEF LoseDown, NothingEstablished
    <3>2. QED
      BY <1>1, <3>1, AgreementKept DEF AgreementInv, Evidence
  <2> QED BY <2>1, <2>2, <2>3, <2>4, <2>5
<1>5. CASE UNCHANGED vars
  BY <1>1, <1>5, AgreementKept DEF vars, NothingEstablished, Evidence, AgreementInv
<1>6. QED
  BY <1>2, <1>3, <1>4, <1>5 DEF Next

(* At first there are no sessions.                                         *)
LEMMA AgreementInit == Init => AgreementInv
  BY TypeInit DEF Init, SMInit, AgreementInv, Agreement, Evidence, Established

(* _handle_noise_handshake establishes no session but one whose handshake  *)
(* the phone has finished, even on a link that loses and reorders          *)
(* (Agreement).                                                            *)
THEOREM SessionsAgree == Spec => []Agreement
<1>1. AgreementInv => Agreement
  BY DEF AgreementInv
<1>2. QED
  BY <1>1, AgreementInit, AgreementNext, PTL DEF Spec

-----------------------------------------------------------------------------
(* The queue of unsent texts and the service.                              *)

TextPacket(x) == x.type = "noise" /\ x.body.type # "receipt"

(* A text under way is for the phone it is on its way to, has been sent,   *)
(* is under way once and has not been heard.                               *)
LinkExact ==
    /\ \A p \in Peers : \A i \in DOMAIN down[p] :
          TextPacket(down[p][i]) =>
              /\ To[down[p][i].body.id] = p /\ fate[down[p][i].body.id] = "sent"
              /\ \A k \in DOMAIN heard[p] : heard[p][k] # down[p][i].body.id
    /\ \A p \in Peers : \A i, j \in DOMAIN down[p] :
          TextPacket(down[p][i]) /\ TextPacket(down[p][j]) /\ down[p][i].body.id = down[p][j].body.id
              => i = j
    /\ \A p \in Peers : \A k \in DOMAIN heard[p] : To[heard[p][k]] = p

ServiceInv == TypeOK /\ QueueExact /\ LinkExact

Settled == {"sent", "expired", "left", "timedOut", "cancelled", "crashed"}

(* What a step may do to the fates without a send command.                 *)
SettlesOnly ==
    /\ heard' = heard
    /\ \A t \in Texts : fate'[t] = fate[t] \/ (fate[t] = "queued" /\ fate'[t] \in Settled)

(* No text is put on a link.                                               *)
NoTextSent ==
    \A p \in Peers : \A i \in DOMAIN down'[p] :
        TextPacket(down'[p][i]) => i \in DOMAIN down[p] /\ down'[p][i] = down[p][i]

-----------------------------------------------------------------------------
(* What was put on the links.                                              *)

(* Where no text is put on a link, LinkExact is kept.                      *)
LEMMA QuietLink ==
    ASSUME ServiceInv, NoTextSent, heard' = heard,
           \A t \in Texts : fate[t] = "sent" => fate'[t] = "sent"
    PROVE  LinkExact'
<1>1. \A p \in Peers : \A i \in DOMAIN down[p] : TextPacket(down[p][i]) => down[p][i].body.id \in Texts
  <2> SUFFICES ASSUME NEW p \in Peers, NEW i \in DOMAIN down[p], TextPacket(down[p][i])
               PROVE  down[p][i].body.id \in Texts
    OBVIOUS
  <2>1. down[p][i] \in DownPackets
    BY ElementOfSeq DEF ServiceInv, TypeOK
  <2>2. QED
    BY <2>1, DownKinds DEF TextPacket
<1>2. QED
  BY <1>1 DEF ServiceInv, LinkExact, NoTextSent

(* Packets that are no texts, to one phone.                                *)
LEMMA SentQuietly ==
    ASSUME TypeOK, NEW p \in Peers, NEW s \in Seq(DownPackets), down' = Sent(p, s),
           \A i \in DOMAIN s : ~TextPacket(s[i])
    PROVE  NoTextSent
<1>1. CASE reachable
  <2> DEFINE q == down[p]
  <2>1. q \in Seq(DownPackets) /\ down'[p] = q \o s /\ \A r \in Peers \ {p} : down'[r] = down[r]
    BY <1>1 DEF Sent, TypeOK
  <2> HIDE DEF q
  <2>2. ASSUME NEW i \in DOMAIN (q \o s), TextPacket((q \o s)[i])
        PROVE  i \in DOMAIN q /\ (q \o s)[i] = q[i]
    <3>1. /\ i \in 1 .. Len(q) + Len(s) /\ Len(q) \in Nat /\ Len(s) \in Nat
          /\ (q \o s)[i] = IF i <= Len(q) THEN q[i] ELSE s[i - Len(q)]
      BY <2>1, ConcatProperties
    <3>2. CASE i <= Len(q)
      BY <2>1, <3>1, <3>2
    <3>3. CASE ~(i <= Len(q))
      <4>1. i - Len(q) \in DOMAIN s
        BY <3>1, <3>3
      <4>2. QED
        BY <2>2, <3>1, <3>3, <4>1
    <3>4. QED
      BY <3>2, <3>3
  <2>3. QED
    BY <2>1, <2>2 DEF NoTextSent, q
<1>2. CASE ~reachable
  BY <1>2 DEF Sent, NoTextSent
<1>3. QED
  BY <1>1, <1>2

(* Packets that are no texts, behind others.                               *)
LEMMA JoinedQuietly ==
    ASSUME NEW q \in Seq(DownPackets), NEW s \in Seq(Plain),
           NEW i \in DOMAIN Join(q, s), TextPacket(Join(q, s)[i])
    PROVE  i \in DOMAIN q /\ Join(q, s)[i] = q[i]
<1>1. CASE Join(q, s) = q
  BY <1>1
<1>2. CASE Join(q, s) # q
  <2>1. s \in Seq(DownPackets) /\ Join(q, s) = q \o s
    BY <1>2, PlainType, SeqMonotonic DEF Join
  <2>2. /\ i \in 1 .. Len(q) + Len(s) /\ Len(q) \in Nat /\ Len(s) \in Nat
        /\ (q \o s)[i] = IF i <= Len(q) THEN q[i] ELSE s[i - Len(q)]
    BY <2>1, ConcatProperties
  <2>3. CASE i <= Len(q)
    BY <2>1, <2>2, <2>3
  <2>4. CASE ~(i <= Len(q))
    <3>1. i - Len(q) \in DOMAIN s
      BY <2>2, <2>4
    <3>2. s[i - Len(q)] \in Plain
      BY <3>1, ElementOfSeq
    <3>3. ~TextPacket(s[i - Len(q)])
      BY <3>2 DEF Plain, TextPacket
    <3>4. QED
      BY <2>1, <2>2, <2>4, <3>3
  <2>5. QED
    BY <2>3, <2>4
<1>3. QED
  BY <1>1, <1>2

(* Packets that are no texts, to all phones.                               *)
LEMMA ToAllQuietly ==
    ASSUME TypeOK, NEW s \in Seq(Plain), down' = ToAll(s) \/ down' = [q \in Peers |-> Join(down[q], s)]
    PROVE  NoTextSent
<1>1. \A q \in Peers : down[q] \in Seq(DownPackets)
  BY DEF TypeOK
<1>2. \A q \in Peers : down'[q] = down[q] \/ down'[q] = Join(down[q], s)
  BY DEF ToAll
<1>3. QED
  BY <1>1, <1>2, JoinedQuietly DEF NoTextSent

(* Texts that were not sent before are put on the link of their phone.     *)
LEMMA SentTexts ==
    ASSUME ServiceInv, NEW p \in Peers, NEW s \in Seq(DownPackets), down' = Sent(p, s),
           heard' = heard,
           \A t \in Texts : fate[t] = "sent" => fate'[t] = "sent",
           \A i \in DOMAIN s : TextPacket(s[i]) => /\ To[s[i].body.id] = p
                                                   /\ fate[s[i].body.id] # "sent"
                                                   /\ fate'[s[i].body.id] = "sent",
           \A i, j \in DOMAIN s : TextPacket(s[i]) /\ TextPacket(s[j]) /\ s[i].body.id = s[j].body.id
                                     => i = j
    PROVE  LinkExact'
<1>1. /\ TypeOK /\ QueueExact /\ LinkExact
      /\ down \in [Peers -> Seq(DownPackets)] /\ heard \in [Peers -> Seq(Texts)]
  BY DEF ServiceInv, TypeOK
<1>2. CASE ~reachable
  <2>1. NoTextSent
    BY <1>2 DEF Sent, NoTextSent
  <2>2. QED
    BY <2>1, QuietLink
<1>3. CASE reachable
  <2> DEFINE q == down[p]
             r == q \o s
             id(x) == x.body.id
  <2>1. q \in Seq(DownPackets) /\ down'[p] = r /\ \A u \in Peers \ {p} : down'[u] = down[u]
    BY <1>1, <1>3 DEF Sent
  <2>2. \A i \in DOMAIN q : TextPacket(q[i]) => id(q[i]) \in Texts
    <3>1. \A i \in DOMAIN q : q[i] \in DownPackets
      BY <2>1, ElementOfSeq
    <3>2. QED
      BY <3>1, DownKinds DEF TextPacket
  <2>3. \A i \in DOMAIN q : TextPacket(q[i]) =>
            /\ To[id(q[i])] = p /\ fate[id(q[i])] = "sent" /\ fate'[id(q[i])] = "sent"
            /\ \A k \in DOMAIN heard[p] : heard[p][k] # id(q[i])
    BY <1>1, <2>2 DEF LinkExact
  <2>4. \A k \in DOMAIN heard[p] : fate[heard[p][k]] = "sent"
    BY <1>1 DEF QueueExact
  <2>5. \A i, j \in DOMAIN q : TextPacket(q[i]) /\ TextPacket(q[j]) /\ id(q[i]) = id(q[j]) => i = j
    BY <1>1 DEF LinkExact
  <2> HIDE DEF q
  <2>6. /\ Len(q) \in Nat /\ Len(s) \in Nat /\ DOMAIN q = 1 .. Len(q) /\ DOMAIN s = 1 .. Len(s)
        /\ DOMAIN r = 1 .. Len(q) + Len(s)
        /\ \A i \in DOMAIN r : r[i] = IF i <= Len(q) THEN q[i] ELSE s[i - Len(q)]
    BY <2>1, ConcatProperties
  <2> HIDE DEF r
  <2>7. \A i \in DOMAIN r : \/ i <= Len(q) /\ i \in DOMAIN q /\ r[i] = q[i]
                            \/ ~(i <= Len(q)) /\ i - Len(q) \in DOMAIN s /\ r[i] = s[i - Len(q)]
    BY <2>6
  <2> HIDE DEF id
  <2>8. \A i \in DOMAIN r : TextPacket(r[i]) =>
            /\ To[id(r[i])] = p /\ fate'[id(r[i])] = "sent"
            /\ \A k \in DOMAIN heard[p] : heard[p][k] # id(r[i])
    BY <2>3, <2>4, <2>7 DEF id
  <2>9. ASSUME NEW i \in DOMAIN r, NEW j \in DOMAIN r, TextPacket(r[i]), TextPacket(r[j]), id(r[i]) = id(r[j])
        PROVE  i = j
    <3>1. CASE i <= Len(q) /\ j <= Len(q)
      BY <2>5, <2>7, <2>9, <3>1
    <3>2. CASE ~(i <= Len(q)) /\ ~(j <= Len(q))
      <4>1. i - Len(q) = j - Len(q)
        BY <2>7, <2>9, <3>2 DEF id
      <4>2. QED
        BY <2>6, <4>1
    <3>3. CASE i <= Len(q) /\ ~(j <= Len(q))
      BY <2>3, <2>7, <2>9, <3>3 DEF id
    <3>4. CASE ~(i <= Len(q)) /\ j <= Len(q)
      BY <2>3, <2>7, <2>9, <3>4 DEF id
    <3>5. QED
      BY <3>1, <3>2, <3>3, <3>4
  <2>10. \A u \in Peers \ {p} : \A i \in DOMAIN down[u] : TextPacket(down[u][i]) =>
            /\ To[down[u][i].body.id] = u /\ fate'[down[u][i].body.id] = "sent"
            /\ \A k \in DOMAIN heard[u] : heard[u][k] # down[u][i].body.id
    <3> SUFFICES ASSUME NEW u \in Peers \ {p}, NEW i \in DOMAIN down[u], TextPacket(down[u][i])
                 PROVE  /\ To[down[u][i].body.id] = u /\ fate'[down[u][i].body.id] = "sent"
                        /\ \A k \in DOMAIN heard[u] : heard[u][k] # down[u][i].body.id
      OBVIOUS
    <3>1. down[u][i] \in DownPackets
      BY <1>1, ElementOfSeq
    <3>2. down[u][i].body.id \in Texts
      BY <3>1, DownKinds DEF TextPacket
    <3>3. QED
      BY <1>1, <3>2 DEF LinkExact
  <2>11. /\ \A u \in Peers : \A i \in DOMAIN down'[u] :
              TextPacket(down'[u][i]) =>
                 /\ To[down'[u][i].body.id] = u /\ fate'[down'[u][i].body.id] = "sent"
                 /\ \A k \in DOMAIN heard'[u] : heard'[u][k] # down'[u][i].body.id
    BY <2>1, <2>8, <2>10 DEF id
  <2>12. \A u \in Peers : \A i, j \in DOMAIN down'[u] :
          TextPacket(down'[u][i]) /\ TextPacket(down'[u][j]) /\ down'[u][i].body.id = down'[u][j].body.id
              => i = j
    <3>1. ASSUME NEW u \in Peers \ {p}, NEW i \in DOMAIN down[u], NEW j \in DOMAIN down[u],
                 TextPacket(down[u][i]), TextPacket(down[u][j]), down[u][i].body.id = down[u][j].body.id
          PROVE  i = j
      BY <1>1, <3>1 DEF LinkExact
    <3>2. ASSUME NEW i \in DOMAIN r, NEW j \in DOMAIN r,
                 TextPacket(r[i]), TextPacket(r[j]), r[i].body.id = r[j].body.id
          PROVE  i = j
      BY <2>9, <3>2 DEF id
    <3>3. QED
      BY <2>1, <3>1, <3>2
  <2>13. QED
    BY <1>1, <2>11, <2>12 DEF LinkExact
<1>4. QED
  BY <1>2, <1>3

(* A packet leaves a link.                                                 *)
LEMMA Taken ==
    ASSUME TypeOK, NEW p \in Peers, NEW n \in DOMAIN down[p], down' = [down EXCEPT ![p] = RemoveAt(@, n)]
    PROVE  /\ \A u \in Peers \ {p} : down'[u] = down[u]
           /\ \A i \in DOMAIN down'[p] :
                 \/ i < n /\ i \in DOMAIN down[p] /\ down'[p][i] = down[p][i]
                 \/ ~(i < n) /\ i + 1 \in DOMAIN down[p] /\ down'[p][i] = down[p][i + 1]
           /\ DOMAIN down'[p] \subseteq Nat /\ n \in Nat
<1>1. /\ down[p] \in Seq(DownPackets) /\ DOMAIN down[p] = 1 .. Len(down[p]) /\ Len(down[p]) \in Nat
      /\ down'[p] = RemoveAt(down[p], n)
  BY DEF TypeOK
<1>2. /\ RemoveAt(down[p], n) \in Seq(DownPackets) /\ Len(RemoveAt(down[p], n)) = Len(down[p]) - 1
      /\ \A i \in 1 .. Len(down[p]) - 1 :
            RemoveAt(down[p], n)[i] = IF i < n THEN down[p][i] ELSE down[p][i + 1]
  BY <1>1, RemoveAtType
<1>3. DOMAIN down'[p] = 1 .. Len(down[p]) - 1
  BY <1>1, <1>2
<1>4. ASSUME NEW i \in DOMAIN down'[p]
      PROVE  \/ i < n /\ i \in DOMAIN down[p] /\ down'[p][i] = down[p][i]
             \/ ~(i < n) /\ i + 1 \in DOMAIN down[p] /\ down'[p][i] = down[p][i + 1]
  BY <1>1, <1>2, <1>3
<1>5. QED
  BY <1>1, <1>3, <1>4 DEF TypeOK

(* A packet is delivered or lost: a text that is heard was under way.      *)
LEMMA TakenFromLink ==
    ASSUME ServiceInv, NEW p \in Peers, NEW n \in DOMAIN down[p],
           down' = [down EXCEPT ![p] = RemoveAt(@, n)],
           fate' = fate,
           \/ heard' = heard
           \/ /\ TextPacket(down[p][n])
              /\ heard' = [heard EXCEPT ![p] = Append(@, down[p][n].body.id)]
    PROVE  LinkExact'
<1>1. /\ TypeOK /\ LinkExact /\ heard \in [Peers -> Seq(Texts)] /\ down \in [Peers -> Seq(DownPackets)]
  BY DEF ServiceInv, TypeOK
<1>2. /\ \A u \in Peers \ {p} : down'[u] = down[u]
      /\ \A i \in DOMAIN down'[p] :
            \/ i < n /\ i \in DOMAIN down[p] /\ down'[p][i] = down[p][i]
            \/ ~(i < n) /\ i + 1 \in DOMAIN down[p] /\ down'[p][i] = down[p][i + 1]
      /\ DOMAIN down'[p] \subseteq Nat /\ n \in Nat
  BY <1>1, Taken
<1>3. \A i \in DOMAIN down'[p] : \E j \in DOMAIN down[p] : j # n /\ down'[p][i] = down[p][j]
  <2> SUFFICES ASSUME NEW i \in DOMAIN down'[p]
               PROVE  \E j \in DOMAIN down[p] : j # n /\ down'[p][i] = down[p][j]
    OBVIOUS
  <2>1. i \in Nat
    BY <1>2
  <2>2. CASE i < n
    BY <1>2, <2>1, <2>2
  <2>3. CASE ~(i < n)
    BY <1>2, <2>1, <2>3
  <2>4. QED
    BY <2>2, <2>3
<1>4. ASSUME NEW i \in DOMAIN down'[p], NEW j \in DOMAIN down'[p],
             TextPacket(down'[p][i]), TextPacket(down'[p][j]), down'[p][i].body.id = down'[p][j].body.id
      PROVE  i = j
  <2>1. i \in Nat /\ j \in Nat
    BY <1>2
  <2>2. \A k, l \in DOMAIN down[p] :
            TextPacket(down[p][k]) /\ TextPacket(down[p][l]) /\ down[p][k].body.id = down[p][l].body.id
                => k = l
    BY <1>1 DEF LinkExact
  <2>3. CASE i < n /\ j < n
    BY <1>2, <1>4, <2>2, <2>3
  <2>4. CASE ~(i < n) /\ ~(j < n)
    BY <1>2, <1>4, <2>1, <2>2, <2>4
  <2>5. CASE i < n /\ ~(j < n)
    <3>1. i = j + 1
      BY <1>2, <1>4, <2>2, <2>5
    <3>2. QED
      BY <1>2, <2>1, <2>5, <3>1
  <2>6. CASE ~(i < n) /\ j < n
    <3>1. i + 1 = j
      BY <1>2, <1>4, <2>2, <2>6
    <3>2. QED
      BY <1>2, <2>1, <2>6, <3>1
  <2>7. QED
    BY <2>3, <2>4, <2>5, <2>6
<1>5. ASSUME NEW u \in Peers, NEW k \in DOMAIN heard'[u]
      PROVE  \/ k \in DOMAIN heard[u] /\ heard'[u][k] = heard[u][k]
             \/ u = p /\ TextPacket(down[p][n]) /\ heard'[u][k] = down[p][n].body.id
  <2>1. CASE heard' = heard
    BY <2>1
  <2>2. CASE TextPacket(down[p][n]) /\ heard' = [heard EXCEPT ![p] = Append(@, down[p][n].body.id)]
    <3>1. down[p][n] \in DownPackets
      BY <1>1, ElementOfSeq
    <3>2. down[p][n].body.id \in Texts
      BY <2>2, <3>1, DownKinds DEF TextPacket
    <3>3. heard[u] \in Seq(Texts) /\ heard'[u] = IF u = p THEN Append(heard[p], down[p][n].body.id) ELSE heard[u]
      BY <1>1, <2>2
    <3>4. QED
      BY <2>2, <3>2, <3>3, AppendProperties
  <2>3. QED
    BY <2>1, <2>2
<1>6. \A u \in Peers : \A i \in DOMAIN down'[u] :
          TextPacket(down'[u][i]) =>
              /\ To[down'[u][i].body.id] = u /\ fate[down'[u][i].body.id] = "sent"
              /\ \A k \in DOMAIN heard'[u] : heard'[u][k] # down'[u][i].body.id
  <2> SUFFICES ASSUME NEW u \in Peers, NEW i \in DOMAIN down'[u], TextPacket(down'[u][i])
               PROVE  /\ To[down'[u][i].body.id] = u /\ fate[down'[u][i].body.id] = "sent"
                      /\ \A k \in DOMAIN heard'[u] : heard'[u][k] # down'[u][i].body.id
    OBVIOUS
  <2>1. CASE u = p
    <3>1. PICK j \in DOMAIN down[p] : j # n /\ down'[p][i] = down[p][j]
      BY <1>3, <2>1
    <3>2. TextPacket(down[p][n]) => down[p][n].body.id # down[p][j].body.id
      BY <1>1, <2>1, <3>1 DEF LinkExact
    <3>3. /\ To[down[p][j].body.id] = p /\ fate[down[p][j].body.id] = "sent"
          /\ \A k \in DOMAIN heard[p] : heard[p][k] # down[p][j].body.id
      BY <1>1, <2>1, <3>1 DEF LinkExact
    <3>4. QED
      BY <1>5, <2>1, <3>1, <3>2, <3>3
  <2>2. CASE u # p
    <3>1. down'[u] = down[u]
      BY <1>2, <2>2
    <3>2. QED
      BY <1>1, <1>5, <2>2, <3>1 DEF LinkExact
  <2>3. QED
    BY <2>1, <2>2
<1>7. TextPacket(down[p][n]) => To[down[p][n].body.id] = p
  BY <1>1 DEF LinkExact
<1>8. \A u \in Peers : \A k \in DOMAIN heard'[u] : To[heard'[u][k]] = u
  <2> SUFFICES ASSUME NEW u \in Peers, NEW k \in DOMAIN heard'[u] PROVE To[heard'[u][k]] = u
    OBVIOUS
  <2>1. CASE k \in DOMAIN heard[u] /\ heard'[u][k] = heard[u][k]
    BY <1>1, <2>1 DEF LinkExact
  <2>2. CASE u = p /\ TextPacket(down[p][n]) /\ heard'[u][k] = down[p][n].body.id
    BY <1>7, <2>2
  <2>3. QED
    BY <1>5, <2>1, <2>2
<1>9. \A u \in Peers : \A i, j \in DOMAIN down'[u] :
          TextPacket(down'[u][i]) /\ TextPacket(down'[u][j]) /\ down'[u][i].body.id = down'[u][j].body.id
              => i = j
  <2>1. ASSUME NEW u \in Peers \ {p}, NEW i \in DOMAIN down[u], NEW j \in DOMAIN down[u],
               TextPacket(down[u][i]), TextPacket(down[u][j]), down[u][i].body.id = down[u][j].body.id
        PROVE  i = j
    BY <1>1, <2>1 DEF LinkExact
  <2>2. QED
    BY <1>2, <1>4, <2>1
<1>10. QED
  BY <1>6, <1>8, <1>9 DEF LinkExact

-----------------------------------------------------------------------------
(* What became of the texts.                                               *)

(* The queues of some phones are emptied and their texts settled.          *)
LEMMA Flushed ==
    ASSUME ServiceInv, NEW P \in SUBSET Peers, heard' = heard,
           pendingSends' = [p \in Peers |-> IF p \in P THEN <<>> ELSE pendingSends[p]],
           \A t \in Texts : IF \E p \in P : t \in TextsIn(pendingSends[p])
                            THEN fate'[t] \in Settled ELSE fate'[t] = fate[t]
    PROVE  /\ SettlesOnly
           /\ QueueExact'
           /\ \A t \in Texts : fate[t] = "sent" => fate'[t] = "sent"
<1>1. QueueExact /\ To \in [Texts -> Peers]
  BY TextsAssumption DEF ServiceInv
<1>2. \A p \in Peers : TextsIn(pendingSends[p]) = {t \in Texts : To[t] = p /\ fate[t] = "queued"}
  BY <1>1 DEF QueueExact
<1>3. SettlesOnly
  BY <1>2 DEF SettlesOnly
<1>4. \A t \in Texts : fate[t] = "sent" => fate'[t] = "sent"
  BY <1>3 DEF SettlesOnly
<1>5. \A t \in Texts : fate'[t] = "queued" <=> fate[t] = "queued" /\ To[t] \notin P
  BY <1>1, <1>2 DEF Settled
<1>6. \A p \in Peers : TextsIn(pendingSends'[p]) = {t \in Texts : To[t] = p /\ fate'[t] = "queued"}
  <2> SUFFICES ASSUME NEW p \in Peers
               PROVE  TextsIn(pendingSends'[p]) = {t \in Texts : To[t] = p /\ fate'[t] = "queued"}
    OBVIOUS
  <2>1. CASE p \in P
    <3>1. TextsIn(pendingSends'[p]) = {}
      BY <2>1 DEF TextsIn
    <3>2. QED
      BY <1>5, <2>1, <3>1
  <2>2. CASE p \notin P
    BY <1>2, <1>5, <2>2
  <2>3. QED
    BY <2>1, <2>2
<1>7. \A p \in Peers : \A i, j \in DOMAIN pendingSends'[p] :
          pendingSends'[p][i].text = pendingSends'[p][j].text => i = j
  BY <1>1 DEF QueueExact
<1>8. ServiceInv => \A p \in Peers : \A k \in DOMAIN heard[p] : heard[p][k] \in Texts /\ fate[heard[p][k]] = "sent"
  BY DEF ServiceInv, TypeOK, QueueExact
<1>9. QED
  BY <1>3, <1>4, <1>6, <1>7, <1>8 DEF QueueExact, TextsIn

(* Nothing becomes of any text.                                            *)
LEMMA Idle ==
    ASSUME ServiceInv, UNCHANGED <<fate, heard, pendingSends>>
    PROVE  SettlesOnly /\ QueueExact' /\ \A t \in Texts : fate[t] = "sent" => fate'[t] = "sent"
  BY DEF ServiceInv, SettlesOnly, QueueExact, TextsIn

(* Steps that concern no text.                                             *)
LEMMA IdleQuiet ==
    ASSUME ServiceInv, UNCHANGED <<fate, heard, pendingSends>>, NoTextSent
    PROVE  SettlesOnly /\ QueueExact' /\ LinkExact'
  BY Idle, QuietLink

(* What becomes of a text when a queue is drained.                         *)
LEMMA DrainFates ==
    ASSUME NEW p \in Peers, NEW t \in Texts
    PROVE  /\ t \notin TextsIn(pendingSends[p]) => DrainFate(p)[t] = fate[t]
           /\ t \in TextsIn(pendingSends[p]) => DrainFate(p)[t] \in Settled
           /\ t \in TextsIn(pendingSends[p]) /\ t \in TextsIn(Drained(p)) => DrainFate(p)[t] = "sent"
  BY DEF DrainFate, Settled

(* No handler of a packet but the one that establishes a session sends a   *)
(* text, and but for LEAVE none touches the queues.                        *)
LEMMA HandlersQuiet ==
    ASSUME TypeOK, NEW p \in Peers, NEW x \in UpPackets, Handled(p, x),
           ~(x.type = "handshake" /\ Establish(p, x.m))
    PROVE  NoTextSent /\ (UNCHANGED <<fate, pendingSends>> \/ (x.type = "leave" /\ HandleLeave(p)))
<1> USE DEF handshake, registry, queues, link, rest
<1>1. ManagerTyped
  BY TypeParts
<1>2. UNCHANGED down => NoTextSent
  BY DEF NoTextSent
<1>3. Echo(p) => NoTextSent
  BY <1>2, ToAllQuietly, PlainSeqs DEF Echo
<1>4. Reset(p) => NoTextSent
  BY ToAllQuietly, PlainSeqs DEF Reset
<1>5. CASE x.type = "announce" /\ HandleAnnounce(p, x.pub)
  BY <1>3, <1>5 DEF HandleAnnounce
<1>6. CASE x.type = "sync" /\ HandleRequestSync(p)
  BY <1>3, <1>6 DEF HandleRequestSync
<1>7. CASE x.type = "chat" /\ HandlePublic(p)
  BY <1>2, <1>7 DEF HandlePublic
<1>8. CASE x.type = "leave" /\ HandleLeave(p)
  BY <1>2, <1>8 DEF HandleLeave, DropPeers
<1>9. CASE x.type = "noise" /\ HandleNoiseEncrypted(p, x.keys, x.body)
  <2>1. CASE NoSession(p)
    BY <1>4, <2>1 DEF NoSession
  <2>2. CASE Undecryptable(p, x.keys)
    BY <1>2, <1>4, <2>2 DEF Undecryptable
  <2>3. CASE Decrypted(p, x.keys, x.body)
    <3> DEFINE s == sessions[p]
               n == Cardinality(Acknowledgement(x.body))
               pkt(i) == Noise(Keys(Encrypted(s, i)), [type |-> "receipt", id |-> x.body.id])
    <3>1. s \in SessionType
      BY <1>1, <2>3 DEF Decrypted, Decrypts, Established, ManagerTyped
    <3>2. n \in Nat
      BY FS_EmptySet, PartOfInterval DEF Acknowledgement
    <3>3. x.body.id \in Letters
      BY <1>9, UpKinds
    <3>4. \A i \in 1 .. n : pkt(i) \in DownPackets
      BY <3>1, <3>3, EncryptedType, PacketTypes
    <3>5. \A i \in 1 .. n : ~TextPacket(pkt(i))
      BY DEF TextPacket, Noise
    <3>6. down' = Sent(p, [i \in 1 .. n |-> pkt(i)])
      BY <2>3 DEF Decrypted
    <3> HIDE DEF pkt, n
    <3> DEFINE q == [i \in 1 .. n |-> pkt(i)]
    <3>7. q \in Seq(DownPackets)
      BY <3>2, <3>4, IsASeq
    <3>8. \A i \in DOMAIN q : ~TextPacket(q[i])
      BY <3>5
    <3>9. down' = Sent(p, q)
      BY <3>6
    <3> HIDE DEF q
    <3>10. NoTextSent
      BY <3>7, <3>8, <3>9, SentQuietly
    <3>11. QED
      BY <2>3, <3>10 DEF Decrypted
  <2>4. QED
    BY <1>9, <2>1, <2>2, <2>3 DEF HandleNoiseEncrypted
<1>10. CASE x.type = "handshake" /\ HandleNoiseHandshake(p, x.m) /\ ~Establish(p, x.m)
  <2> DEFINE m == x.m
             s == Read(Reader(p, m), m)
  <2>1. m \in Messages
    BY <1>10, UpKinds
  <2>2. s \in SessionType
    BY <1>1, <2>1, SessionTypes DEF Reader, ManagerTyped
  <2>3. ASSUME NEW a \in Messages, down' = Sent(p, <<Handshake(a)>>) PROVE NoTextSent
    <3>1. <<Handshake(a)>> \in Seq(DownPackets)
      BY PacketTypes, SingletonType
    <3>2. \A i \in DOMAIN <<Handshake(a)>> : ~TextPacket(<<Handshake(a)>>[i])
      BY DEF TextPacket, Handshake
    <3>3. QED
      BY <2>3, <3>1, <3>2, SentQuietly
  <2>4. CASE IgnoreHandshake(p, m)
    BY <1>2, <2>4 DEF IgnoreHandshake
  <2>5. CASE ResendMsg2(p, m)
    <3>1. pendingMsg2[p] \in Messages
      BY <1>1, <2>5 DEF ResendMsg2, Retried, ManagerTyped
    <3>2. QED
      BY <2>3, <2>5, <3>1 DEF ResendMsg2
  <2>6. CASE FailHandshake(p, m)
    BY <1>2, <2>6 DEF FailHandshake
  <2>7. CASE AnswerMsg1(p, m)
    <3> DEFINE w == Write(s, NextKey)
    <3>1. NextKey \in Nat
      BY <1>1 DEF NextKey, ManagerTyped
    <3> HIDE DEF s
    <3>2. w \in SessionType
      BY <2>2, <3>1, SessionTypes
    <3> HIDE DEF w
    <3>3. Msg2(w.ei, w.er) \in Messages
      BY <3>2, SessionTypes DEF SessionType, KeyOrNone
    <3>4. down' = Sent(p, <<Handshake(Msg2(w.ei, w.er))>>)
      BY <2>7 DEF AnswerMsg1, w, s
    <3>5. QED
      BY <2>3, <2>7, <3>3, <3>4 DEF AnswerMsg1
  <2>8. QED
    BY <1>10, <2>4, <2>5, <2>6, <2>7 DEF HandleNoiseHandshake
<1>11. QED
  BY <1>5, <1>6, <1>7, <1>8, <1>9, <1>10 DEF Handled

(* What establishing a session sends: a stretch of the queue.              *)
LEMMA EstablishSends ==
    ASSUME TypeOK, NEW p \in Peers, NEW m \in Messages, Establish(p, m)
    PROVE  \E z \in Seq(DownPackets), k \in Nat :
              /\ down' = Sent(p, z)
              /\ k + Len(z) <= Len(pendingSends[p])
              /\ DOMAIN z = DOMAIN Drained(p)
              /\ \A i \in DOMAIN z : /\ TextPacket(z[i]) /\ z[i].body.id = Drained(p)[i].text
                                     /\ Drained(p)[i] = pendingSends[p][k + i]
<1> DEFINE s == Read(Reader(p, m), m)
           d == Drained(p)
           z == DrainPackets(p, s)
<1>1. ManagerTyped
  BY TypeParts
<1>2. s \in SessionType
  BY <1>1, SessionTypes DEF Reader, ManagerTyped
<1>3. down' = Sent(p, z)
  BY DEF Establish
<1> HIDE DEF s
<1>4. z \in Seq(DownPackets) /\ DOMAIN z = DOMAIN d
  BY <1>1, <1>2, DrainPacketsType
<1>5. \A i \in DOMAIN z : z[i].type = "noise" /\ z[i].body.type = "text" /\ z[i].body.id = d[i].text
  BY <1>4 DEF DrainPackets, Noise
<1>6. d \in Seq(Queued)
  BY <1>1, DrainedType DEF ManagerTyped
<1>7. PICK k \in Nat : /\ k + Len(d) <= Len(pendingSends[p])
                       /\ \A i \in DOMAIN d : d[i] = pendingSends[p][k + i]
  BY <1>1, DrainedType DEF ManagerTyped
<1> HIDE DEF z
<1>8. Len(z) = Len(d)
  BY <1>4, <1>6
<1>9. QED
  BY <1>3, <1>4, <1>5, <1>7, <1>8 DEF TextPacket

(* Every handler of a packet settles queued texts at most.                 *)
LEMMA HandlersServe ==
    ASSUME ServiceInv, NEW p \in Peers, NEW x \in UpPackets, heard' = heard,
           Handled(p, x)
    PROVE  SettlesOnly /\ QueueExact' /\ LinkExact'
<1>1. TypeOK /\ ManagerTyped /\ QueueExact /\ LinkExact
  BY TypeParts DEF ServiceInv
<1>2. CASE x.type = "leave" /\ HandleLeave(p)
  <2>1. /\ pendingSends' = [q \in Peers |-> IF q \in {p} THEN <<>> ELSE pendingSends[q]]
        /\ fate' = FateOf(UNION {TextsIn(pendingSends[q]) : q \in {p}}, "left")
    BY <1>2 DEF HandleLeave, DropPeers
  <2>2. \A t \in Texts : IF \E q \in {p} : t \in TextsIn(pendingSends[q])
                         THEN fate'[t] \in Settled ELSE fate'[t] = fate[t]
    BY <2>1 DEF FateOf, Settled
  <2>3. SettlesOnly /\ QueueExact' /\ \A t \in Texts : fate[t] = "sent" => fate'[t] = "sent"
    BY <2>1, <2>2, Flushed
  <2>4. NoTextSent
    BY <1>1, <1>2, HandlersQuiet
  <2>5. QED
    BY <2>3, <2>4, QuietLink
<1>3. CASE x.type = "handshake" /\ Establish(p, x.m)
  <2> DEFINE d == Drained(p)
  <2>1. PICK z \in Seq(DownPackets), k \in Nat :
            /\ down' = Sent(p, z)
            /\ k + Len(z) <= Len(pendingSends[p])
            /\ DOMAIN z = DOMAIN d
            /\ \A i \in DOMAIN z : /\ TextPacket(z[i]) /\ z[i].body.id = d[i].text
                                   /\ d[i] = pendingSends[p][k + i]
    BY <1>1, <1>3, EstablishSends, UpKinds
  <2>2. pendingSends' = [pendingSends EXCEPT ![p] = <<>>] /\ fate' = DrainFate(p)
    BY <1>3 DEF Establish, Emptied
  <2>3. TextsIn(d) \subseteq TextsIn(pendingSends[p])
    BY <1>1, DrainedType DEF ManagerTyped
  <2> HIDE DEF d
  <2>4. pendingSends' = [q \in Peers |-> IF q \in {p} THEN <<>> ELSE pendingSends[q]]
    BY <1>1, <2>2 DEF ManagerTyped
  <2>5. \A t \in Texts : IF \E q \in {p} : t \in TextsIn(pendingSends[q])
                         THEN fate'[t] \in Settled ELSE fate'[t] = fate[t]
    BY <2>2, DrainFates
  <2>6. SettlesOnly /\ QueueExact' /\ \A t \in Texts : fate[t] = "sent" => fate'[t] = "sent"
    BY <2>4, <2>5, Flushed
  <2>7. \A t \in TextsIn(d) : /\ t \in Texts /\ To[t] = p /\ fate[t] = "queued" /\ fate'[t] = "sent"
    <3>1. \A t \in TextsIn(d) : t \in Texts /\ To[t] = p /\ fate[t] = "queued"
      BY <1>1, <2>3 DEF QueueExact
    <3>2. QED
      BY <2>2, <2>3, <3>1, DrainFates DEF d
  <2>8. \A i \in DOMAIN z : d[i].text \in TextsIn(d)
    BY <2>1 DEF TextsIn
  <2>9. ASSUME NEW i \in DOMAIN z, NEW j \in DOMAIN z, d[i].text = d[j].text
        PROVE  i = j
    <3>1. i \in 1 .. Len(z) /\ j \in 1 .. Len(z) /\ Len(z) \in Nat
      BY <2>1
    <3>2. DOMAIN pendingSends[p] = 1 .. Len(pendingSends[p]) /\ Len(pendingSends[p]) \in Nat
      BY <1>1 DEF ManagerTyped
    <3>3. k + i \in DOMAIN pendingSends[p] /\ k + j \in DOMAIN pendingSends[p]
      BY <2>1, <3>1, <3>2
    <3>4. pendingSends[p][k + i].text = pendingSends[p][k + j].text
      BY <2>1, <2>9
    <3>5. k + i = k + j
      BY <1>1, <3>3, <3>4 DEF QueueExact
    <3>6. QED
      BY <2>1, <3>1, <3>5
  <2>10. LinkExact'
    BY <2>1, <2>6, <2>7, <2>8, <2>9, SentTexts
  <2>11. QED
    BY <2>6, <2>10
<1>4. CASE ~(x.type = "leave" /\ HandleLeave(p)) /\ ~(x.type = "handshake" /\ Establish(p, x.m))
  BY <1>1, <1>4, HandlersQuiet, IdleQuiet
<1>5. QED
  BY <1>2, <1>3, <1>4

(* A text that is sent at once, or refused.                                *)
LEMMA SentAtOnce ==
    ASSUME ServiceInv, NEW t \in Texts, SendNow(t) \/ SendFile(t), heard' = heard
    PROVE  /\ fate[t] = "new" /\ \E f \in {"sent", "refused"} : fate' = [fate EXCEPT ![t] = f]
           /\ QueueExact' /\ LinkExact'
<1> USE DEF handshake, registry, queues, link, rest
<1> DEFINE p == To[t]
           s == Encrypted(sessions[p], 1)
           y == IF t \in Files THEN "file" ELSE "text"
           x == Noise(Keys(s), [type |-> y, id |-> t])
<1>1. /\ TypeOK /\ ManagerTyped /\ QueueExact /\ p \in Peers
      /\ fate \in [Texts -> Fates] /\ heard \in [Peers -> Seq(Texts)]
  BY TypeParts, TextsAssumption DEF ServiceInv, ManagerTyped, TypeOK
<1>2. /\ fate[t] = "new" /\ UNCHANGED pendingSends
      /\ \/ fate' = [fate EXCEPT ![t] = "refused"] /\ UNCHANGED down
         \/ /\ fate' = [fate EXCEPT ![t] = "sent"] /\ Established(sessions[p])
            /\ down' = Sent(p, <<x>>)
  BY DEF SendNow, SendFile
<1>3. QueueExact'
  <2>1. \A u \in Texts : fate'[u] = "queued" <=> fate[u] = "queued"
    BY <1>1, <1>2
  <2>2. \A u \in Texts : fate[u] = "sent" => fate'[u] = "sent"
    BY <1>1, <1>2
  <2>3. \A q \in Peers : \A k \in DOMAIN heard[q] : heard[q][k] \in Texts /\ fate[heard[q][k]] = "sent"
    BY <1>1 DEF QueueExact
  <2>4. QED
    BY <1>1, <1>2, <2>1, <2>2, <2>3 DEF QueueExact, TextsIn
<1>4. \A u \in Texts : fate[u] = "sent" => fate'[u] = "sent"
  BY <1>1, <1>2
<1>5. CASE UNCHANGED down
  <2>1. NoTextSent
    BY <1>5 DEF NoTextSent
  <2>2. QED
    BY <1>2, <1>3, <1>4, <2>1, QuietLink
<1>6. CASE /\ fate' = [fate EXCEPT ![t] = "sent"] /\ Established(sessions[p])
           /\ down' = Sent(p, <<x>>)
  <2>1. sessions[p] \in SessionType
    BY <1>1, <1>6 DEF Established, ManagerTyped
  <2>2. Keys(s) \in PacketKeys
    BY <2>1, EncryptedType
  <2> HIDE DEF s, p
  <2>3. x \in DownPackets
    BY <2>2, PacketTypes
  <2>4. x.body.id = t
    BY DEF Noise
  <2>5. fate'[t] = "sent"
    BY <1>1, <1>6
  <2> HIDE DEF x
  <2>6. <<x>> \in Seq(DownPackets) /\ \A i \in DOMAIN <<x>> : i = 1 /\ <<x>>[i] = x
    BY <2>3
  <2> DEFINE z == <<x>>
  <2>7. /\ z \in Seq(DownPackets) /\ down' = Sent(p, z)
        /\ \A i \in DOMAIN z : i = 1 /\ z[i] = x
    BY <1>6, <2>6
  <2> HIDE DEF z
  <2>8. To[t] = p /\ p \in Peers /\ fate[t] # "sent"
    BY <1>1, <1>2 DEF p
  <2>9. \A i \in DOMAIN z : TextPacket(z[i]) => /\ To[z[i].body.id] = p
                                               /\ fate[z[i].body.id] # "sent"
                                               /\ fate'[z[i].body.id] = "sent"
    BY <2>4, <2>5, <2>7, <2>8
  <2>10. \A i, j \in DOMAIN z : TextPacket(z[i]) /\ TextPacket(z[j]) /\ z[i].body.id = z[j].body.id
                                  => i = j
    BY <2>7
  <2>11. LinkExact'
    BY <1>4, <2>7, <2>8, <2>9, <2>10, SentTexts
  <2>12. QED
    BY <1>2, <1>3, <2>11, <1>6
<1>7. QED
  BY <1>2, <1>5, <1>6

(* A text that is queued.                                                  *)
LEMMA QueuedFirst ==
    ASSUME ServiceInv, NEW t \in Texts, Queue(t), heard' = heard
    PROVE  /\ fate[t] = "new" /\ fate' = [fate EXCEPT ![t] = "queued"]
           /\ QueueExact' /\ LinkExact'
<1> DEFINE p == To[t]
           x == [text |-> t, stale |-> FALSE]
<1>1. /\ TypeOK /\ QueueExact /\ p \in Peers /\ fate \in [Texts -> Fates] /\ heard \in [Peers -> Seq(Texts)]
      /\ pendingSends \in [Peers -> Seq(Queued)]
  BY TextsAssumption DEF ServiceInv, TypeOK, Fates, Queued
<1>2. /\ fate[t] = "new" /\ fate' = [fate EXCEPT ![t] = "queued"] /\ down' = ToAll(<<ANNOUNCE>>)
      /\ pendingSends' = [pendingSends EXCEPT ![p] = Append(@, x)]
  BY DEF Queue
<1>3. \A u \in Texts : fate[u] = "sent" => fate'[u] = "sent"
  BY <1>1, <1>2
<1>4. NoTextSent
  BY <1>1, <1>2, ToAllQuietly, PlainSeqs
<1>5. LinkExact'
  BY <1>3, <1>4, QuietLink
<1> DEFINE q == pendingSends[p]
           r == Append(q, x)
<1>6. x \in Queued /\ q \in Seq(Queued)
  BY <1>1 DEF Queued
<1>7. x.text = t
  OBVIOUS
<1>8. pendingSends'[p] = r /\ \A u \in Peers \ {p} : pendingSends'[u] = pendingSends[u]
  BY <1>1, <1>2
<1>9. t \notin TextsIn(q)
  BY <1>1, <1>2 DEF QueueExact
<1> HIDE DEF x, q
<1>10. /\ Len(q) \in Nat /\ DOMAIN q = 1 .. Len(q) /\ DOMAIN r = 1 .. Len(q) + 1
       /\ \A i \in 1 .. Len(q) : r[i] = q[i]
       /\ r[Len(q) + 1] = x
  BY <1>6, AppendProperties
<1> HIDE DEF r
<1>11. TextsIn(r) = TextsIn(q) \cup {t}
  <2>1. \A i \in DOMAIN r : (i \in DOMAIN q /\ r[i] = q[i]) \/ r[i] = x
    BY <1>10
  <2>2. \A i \in DOMAIN q : i \in DOMAIN r /\ r[i] = q[i]
    BY <1>10
  <2>3. Len(q) + 1 \in DOMAIN r
    BY <1>10
  <2>4. TextsIn(r) \subseteq TextsIn(q) \cup {t}
    BY <1>7, <2>1 DEF TextsIn
  <2>5. TextsIn(q) \subseteq TextsIn(r)
    BY <2>2 DEF TextsIn
  <2>6. t \in TextsIn(r)
    BY <1>7, <1>10, <2>3 DEF TextsIn
  <2>7. QED
    BY <2>4, <2>5, <2>6
<1>12. \A u \in Peers : TextsIn(pendingSends'[u]) = {v \in Texts : To[v] = u /\ fate'[v] = "queued"}
  <2>1. \A u \in Peers : TextsIn(pendingSends[u]) = {v \in Texts : To[v] = u /\ fate[v] = "queued"}
    BY <1>1 DEF QueueExact
  <2>2. \A v \in Texts : fate'[v] = "queued" <=> v = t \/ fate[v] = "queued"
    BY <1>1, <1>2
  <2>3. TextsIn(pendingSends'[p]) = TextsIn(pendingSends[p]) \cup {t}
    BY <1>8, <1>11 DEF q
  <2>4. QED
    BY <1>1, <1>8, <2>1, <2>2, <2>3
<1>13. \A u \in Peers : \A i, j \in DOMAIN pendingSends'[u] :
          pendingSends'[u][i].text = pendingSends'[u][j].text => i = j
  <2>1. ASSUME NEW i \in DOMAIN r, NEW j \in DOMAIN r, r[i].text = r[j].text PROVE i = j
    <3>1. \A k \in DOMAIN q : q[k].text # t
      BY <1>9 DEF TextsIn
    <3>2. \A k, l \in DOMAIN q : q[k].text = q[l].text => k = l
      BY <1>1 DEF QueueExact, q
    <3>3. \A k \in DOMAIN r : (k \in DOMAIN q /\ r[k] = q[k]) \/ (k = Len(q) + 1 /\ r[k] = x)
      BY <1>10
    <3>4. QED
      BY <1>7, <2>1, <3>1, <3>2, <3>3
  <2>2. QED
    BY <1>1, <1>8, <2>1 DEF QueueExact
<1>14. \A u \in Peers : \A i \in DOMAIN heard'[u] : fate'[heard'[u][i]] = "sent"
  BY <1>1, <1>3 DEF QueueExact
<1>15. QED
  BY <1>2, <1>5, <1>12, <1>13, <1>14 DEF QueueExact

(* Timers settle queued texts at most.                                     *)
LEMMA ClockServes ==
    ASSUME ServiceInv, Clock
    PROVE  SettlesOnly /\ QueueExact' /\ LinkExact'
<1> USE DEF handshake, registry, queues, link, rest, phoneVars
<1>1. /\ TypeOK /\ ManagerTyped /\ QueueExact /\ heard' = heard
      /\ pendingSends \in [Peers -> Seq(Queued)] /\ heard \in [Peers -> Seq(Texts)]
  BY TypeParts DEF ServiceInv, Clock, ManagerTyped, TypeOK
<1>2. UNCHANGED down
  BY DEF Clock, PeerTimeout, DropPeers, Silence, CooldownEnds, QueueAges, SessionAges,
         CancelPendingSends, Unsubscribe
<1>3. NoTextSent
  BY <1>2 DEF NoTextSent
<1>4. CASE PeerTimeout
  <2>1. TimedOut \in SUBSET Peers
    BY <1>1 DEF TimedOut, ManagerTyped
  <2>2. /\ pendingSends' = [q \in Peers |-> IF q \in TimedOut THEN <<>> ELSE pendingSends[q]]
        /\ fate' = FateOf(UNION {TextsIn(pendingSends[q]) : q \in TimedOut}, "timedOut")
    BY <1>4 DEF PeerTimeout, DropPeers
  <2>3. \A t \in Texts : IF \E q \in TimedOut : t \in TextsIn(pendingSends[q])
                         THEN fate'[t] \in Settled ELSE fate'[t] = fate[t]
    BY <2>2 DEF FateOf, Settled
  <2>4. QED
    BY <1>1, <1>3, <2>1, <2>2, <2>3, Flushed, QuietLink
<1>5. ASSUME NEW p \in Peers, CancelPendingSends(p)
      PROVE  SettlesOnly /\ QueueExact' /\ LinkExact'
  <2>1. /\ pendingSends' = [q \in Peers |-> IF q \in {p} THEN <<>> ELSE pendingSends[q]]
        /\ fate' = FateOf(TextsIn(pendingSends[p]), "cancelled")
    BY <1>1, <1>5 DEF CancelPendingSends
  <2>2. \A t \in Texts : IF \E q \in {p} : t \in TextsIn(pendingSends[q])
                         THEN fate'[t] \in Settled ELSE fate'[t] = fate[t]
    BY <2>1 DEF FateOf, Settled
  <2>3. QED
    BY <1>1, <1>3, <2>1, <2>2, Flushed, QuietLink
<1>6. ASSUME NEW p \in Peers, Silence(p) \/ CooldownEnds(p) \/ SessionAges(p)
      PROVE  SettlesOnly /\ QueueExact' /\ LinkExact'
  BY <1>1, <1>3, <1>6, IdleQuiet DEF Silence, CooldownEnds, SessionAges
<1>7. CASE Unsubscribe
  BY <1>1, <1>3, <1>7, IdleQuiet DEF Unsubscribe
<1>8. ASSUME NEW p \in Peers, QueueAges(p)
      PROVE  SettlesOnly /\ QueueExact' /\ LinkExact'
  <2>1. fate' = fate
    BY <1>8 DEF QueueAges
  <2>2. SettlesOnly /\ LinkExact'
    BY <1>1, <1>3, <2>1, QuietLink DEF SettlesOnly
  <2>3. PICK n \in DOMAIN pendingSends[p] : pendingSends' = [pendingSends EXCEPT ![p][n].stale = TRUE]
    BY <1>8 DEF QueueAges
  <2>4. pendingSends' = [pendingSends EXCEPT ![p] = [pendingSends[p] EXCEPT ![n] = [pendingSends[p][n] EXCEPT !.stale = TRUE]]]
    BY <2>3
  <2>5. \A q \in Peers : \A i \in DOMAIN pendingSends[q] : pendingSends[q][i] \in Queued
    BY <1>1, ElementOfSeq
  <2>6. \A q \in Peers : /\ DOMAIN pendingSends'[q] = DOMAIN pendingSends[q]
                         /\ \A i \in DOMAIN pendingSends[q] :
                               pendingSends'[q][i].text = pendingSends[q][i].text
    BY <1>1, <2>4, <2>5 DEF Queued
  <2>7. \A q \in Peers : TextsIn(pendingSends'[q]) = TextsIn(pendingSends[q])
    BY <2>6 DEF TextsIn
  <2>8. QueueExact'
    BY <1>1, <2>1, <2>6, <2>7 DEF QueueExact
  <2>9. QED
    BY <2>2, <2>8
<1>9. QED
  BY <1>4, <1>5, <1>6, <1>7, <1>8 DEF Clock

(* The other commands put no text anywhere.                                *)
LEMMA PlainCommands ==
    ASSUME TypeOK, SetNick \/ PeriodicAnnounce \/ Broadcast \/ Subscribe
    PROVE  NoTextSent /\ UNCHANGED <<fate, pendingSends>>
<1> USE DEF handshake, registry, queues, link, rest
<1>1. \/ \E s \in Seq(Plain) : down' = ToAll(s)
      \/ \E s \in Seq(Plain) : down' = [q \in Peers |-> Join(down[q], s)]
  BY PlainSeqs, WelcomeType DEF SetNick, PeriodicAnnounce, Broadcast, Subscribe
<1>2. NoTextSent
  BY <1>1, ToAllQuietly
<1>3. QED
  BY <1>2 DEF SetNick, PeriodicAnnounce, Broadcast, Subscribe

(* A command accepts one text at most.                                     *)
LEMMA CommandsServe ==
    ASSUME ServiceInv, Commands
    PROVE  /\ QueueExact' /\ LinkExact' /\ heard' = heard
           /\ \/ SettlesOnly
              \/ \E t \in Texts, f \in {"queued", "sent", "refused"} :
                    fate[t] = "new" /\ fate' = [fate EXCEPT ![t] = f]
<1> USE DEF handshake, registry, queues, link, rest, phoneVars
<1>1. TypeOK /\ heard' = heard
  BY DEF ServiceInv, Commands
<1>2. ASSUME NEW t \in Texts, Queue(t) \/ SendNow(t) \/ SendFile(t)
      PROVE  /\ QueueExact' /\ LinkExact'
             /\ \E f \in {"queued", "sent", "refused"} :
                    fate[t] = "new" /\ fate' = [fate EXCEPT ![t] = f]
  BY <1>1, <1>2, SentAtOnce, QueuedFirst
<1>3. ASSUME SetNick \/ PeriodicAnnounce \/ Broadcast \/ Subscribe
      PROVE  SettlesOnly /\ QueueExact' /\ LinkExact'
  BY <1>1, <1>3, PlainCommands, IdleQuiet
<1>4. QED
  BY <1>1, <1>2, <1>3 DEF Commands

(* What a phone sends changes nothing of the texts.                        *)
LEMMA PhonesServe ==
    ASSUME ServiceInv, Phones
    PROVE  SettlesOnly /\ QueueExact' /\ LinkExact'
<1> USE DEF smVars, handshake, registry, queues, link, rest, phoneVars
<1>1. UNCHANGED <<fate, heard, pendingSends, down>>
  BY DEF Phones, PhoneAnnounce, PhoneStart, PhoneRetry, PhoneAsks, PhoneChats, PhoneLeaves,
         PhoneReinstalls, PhoneWrites
<1>2. NoTextSent
  BY <1>1 DEF NoTextSent
<1>3. QED
  BY <1>1, <1>2, IdleQuiet

(* A phone that reads a text.                                              *)
HearsText(p, t) ==
    /\ To[t] = p /\ fate[t] = "sent"
    /\ \A k \in DOMAIN heard[p] : heard[p][k] # t
    /\ heard' = [heard EXCEPT ![p] = Append(@, t)]
    /\ fate' = fate

(* A delivery to a phone is one text heard at most.                        *)
LEMMA LinkServes ==
    ASSUME ServiceInv, Link
    PROVE  /\ QueueExact' /\ LinkExact'
           /\ SettlesOnly \/ \E p \in Peers, t \in Texts : HearsText(p, t)
<1> USE DEF smVars, handshake, registry, queues, link, rest, phoneVars
<1>1. /\ TypeOK /\ QueueExact /\ LinkExact
      /\ down \in [Peers -> Seq(DownPackets)] /\ up \in [Peers -> Seq(UpPackets)]
      /\ heard \in [Peers -> Seq(Texts)]
  BY DEF ServiceInv, TypeOK
<1>2. PICK p \in Peers : DeliverUp(p) \/ DeliverDown(p) \/ LoseUp(p) \/ LoseDown(p)
  BY DEF Link
<1>3. CASE DeliverUp(p)
  <2>1. PICK i \in DOMAIN up[p] :
        up[p][i] \in UpPackets /\ Handled(p, up[p][i]) /\ UNCHANGED <<phoneVars, ordered>>
    BY <1>1, <1>3, Delivered
  <2>2. QED
    BY <2>1, HandlersServe
<1>4. CASE LoseUp(p)
  <2>1. UNCHANGED <<fate, heard, pendingSends, down>>
    BY <1>4 DEF LoseUp
  <2>2. QED
    BY <2>1, IdleQuiet DEF NoTextSent
<1>5. CASE LoseDown(p)
  <2>1. PICK n \in DOMAIN down[p] : down' = [down EXCEPT ![p] = RemoveAt(@, n)]
    BY <1>5 DEF LoseDown
  <2>2. UNCHANGED <<fate, heard, pendingSends>>
    BY <1>5 DEF LoseDown
  <2>3. QED
    BY <2>1, <2>2, Idle, TakenFromLink
<1>6. CASE DeliverDown(p)
  <2>1. PICK n \in Next1(down[p]) :
        /\ down' = [down EXCEPT ![p] = RemoveAt(@, n)]
        /\ PhoneHears(p, down[p][n])
    BY <1>6 DEF DeliverDown
  <2>2. UNCHANGED <<fate, pendingSends>>
    BY <1>6 DEF DeliverDown
  <2>3. n \in DOMAIN down[p]
    BY DEF Next1
  <2> DEFINE x == down[p][n]
             t == x.body.id
  <2>4. \/ heard' = heard
        \/ /\ TextPacket(x)
           /\ heard' = [heard EXCEPT ![p] = Append(@, t)]
    <3> HIDE DEF x
    <3>1. PhoneHears(p, x)
      BY <2>1 DEF x
    <3>2. \/ heard' = heard
          \/ /\ x.type = "noise"
             /\ heard' = [heard EXCEPT ![p] =
                   IF /\ phone[p].st = "up" /\ x.body.type # "receipt"
                      /\ x.keys = [ei |-> phone[p].ei, er |-> phone[p].er, epoch |-> 0]
                   THEN Append(@, x.body.id) ELSE @]
      BY <3>1 DEF PhoneHears
    <3>3. CASE heard' = heard
      BY <3>3
    <3>4. CASE x.type = "noise" /\ x.body.type # "receipt" /\ heard' # heard
      BY <1>1, <3>2, <3>4 DEF TextPacket
    <3>5. CASE ~(x.type = "noise" /\ x.body.type # "receipt")
      BY <1>1, <3>2, <3>5
    <3>6. QED
      BY <3>3, <3>4, <3>5
  <2>5. LinkExact'
    BY <2>1, <2>2, <2>3, <2>4, TakenFromLink
  <2>6. CASE heard' = heard
    BY <2>2, <2>5, <2>6, Idle
  <2>7. CASE TextPacket(x) /\ heard' = [heard EXCEPT ![p] = Append(@, t)]
    <3>1. x \in DownPackets
      BY <1>1, <2>3, ElementOfSeq
    <3>2. t \in Texts
      BY <2>7, <3>1, DownKinds DEF TextPacket
    <3>3. To[t] = p /\ fate[t] = "sent" /\ \A k \in DOMAIN heard[p] : heard[p][k] # t
      BY <1>1, <2>3, <2>7 DEF LinkExact
    <3> HIDE DEF t, x
    <3>4. HearsText(p, t)
      BY <2>2, <2>7, <3>3 DEF HearsText
    <3>5. \A q \in Peers : \A k \in DOMAIN heard'[q] : fate'[heard'[q][k]] = "sent"
      <4>1. heard'[p] = Append(heard[p], t) /\ \A q \in Peers \ {p} : heard'[q] = heard[q]
        BY <1>1, <2>7
      <4>2. \A k \in DOMAIN heard'[p] : heard'[p][k] = t \/ (k \in DOMAIN heard[p] /\ heard'[p][k] = heard[p][k])
        BY <1>1, <3>2, <4>1, AppendProperties
      <4>3. \A q \in Peers : \A k \in DOMAIN heard[q] : fate[heard[q][k]] = "sent"
        BY <1>1 DEF QueueExact
      <4>4. QED
        BY <2>2, <3>3, <4>1, <4>2, <4>3
    <3>6. QueueExact'
      BY <1>1, <2>2, <3>5 DEF QueueExact, TextsIn
    <3>7. QED
      BY <2>5, <3>2, <3>4, <3>6
  <2>8. QED
    BY <2>4, <2>6, <2>7
<1>7. QED
  BY <1>2, <1>3, <1>4, <1>5, <1>6

-----------------------------------------------------------------------------
(* The invariant and the refinement.                                       *)

(* At first every text is new and nothing was heard.                       *)
LEMMA ServiceInit == Init => ServiceInv /\ Service!Init
<1> SUFFICES ASSUME Init PROVE ServiceInv /\ Service!Init
  OBVIOUS
<1>1. QueueExact /\ LinkExact
  BY TextsAssumption DEF Init, SMInit, QueueExact, LinkExact, TextsIn
<1>2. Service!Init
  BY DEF Init, SMInit, Service!Init, Status
<1>3. QED
  BY <1>1, <1>2, TypeInit DEF ServiceInv

(* Each of the three kinds of steps is a step of MessageService.           *)
LEMMA Mapped ==
    ASSUME ServiceInv, TypeOK'
    PROVE  /\ SettlesOnly => Service!Next
           /\ \A t \in Texts, f \in {"queued", "sent", "refused"} :
                 fate[t] = "new" /\ fate' = [fate EXCEPT ![t] = f] /\ heard' = heard => Service!Next
           /\ \A p \in Peers, t \in Texts : HearsText(p, t) => Service!Next
<1> DEFINE Gone == {"expired", "left", "timedOut", "cancelled", "crashed"}
<1>1. fate \in [Texts -> Fates] /\ fate' \in [Texts -> Fates]
  BY DEF ServiceInv, TypeOK, Fates
<1>2. ASSUME SettlesOnly PROVE Service!Settle
  <2> DEFINE f == [t \in Texts |-> IF fate'[t] = "sent" THEN "sent" ELSE "dropped"]
             S == {t \in Texts : fate'[t] # fate[t]}
  <2>1. f \in [Texts -> {"sent", "dropped"}]
    OBVIOUS
  <2>2. S \in SUBSET {t \in Texts : Status[t] = "queued"}
    BY <1>2 DEF SettlesOnly, Status
  <2>3. \A t \in Texts : Status'[t] = IF t \in S THEN f[t] ELSE Status[t]
    BY <1>2 DEF SettlesOnly, Status, Settled
  <2>4. Status' = [t \in Texts |-> IF t \in S THEN f[t] ELSE Status[t]]
    BY <2>3 DEF Status
  <2> HIDE DEF f, S
  <2>5. QED
    BY <1>2, <2>1, <2>2, <2>4 DEF Service!Settle, SettlesOnly
<1>3. ASSUME NEW t \in Texts, NEW f \in {"queued", "sent", "refused"},
             fate[t] = "new", fate' = [fate EXCEPT ![t] = f], heard' = heard
      PROVE  Service!Accept(t)
  <2>1. Status[t] = "new"
    BY <1>3 DEF Status
  <2>2. \A u \in Texts : Status'[u] = IF u = t THEN f ELSE Status[u]
    BY <1>1, <1>3 DEF Status
  <2>3. Status' = [Status EXCEPT ![t] = f]
    BY <2>2 DEF Status
  <2>4. QED
    BY <1>3, <2>1, <2>3 DEF Service!Accept
<1>4. ASSUME NEW p \in Peers, NEW t \in Texts, HearsText(p, t) PROVE Service!Hear(p, t)
  <2>1. Status[t] = "sent" /\ Status' = Status
    BY <1>4 DEF Status, HearsText
  <2>2. QED
    BY <1>4, <2>1 DEF Service!Hear, HearsText
<1>5. QED
  BY <1>2, <1>3, <1>4 DEF Service!Next

(* Every step keeps the invariant and is a step or a stutter of            *)
(* MessageService.                                                         *)
LEMMA ServiceNext == ServiceInv /\ [Next]_vars => ServiceInv' /\ [Service!Next]_(Service!vars)
<1> SUFFICES ASSUME ServiceInv, [Next]_vars PROVE ServiceInv' /\ [Service!Next]_(Service!vars)
  OBVIOUS
<1>1. TypeOK'
  BY TypeNext DEF ServiceInv
<1>2. CASE Commands
  BY <1>1, <1>2, CommandsServe, Mapped DEF ServiceInv
<1>3. CASE Clock
  BY <1>1, <1>3, ClockServes, Mapped DEF ServiceInv
<1>4. CASE Phones
  BY <1>1, <1>4, PhonesServe, Mapped DEF ServiceInv
<1>5. CASE Link
  BY <1>1, <1>5, LinkServes, Mapped DEF ServiceInv
<1>6. CASE UNCHANGED vars
  <2>1. UNCHANGED <<fate, heard, pendingSends, down>>
    BY <1>6 DEF vars, smVars, queues, phoneVars
  <2>2. QED
    BY <1>1, <2>1, IdleQuiet, Mapped DEF NoTextSent, ServiceInv
<1>7. QED
  BY <1>2, <1>3, <1>4, <1>5, <1>6 DEF Next

(* A text is in its queue exactly as long as its fate is open, and what    *)
(* was heard had been sent (QueueExact).                                   *)
THEOREM QueueIsExact == Spec => []QueueExact
<1>1. ServiceInv => QueueExact
  BY DEF ServiceInv
<1>2. QED
  BY <1>1, ServiceInit, ServiceNext, PTL DEF Spec

(* The daemon and its phones implement MessageService (ServiceKept).       *)
THEOREM ServiceImplemented == Spec => ServiceKept
<1>1. Spec => []ServiceInv
  BY ServiceInit, ServiceNext, PTL DEF Spec
<1>2. Spec => Service!Spec
  BY <1>1, ServiceInit, ServiceNext, PTL DEF Spec, Service!Spec
<1>3. QED
  BY <1>2 DEF ServiceKept

-----------------------------------------------------------------------------
(* The order of texts.                                                     *)

(* The link keeps order, and the phone that subscribed stays subscribed:   *)
(* one that does not has texts queued while it has a session, and what is  *)
(* sent when it is back passes those.                                      *)
KeepsOrder == May \cap {"reorder", "unsubscribe"} = {}

HeardAt(p, i, a) == i \in DOMAIN heard[p] /\ heard[p][i] = a

UnderWayAt(p, i, a) ==
    i \in DOMAIN down[p] /\ TextPacket(down[p][i]) /\ down[p][i].body.id = a

QueuedAt(p, i, a) == i \in DOMAIN pendingSends[p] /\ pendingSends[p][i].text = a

(* A phone's line: what it has heard, what is under way to it, and what is *)
(* queued for it.                                                          *)
OnLine(p, a) == \E i \in Nat : HeardAt(p, i, a) \/ UnderWayAt(p, i, a) \/ QueuedAt(p, i, a)

Precedes(p, a, b) ==
    \E i, j \in Nat :
        \/ i < j /\ HeardAt(p, i, a) /\ HeardAt(p, j, b)
        \/ HeardAt(p, i, a) /\ UnderWayAt(p, j, b)
        \/ HeardAt(p, i, a) /\ QueuedAt(p, j, b)
        \/ i < j /\ UnderWayAt(p, i, a) /\ UnderWayAt(p, j, b)
        \/ UnderWayAt(p, i, a) /\ QueuedAt(p, j, b)
        \/ i < j /\ QueuedAt(p, i, a) /\ QueuedAt(p, j, b)

Asked(a) == \E k \in DOMAIN ordered : ordered[k] = a

AskedBefore(a, b) ==
    \E k, l \in DOMAIN ordered : k < l /\ ordered[k] = a /\ ordered[l] = b

(* The line of a phone is in the order of the commands.                    *)
LineOrdered ==
    \A p \in Peers : \A a, b \in Texts :
        /\ OnLine(p, a) => Asked(a)
        /\ Precedes(p, a, b) => AskedBefore(a, b)

(* Nobody has joined or changed places in a line, but for t at its end.    *)
Moved(p) ==
    \A a, b \in Texts :
        /\ OnLine(p, a)' => OnLine(p, a)
        /\ Precedes(p, a, b)' => Precedes(p, a, b)

MovedBehind(p, t) ==
    \A a, b \in Texts :
        /\ OnLine(p, a)' => OnLine(p, a) \/ a = t
        /\ Precedes(p, a, b)' => Precedes(p, a, b) \/ (OnLine(p, a) /\ b = t)

(* Nobody has come anywhere in a line.                                     *)
Stands(p) ==
    \A i \in Nat, a \in Texts :
        /\ HeardAt(p, i, a)' => HeardAt(p, i, a)
        /\ UnderWayAt(p, i, a)' => UnderWayAt(p, i, a)
        /\ QueuedAt(p, i, a)' => QueuedAt(p, i, a)

(* A line that stands has not moved.                                     *)
LEMMA StandingMoves ==
    ASSUME NEW p, Stands(p)
    PROVE  Moved(p)
<1>1. \A a \in Texts : OnLine(p, a)' => OnLine(p, a)
  BY DEF Stands, OnLine
<1>2. ASSUME NEW a \in Texts, NEW b \in Texts, Precedes(p, a, b)'
      PROVE  Precedes(p, a, b)
  BY <1>2 DEF Stands, Precedes
<1>3. QED
  BY <1>1, <1>2 DEF Moved

(* The whole queue, or a stretch of it, goes on the link behind what is    *)
(* there.                                                                  *)
LEMMA DrainMoves ==
    ASSUME NEW p, NEW n \in Nat, NEW k \in Nat,
           \A i \in Nat, a \in Texts :
              /\ HeardAt(p, i, a)' => HeardAt(p, i, a)
              /\ ~QueuedAt(p, i, a)'
              /\ UnderWayAt(p, i, a) => i <= n
              /\ UnderWayAt(p, i, a)' =>
                    UnderWayAt(p, i, a) \/ (i > n /\ QueuedAt(p, k + (i - n), a))
    PROVE  Moved(p)
<1>1. \A i, j \in Nat : /\ i > n => k + (i - n) \in Nat
                        /\ i > n /\ j > n /\ i < j => k + (i - n) < k + (j - n)
  OBVIOUS
<1>2. \A a \in Texts : OnLine(p, a)' => OnLine(p, a)
  BY <1>1 DEF OnLine
<1>3. ASSUME NEW a \in Texts, NEW b \in Texts, Precedes(p, a, b)'
      PROVE  Precedes(p, a, b)
  <2>1. PICK i \in Nat, j \in Nat :
            \/ i < j /\ HeardAt(p, i, a)' /\ HeardAt(p, j, b)'
            \/ HeardAt(p, i, a)' /\ UnderWayAt(p, j, b)'
            \/ i < j /\ UnderWayAt(p, i, a)' /\ UnderWayAt(p, j, b)'
    BY <1>3 DEF Precedes
  <2>2. CASE i < j /\ HeardAt(p, i, a)' /\ HeardAt(p, j, b)'
    BY <2>2 DEF Precedes
  <2>3. CASE HeardAt(p, i, a)' /\ UnderWayAt(p, j, b)'
    BY <1>1, <2>3 DEF Precedes
  <2>4. CASE i < j /\ UnderWayAt(p, i, a)' /\ UnderWayAt(p, j, b)'
    <3>1. CASE UnderWayAt(p, i, a) /\ UnderWayAt(p, j, b)
      BY <2>4, <3>1 DEF Precedes
    <3>2. CASE UnderWayAt(p, i, a) /\ j > n /\ QueuedAt(p, k + (j - n), b)
      BY <1>1, <3>2 DEF Precedes
    <3>3. CASE i > n /\ QueuedAt(p, k + (i - n), a) /\ j > n /\ QueuedAt(p, k + (j - n), b)
      <4> DEFINE c == k + (i - n)
                 d == k + (j - n)
      <4>1. c \in Nat /\ d \in Nat /\ c < d
        BY <1>1, <2>4, <3>3
      <4> HIDE DEF c, d
      <4>2. QueuedAt(p, c, a) /\ QueuedAt(p, d, b)
        BY <3>3 DEF c, d
      <4>3. QED
        BY <4>1, <4>2 DEF Precedes
    <3>4. i > n => j > n
      BY <2>4
    <3>5. QED
      BY <2>4, <3>1, <3>2, <3>3, <3>4
  <2>5. QED
    BY <2>1, <2>2, <2>3, <2>4
<1>4. QED
  BY <1>2, <1>3 DEF Moved

(* A packet leaves the link, lost or not read.                             *)
LEMMA TakenMoves ==
    ASSUME NEW p, NEW n \in Nat,
           \A i \in Nat, a \in Texts :
              /\ HeardAt(p, i, a)' => HeardAt(p, i, a)
              /\ QueuedAt(p, i, a)' => QueuedAt(p, i, a)
              /\ UnderWayAt(p, i, a)' =>
                    (i < n /\ UnderWayAt(p, i, a)) \/ (i >= n /\ UnderWayAt(p, i + 1, a))
    PROVE  Moved(p)
<1>1. \A a \in Texts : OnLine(p, a)' => OnLine(p, a)
  BY DEF OnLine
<1>2. ASSUME NEW i \in Nat, NEW a \in Texts, UnderWayAt(p, i, a)'
      PROVE  \E c \in Nat : UnderWayAt(p, c, a) /\ c = IF i < n THEN i ELSE i + 1
  BY <1>2
<1>3. ASSUME NEW a \in Texts, NEW b \in Texts, Precedes(p, a, b)'
      PROVE  Precedes(p, a, b)
  <2>1. PICK i \in Nat, j \in Nat :
            \/ i < j /\ HeardAt(p, i, a)' /\ HeardAt(p, j, b)'
            \/ HeardAt(p, i, a)' /\ UnderWayAt(p, j, b)'
            \/ HeardAt(p, i, a)' /\ QueuedAt(p, j, b)'
            \/ i < j /\ UnderWayAt(p, i, a)' /\ UnderWayAt(p, j, b)'
            \/ UnderWayAt(p, i, a)' /\ QueuedAt(p, j, b)'
            \/ i < j /\ QueuedAt(p, i, a)' /\ QueuedAt(p, j, b)'
    BY <1>3 DEF Precedes
  <2>2. CASE \/ i < j /\ HeardAt(p, i, a)' /\ HeardAt(p, j, b)'
             \/ HeardAt(p, i, a)' /\ QueuedAt(p, j, b)'
             \/ i < j /\ QueuedAt(p, i, a)' /\ QueuedAt(p, j, b)'
    BY <2>2 DEF Precedes
  <2>3. CASE HeardAt(p, i, a)' /\ UnderWayAt(p, j, b)'
    BY <1>2, <2>3 DEF Precedes
  <2>4. CASE UnderWayAt(p, i, a)' /\ QueuedAt(p, j, b)'
    BY <1>2, <2>4 DEF Precedes
  <2>5. CASE i < j /\ UnderWayAt(p, i, a)' /\ UnderWayAt(p, j, b)'
    <3>1. PICK c \in Nat : UnderWayAt(p, c, a) /\ c = IF i < n THEN i ELSE i + 1
      BY <1>2, <2>5
    <3>2. PICK d \in Nat : UnderWayAt(p, d, b) /\ d = IF j < n THEN j ELSE j + 1
      BY <1>2, <2>5
    <3>3. c < d
      BY <2>5, <3>1, <3>2
    <3>4. QED
      BY <3>1, <3>2, <3>3 DEF Precedes
  <2> QED BY <2>1, <2>2, <2>3, <2>4, <2>5
<1>4. QED
  BY <1>1, <1>3 DEF Moved

(* The first text under way is heard.                                      *)
LEMMA HearingMoves ==
    ASSUME NEW p, NEW n \in Nat,
           \A i \in Nat, a \in Texts :
              /\ HeardAt(p, i, a) => i <= n
              /\ HeardAt(p, i, a)' => HeardAt(p, i, a) \/ (i = n + 1 /\ UnderWayAt(p, 1, a))
              /\ QueuedAt(p, i, a)' => QueuedAt(p, i, a)
              /\ UnderWayAt(p, i, a)' => i >= 1 /\ UnderWayAt(p, i + 1, a)
    PROVE  Moved(p)
<1>1. \A a \in Texts : OnLine(p, a)' => OnLine(p, a)
  BY DEF OnLine
<1>2. ASSUME NEW i \in Nat, NEW a \in Texts, UnderWayAt(p, i, a)'
      PROVE  \E c \in Nat : UnderWayAt(p, c, a) /\ c = i + 1 /\ 1 < c
  BY <1>2
<1>3. ASSUME NEW a \in Texts, NEW b \in Texts, Precedes(p, a, b)'
      PROVE  Precedes(p, a, b)
  <2>1. PICK i \in Nat, j \in Nat :
            \/ i < j /\ HeardAt(p, i, a)' /\ HeardAt(p, j, b)'
            \/ HeardAt(p, i, a)' /\ UnderWayAt(p, j, b)'
            \/ HeardAt(p, i, a)' /\ QueuedAt(p, j, b)'
            \/ i < j /\ UnderWayAt(p, i, a)' /\ UnderWayAt(p, j, b)'
            \/ UnderWayAt(p, i, a)' /\ QueuedAt(p, j, b)'
            \/ i < j /\ QueuedAt(p, i, a)' /\ QueuedAt(p, j, b)'
    BY <1>3 DEF Precedes
  <2>2. CASE i < j /\ HeardAt(p, i, a)' /\ HeardAt(p, j, b)'
    <3>1. HeardAt(p, i, a)
      BY <2>2
    <3>2. HeardAt(p, j, b) \/ UnderWayAt(p, 1, b)
      BY <2>2
    <3>3. QED
      BY <2>2, <3>1, <3>2 DEF Precedes
  <2>3. CASE HeardAt(p, i, a)' /\ UnderWayAt(p, j, b)'
    <3>1. PICK d \in Nat : UnderWayAt(p, d, b) /\ 1 < d
      BY <1>2, <2>3
    <3>2. HeardAt(p, i, a) \/ UnderWayAt(p, 1, a)
      BY <2>3
    <3>3. QED
      BY <3>1, <3>2 DEF Precedes
  <2>4. CASE HeardAt(p, i, a)' /\ QueuedAt(p, j, b)'
    <3>1. HeardAt(p, i, a) \/ UnderWayAt(p, 1, a)
      BY <2>4
    <3>2. QED
      BY <2>4, <3>1 DEF Precedes
  <2>5. CASE i < j /\ UnderWayAt(p, i, a)' /\ UnderWayAt(p, j, b)'
    <3>1. PICK c \in Nat : UnderWayAt(p, c, a) /\ c = i + 1
      BY <1>2, <2>5
    <3>2. PICK d \in Nat : UnderWayAt(p, d, b) /\ d = j + 1
      BY <1>2, <2>5
    <3>3. c < d
      BY <2>5, <3>1, <3>2
    <3>4. QED
      BY <3>1, <3>2, <3>3 DEF Precedes
  <2>6. CASE UnderWayAt(p, i, a)' /\ QueuedAt(p, j, b)'
    BY <1>2, <2>6 DEF Precedes
  <2>7. CASE i < j /\ QueuedAt(p, i, a)' /\ QueuedAt(p, j, b)'
    BY <2>7 DEF Precedes
  <2>8. QED
    BY <2>1, <2>2, <2>3, <2>4, <2>5, <2>6, <2>7
<1>4. QED
  BY <1>1, <1>3 DEF Moved

(* A text joins the queue.                                                 *)
LEMMA QueueingMoves ==
    ASSUME NEW p, NEW n \in Nat, NEW t \in Texts,
           \A i \in Nat, a \in Texts :
              /\ HeardAt(p, i, a)' => HeardAt(p, i, a)
              /\ UnderWayAt(p, i, a)' => UnderWayAt(p, i, a)
              /\ QueuedAt(p, i, a)' => QueuedAt(p, i, a) \/ (i = n + 1 /\ a = t)
              /\ QueuedAt(p, i, a)' => i <= n + 1
    PROVE  MovedBehind(p, t)
<1>1. \A a \in Texts : OnLine(p, a)' => OnLine(p, a) \/ a = t
  BY DEF OnLine
<1>2. ASSUME NEW a \in Texts, NEW b \in Texts, Precedes(p, a, b)'
      PROVE  Precedes(p, a, b) \/ (OnLine(p, a) /\ b = t)
  <2>1. PICK i \in Nat, j \in Nat :
            \/ i < j /\ HeardAt(p, i, a)' /\ HeardAt(p, j, b)'
            \/ HeardAt(p, i, a)' /\ UnderWayAt(p, j, b)'
            \/ HeardAt(p, i, a)' /\ QueuedAt(p, j, b)'
            \/ i < j /\ UnderWayAt(p, i, a)' /\ UnderWayAt(p, j, b)'
            \/ UnderWayAt(p, i, a)' /\ QueuedAt(p, j, b)'
            \/ i < j /\ QueuedAt(p, i, a)' /\ QueuedAt(p, j, b)'
    BY <1>2 DEF Precedes
  <2>2. CASE \/ i < j /\ HeardAt(p, i, a)' /\ HeardAt(p, j, b)'
             \/ HeardAt(p, i, a)' /\ UnderWayAt(p, j, b)'
             \/ i < j /\ UnderWayAt(p, i, a)' /\ UnderWayAt(p, j, b)'
    BY <2>2 DEF Precedes
  <2>3. CASE HeardAt(p, i, a)' /\ QueuedAt(p, j, b)'
    <3>1. HeardAt(p, i, a) /\ (QueuedAt(p, j, b) \/ b = t)
      BY <2>3
    <3>2. QED
      BY <3>1 DEF Precedes, OnLine
  <2>4. CASE UnderWayAt(p, i, a)' /\ QueuedAt(p, j, b)'
    <3>1. UnderWayAt(p, i, a) /\ (QueuedAt(p, j, b) \/ b = t)
      BY <2>4
    <3>2. QED
      BY <3>1 DEF Precedes, OnLine
  <2>5. CASE i < j /\ QueuedAt(p, i, a)' /\ QueuedAt(p, j, b)'
    <3>1. QueuedAt(p, i, a) /\ (QueuedAt(p, j, b) \/ b = t)
      BY <2>5
    <3>2. QED
      BY <2>5, <3>1 DEF Precedes, OnLine
  <2> QED BY <2>1, <2>2, <2>3, <2>4, <2>5
<1>3. QED
  BY <1>1, <1>2 DEF MovedBehind

(* A text is sent past an empty queue.                                     *)
LEMMA SendingMoves ==
    ASSUME NEW p, NEW n \in Nat, NEW t \in Texts,
           \A i \in Nat, a \in Texts :
              /\ HeardAt(p, i, a)' => HeardAt(p, i, a)
              /\ UnderWayAt(p, i, a)' => UnderWayAt(p, i, a) \/ (i = n + 1 /\ a = t)
              /\ UnderWayAt(p, i, a)' => i <= n + 1
              /\ ~QueuedAt(p, i, a)'
    PROVE  MovedBehind(p, t)
<1>1. \A a \in Texts : OnLine(p, a)' => OnLine(p, a) \/ a = t
  BY DEF OnLine
<1>2. ASSUME NEW a \in Texts, NEW b \in Texts, Precedes(p, a, b)'
      PROVE  Precedes(p, a, b) \/ (OnLine(p, a) /\ b = t)
  <2>1. PICK i \in Nat, j \in Nat :
            \/ i < j /\ HeardAt(p, i, a)' /\ HeardAt(p, j, b)'
            \/ HeardAt(p, i, a)' /\ UnderWayAt(p, j, b)'
            \/ i < j /\ UnderWayAt(p, i, a)' /\ UnderWayAt(p, j, b)'
    BY <1>2 DEF Precedes
  <2>2. CASE i < j /\ HeardAt(p, i, a)' /\ HeardAt(p, j, b)'
    BY <2>2 DEF Precedes
  <2>3. CASE HeardAt(p, i, a)' /\ UnderWayAt(p, j, b)'
    <3>1. HeardAt(p, i, a) /\ (UnderWayAt(p, j, b) \/ b = t)
      BY <2>3
    <3>2. QED
      BY <3>1 DEF Precedes, OnLine
  <2>4. CASE i < j /\ UnderWayAt(p, i, a)' /\ UnderWayAt(p, j, b)'
    <3>1. UnderWayAt(p, i, a) /\ (UnderWayAt(p, j, b) \/ b = t)
      BY <2>4
    <3>2. QED
      BY <2>4, <3>1 DEF Precedes, OnLine
  <2>5. QED
    BY <2>1, <2>2, <2>3, <2>4
<1>3. QED
  BY <1>1, <1>2 DEF MovedBehind

-----------------------------------------------------------------------------
(* Which steps move whom in a line.                                        *)

(* Queues only lose texts.                                                 *)
QueuesShrink ==
    \A q \in Peers : \A i \in DOMAIN pendingSends'[q] :
        /\ i \in DOMAIN pendingSends[q]
        /\ pendingSends'[q][i].text = pendingSends[q][i].text

(* Without a text sent or queued every line stands.                      *)
LEMMA QuietStands ==
    ASSUME NoTextSent, QueuesShrink, heard' = heard, NEW p \in Peers
    PROVE  Stands(p)
  BY DEF NoTextSent, QueuesShrink, Stands, HeardAt, UnderWayAt, QueuedAt

(* The numbers of the packets on a link.                                   *)
LEMMA LinkNumbers ==
    ASSUME TypeOK, NEW p \in Peers
    PROVE  /\ Len(down[p]) \in Nat /\ down[p] \in Seq(DownPackets)
           /\ \A i, a : UnderWayAt(p, i, a) => i \in 1 .. Len(down[p])
  BY DEF UnderWayAt, TypeOK

(* Establishing a session puts the queue on the link, in its order.      *)
LEMMA EstablishMoves ==
    ASSUME TypeOK, heard' = heard, NEW p \in Peers, NEW m \in Messages, Establish(p, m)
    PROVE  \A q \in Peers : Moved(q)
<1>1. PICK z \in Seq(DownPackets), k \in Nat :
          /\ down' = Sent(p, z)
          /\ k + Len(z) <= Len(pendingSends[p])
          /\ DOMAIN z = DOMAIN Drained(p)
          /\ \A i \in DOMAIN z : /\ TextPacket(z[i]) /\ z[i].body.id = Drained(p)[i].text
                                 /\ Drained(p)[i] = pendingSends[p][k + i]
  BY EstablishSends
<1>2. /\ pendingSends \in [Peers -> Seq(Queued)] /\ down \in [Peers -> Seq(DownPackets)]
      /\ pendingSends' = [pendingSends EXCEPT ![p] = <<>>]
  BY DEF TypeOK, Queued, Establish, Emptied
<1>3. ASSUME NEW q \in Peers \ {p} PROVE Moved(q)
  <2>1. down'[q] = down[q] /\ pendingSends'[q] = pendingSends[q]
    BY <1>1, <1>2 DEF Sent
  <2>2. Stands(q)
    BY <2>1 DEF Stands, HeardAt, UnderWayAt, QueuedAt
  <2>3. QED
    BY <2>2, StandingMoves
<1>4. Moved(p)
  <2> DEFINE n == Len(down[p])
  <2>1. n \in Nat /\ \A i \in Nat, a \in Texts : UnderWayAt(p, i, a) => i <= n
    BY LinkNumbers
  <2>2. \A i \in Nat, a \in Texts : HeardAt(p, i, a)' => HeardAt(p, i, a)
    BY DEF HeardAt
  <2>3. \A i \in Nat, a \in Texts : ~QueuedAt(p, i, a)'
    BY <1>2 DEF QueuedAt
  <2>4. ASSUME NEW i \in Nat, NEW a \in Texts, UnderWayAt(p, i, a)'
        PROVE  UnderWayAt(p, i, a) \/ (i > n /\ QueuedAt(p, k + (i - n), a))
    <3>1. i \in DOMAIN down'[p] /\ TextPacket(down'[p][i]) /\ down'[p][i].body.id = a
      BY <2>4 DEF UnderWayAt
    <3>2. CASE down'[p] = down[p]
      BY <3>1, <3>2 DEF UnderWayAt
    <3>3. CASE down'[p] = down[p] \o z
      <4> DEFINE q == down[p]
                 l == Len(z)
                 r == q \o z
      <4>1. /\ q \in Seq(DownPackets) /\ l \in Nat /\ DOMAIN z = 1 .. l
            /\ DOMAIN r = 1 .. n + l
            /\ \A h \in 1 .. n + l : r[h] = IF h <= n THEN q[h] ELSE z[h - n]
        BY <1>2, ConcatProperties
      <4>2. DOMAIN q = 1 .. n
        BY <1>2
      <4>3. i \in DOMAIN r /\ TextPacket(r[i]) /\ r[i].body.id = a
        BY <3>1, <3>3
      <4> HIDE DEF r, l, n, q
      <4>4. CASE i <= n
        <5>1. i \in DOMAIN q /\ r[i] = q[i]
          BY <2>1, <4>1, <4>2, <4>3, <4>4
        <5>2. QED
          BY <4>3, <5>1 DEF UnderWayAt, q
      <4>5. CASE ~(i <= n)
        <5>1. i - n \in 1 .. l /\ r[i] = z[i - n] /\ i > n
          BY <2>1, <4>1, <4>3, <4>5
        <5>2. i - n \in DOMAIN z
          BY <4>1, <5>1
        <5>3. pendingSends[p][k + (i - n)].text = a
          BY <1>1, <4>3, <5>1, <5>2
        <5>4. DOMAIN pendingSends[p] = 1 .. Len(pendingSends[p]) /\ Len(pendingSends[p]) \in Nat
          BY <1>2
        <5>5. k + l <= Len(pendingSends[p])
          BY <1>1 DEF l
        <5>6. k + (i - n) \in DOMAIN pendingSends[p]
          BY <2>1, <4>1, <5>1, <5>4, <5>5
        <5>7. QED
          BY <5>1, <5>3, <5>6 DEF QueuedAt
      <4>6. QED
        BY <4>4, <4>5
    <3>4. QED
      BY <1>1, <1>2, <3>2, <3>3 DEF Sent
  <2> HIDE DEF n
  <2>5. QED
    BY <2>1, <2>2, <2>3, <2>4, DrainMoves
<1>5. QED
  BY <1>3, <1>4

(* No packet a phone sends lets a text pass another.                       *)
LEMMA HandlersMove ==
    ASSUME TypeOK, heard' = heard, NEW p \in Peers, NEW x \in UpPackets, Handled(p, x)
    PROVE  \A q \in Peers : Moved(q)
<1>1. CASE x.type = "handshake" /\ Establish(p, x.m)
  BY <1>1, EstablishMoves, UpKinds
<1>2. CASE ~(x.type = "handshake" /\ Establish(p, x.m))
  <2>1. NoTextSent /\ (UNCHANGED <<fate, pendingSends>> \/ HandleLeave(p))
    BY <1>2, HandlersQuiet
  <2>2. CASE UNCHANGED <<fate, pendingSends>>
    BY <2>1, <2>2, QuietStands, StandingMoves DEF QueuesShrink
  <2>3. CASE HandleLeave(p)
    <3>1. QueuesShrink
      BY <2>3 DEF HandleLeave, DropPeers, QueuesShrink
    <3>2. QED
      BY <2>1, <3>1, QuietStands, StandingMoves
  <2>4. QED
    BY <2>1, <2>2, <2>3
<1>3. QED
  BY <1>1, <1>2

(* Timers only take texts out of queues.                                   *)
LEMMA ClockShrinks ==
    ASSUME TypeOK, Clock
    PROVE  QueuesShrink /\ NoTextSent /\ heard' = heard
<1> USE DEF handshake, registry, queues, link, rest, phoneVars
<1>1. heard' = heard /\ pendingSends \in [Peers -> Seq(Queued)]
  BY DEF Clock, TypeOK, Queued
<1>2. UNCHANGED down
  BY DEF Clock, PeerTimeout, DropPeers, Silence, CooldownEnds, QueueAges, SessionAges,
         CancelPendingSends, Unsubscribe
<1>3. NoTextSent
  BY <1>2 DEF NoTextSent
<1>4. UNCHANGED pendingSends => QueuesShrink
  BY DEF QueuesShrink
<1>5. ASSUME PeerTimeout PROVE QueuesShrink
  <2>1. pendingSends' = [q \in Peers |-> IF q \in TimedOut THEN <<>> ELSE pendingSends[q]]
    BY <1>5 DEF PeerTimeout, DropPeers
  <2>2. QED
    BY <2>1 DEF QueuesShrink
<1>6. ASSUME NEW p \in Peers, CancelPendingSends(p) PROVE QueuesShrink
  BY <1>1, <1>6 DEF CancelPendingSends, QueuesShrink
<1>7. ASSUME NEW p \in Peers, QueueAges(p) PROVE QueuesShrink
  <2>1. PICK n \in DOMAIN pendingSends[p] : pendingSends' = [pendingSends EXCEPT ![p][n].stale = TRUE]
    BY <1>7 DEF QueueAges
  <2>2. pendingSends' =
          [pendingSends EXCEPT ![p] = [pendingSends[p] EXCEPT ![n] = [pendingSends[p][n] EXCEPT !.stale = TRUE]]]
    BY <2>1
  <2>3. \A q \in Peers : \A i \in DOMAIN pendingSends[q] : pendingSends[q][i] \in Queued
    BY <1>1, ElementOfSeq
  <2>4. QED
    BY <1>1, <2>2, <2>3 DEF Queued, QueuesShrink
<1>8. QueuesShrink
  BY <1>4, <1>5, <1>6, <1>7 DEF Clock, Silence, CooldownEnds, SessionAges, Unsubscribe
<1>9. QED
  BY <1>1, <1>3, <1>8

(* So every line keeps its order.                                        *)
LEMMA ClockMoves ==
    ASSUME TypeOK, Clock
    PROVE  \A q \in Peers : Moved(q)
  BY ClockShrinks, QuietStands, StandingMoves

(* What leaves a link leaves it at its place; the first is heard.          *)
LEMMA LinkMoves ==
    ASSUME KeepsOrder, TypeOK, Link
    PROVE  \A q \in Peers : Moved(q)
<1> USE DEF smVars, handshake, registry, queues, link, rest, phoneVars
<1>1. /\ down \in [Peers -> Seq(DownPackets)] /\ up \in [Peers -> Seq(UpPackets)]
      /\ heard \in [Peers -> Seq(Texts)]
  BY DEF TypeOK
<1>2. PICK p \in Peers : DeliverUp(p) \/ DeliverDown(p) \/ LoseUp(p) \/ LoseDown(p)
  BY DEF Link
<1>3. CASE DeliverUp(p)
  <2>1. PICK i \in DOMAIN up[p] :
        up[p][i] \in UpPackets /\ Handled(p, up[p][i]) /\ UNCHANGED <<phoneVars, ordered>>
    BY <1>1, <1>3, Delivered
  <2>2. QED
    BY <2>1, HandlersMove
<1>4. CASE LoseUp(p)
  <2>1. UNCHANGED <<heard, pendingSends, down>>
    BY <1>4 DEF LoseUp
  <2>2. NoTextSent /\ QueuesShrink
    BY <2>1 DEF NoTextSent, QueuesShrink
  <2>3. QED
    BY <2>1, <2>2, QuietStands, StandingMoves
<1>5. ASSUME NEW n \in DOMAIN down[p], down' = [down EXCEPT ![p] = RemoveAt(@, n)],
             UNCHANGED pendingSends
      PROVE  /\ n \in Nat
             /\ \A i \in Nat, a \in Texts :
                   /\ QueuedAt(p, i, a)' => QueuedAt(p, i, a)
                   /\ UnderWayAt(p, i, a)' =>
                         (i < n /\ UnderWayAt(p, i, a)) \/ (i >= n /\ UnderWayAt(p, i + 1, a))
  <2>1. /\ \A i \in DOMAIN down'[p] :
              \/ i < n /\ i \in DOMAIN down[p] /\ down'[p][i] = down[p][i]
              \/ ~(i < n) /\ i + 1 \in DOMAIN down[p] /\ down'[p][i] = down[p][i + 1]
        /\ DOMAIN down'[p] \subseteq Nat /\ n \in Nat
    BY <1>5, Taken
  <2>2. ASSUME NEW i \in Nat, NEW a \in Texts, UnderWayAt(p, i, a)'
        PROVE  (i < n /\ UnderWayAt(p, i, a)) \/ (i >= n /\ UnderWayAt(p, i + 1, a))
    <3>1. i \in DOMAIN down'[p] /\ TextPacket(down'[p][i]) /\ down'[p][i].body.id = a
      BY <2>2 DEF UnderWayAt
    <3>2. QED
      BY <2>1, <3>1 DEF UnderWayAt
  <2>3. QED
    BY <1>5, <2>1, <2>2 DEF QueuedAt
<1>6. ASSUME NEW n \in DOMAIN down[p], down' = [down EXCEPT ![p] = RemoveAt(@, n)],
             UNCHANGED <<pendingSends, heard>>
      PROVE  \A q \in Peers : Moved(q)
  <2>1. Moved(p)
    <3>1. \A i \in Nat, a \in Texts : HeardAt(p, i, a)' => HeardAt(p, i, a)
      BY <1>6 DEF HeardAt
    <3>2. QED
      BY <1>5, <1>6, <3>1, TakenMoves
  <2>2. ASSUME NEW q \in Peers \ {p} PROVE Moved(q)
    <3>1. down'[q] = down[q]
      BY <1>1, <1>6
    <3>2. Stands(q)
      BY <1>6, <3>1 DEF Stands, HeardAt, UnderWayAt, QueuedAt
    <3>3. QED
      BY <3>2, StandingMoves
  <2>3. QED
    BY <2>1, <2>2
<1>7. CASE LoseDown(p)
  BY <1>6, <1>7 DEF LoseDown
<1>8. CASE DeliverDown(p)
  <2>1. PICK n \in Next1(down[p]) :
        /\ down' = [down EXCEPT ![p] = RemoveAt(@, n)]
        /\ PhoneHears(p, down[p][n])
    BY <1>8 DEF DeliverDown
  <2>2. UNCHANGED pendingSends
    BY <1>8 DEF DeliverDown
  <2>3. n \in DOMAIN down[p] /\ n = 1
    BY DEF Next1, KeepsOrder
  <2> DEFINE x == down[p][n]
             t == x.body.id
  <2>4. \/ heard' = heard
        \/ /\ TextPacket(x)
           /\ heard' = [heard EXCEPT ![p] = Append(@, t)]
    <3> HIDE DEF x
    <3>1. PhoneHears(p, x)
      BY <2>1 DEF x
    <3>2. \/ heard' = heard
          \/ /\ x.type = "noise"
             /\ heard' = [heard EXCEPT ![p] =
                   IF /\ phone[p].st = "up" /\ x.body.type # "receipt"
                      /\ x.keys = [ei |-> phone[p].ei, er |-> phone[p].er, epoch |-> 0]
                   THEN Append(@, x.body.id) ELSE @]
      BY <3>1 DEF PhoneHears
    <3>3. CASE x.type = "noise" /\ x.body.type # "receipt" /\ heard' # heard
      BY <1>1, <3>2, <3>3 DEF TextPacket
    <3>4. CASE ~(x.type = "noise" /\ x.body.type # "receipt")
      BY <1>1, <3>2, <3>4
    <3>5. QED
      BY <3>3, <3>4
  <2>5. CASE heard' = heard
    BY <1>6, <2>1, <2>2, <2>3, <2>5
  <2>6. CASE TextPacket(x) /\ heard' = [heard EXCEPT ![p] = Append(@, t)]
    <3> DEFINE h == Len(heard[p])
    <3>1. x \in DownPackets
      BY <1>1, <2>3, ElementOfSeq
    <3>2. t \in Texts
      BY <2>6, <3>1, DownKinds DEF TextPacket
    <3>3. UnderWayAt(p, 1, t)
      BY <2>3, <2>6 DEF UnderWayAt
    <3> HIDE DEF t, x
    <3>4. /\ heard'[p] = Append(heard[p], t) /\ heard[p] \in Seq(Texts)
          /\ \A q \in Peers \ {p} : heard'[q] = heard[q] /\ down'[q] = down[q]
      BY <1>1, <2>1, <2>6
    <3>5. /\ h \in Nat /\ DOMAIN heard[p] = 1 .. h /\ DOMAIN heard'[p] = 1 .. h + 1
          /\ \A i \in 1 .. h : heard'[p][i] = heard[p][i]
          /\ heard'[p][h + 1] = t
      BY <3>2, <3>4, AppendProperties
    <3> HIDE DEF h
    <3>6. \A i \in Nat, a \in Texts : HeardAt(p, i, a) => i <= h
      BY <3>5 DEF HeardAt
    <3>7. ASSUME NEW i \in Nat, NEW a \in Texts, HeardAt(p, i, a)'
          PROVE  HeardAt(p, i, a) \/ (i = h + 1 /\ UnderWayAt(p, 1, a))
      <4>1. i \in DOMAIN heard'[p] /\ heard'[p][i] = a
        BY <3>7 DEF HeardAt
      <4>2. QED
        BY <3>3, <3>5, <4>1 DEF HeardAt
    <3>8. \A i \in Nat, a \in Texts :
              /\ QueuedAt(p, i, a)' => QueuedAt(p, i, a)
              /\ UnderWayAt(p, i, a)' =>
                     (i < 1 /\ UnderWayAt(p, i, a)) \/ (i >= 1 /\ UnderWayAt(p, i + 1, a))
      BY <1>5, <2>1, <2>2, <2>3
    <3>9. \A i, a : UnderWayAt(p, i, a) => i >= 1
      BY LinkNumbers
    <3>10. \A i \in Nat, a \in Texts : UnderWayAt(p, i, a)' => i >= 1 /\ UnderWayAt(p, i + 1, a)
      BY <3>8, <3>9
    <3>11. Moved(p)
      BY <3>5, <3>6, <3>7, <3>8, <3>10, HearingMoves
    <3>12. ASSUME NEW q \in Peers \ {p} PROVE Moved(q)
      <4>1. Stands(q)
        BY <2>2, <3>4 DEF Stands, HeardAt, UnderWayAt, QueuedAt
      <4>2. QED
        BY <4>1, StandingMoves
    <3>13. QED
      BY <3>11, <3>12
  <2>7. QED
    BY <2>4, <2>5, <2>6
<1>9. QED
  BY <1>2, <1>3, <1>4, <1>7, <1>8


-----------------------------------------------------------------------------
(* Commands, and what they add to a line.                                  *)

(* Nothing waits in the queue of a peer with an established session.       *)
NoneQueued == \A p \in Peers : Established(sessions[p]) => DOMAIN pendingSends[p] = {}

(* No move is a move behind any text.                                    *)
LEMMA MovedIsBehind ==
    ASSUME NEW p, NEW t, Moved(p)
    PROVE  MovedBehind(p, t)
  BY DEF Moved, MovedBehind

(* A text that is queued is the last of its phone's.                       *)
LEMMA QueuedMoves ==
    ASSUME TypeOK, heard' = heard, NEW t \in Texts, Queue(t)
    PROVE  \A q \in Peers : MovedBehind(q, t)
<1> DEFINE p == To[t]
           x == [text |-> t, stale |-> FALSE]
           r == pendingSends[p]
           n == Len(r)
<1>1. p \in Peers /\ pendingSends \in [Peers -> Seq(Queued)]
  BY TextsAssumption DEF TypeOK, Queued
<1>2. /\ pendingSends' = [pendingSends EXCEPT ![p] = Append(@, x)]
      /\ down' = ToAll(<<ANNOUNCE>>)
  BY DEF Queue
<1>3. NoTextSent
  BY <1>2, ToAllQuietly, PlainSeqs
<1>4. x \in Queued /\ x.text = t
  BY DEF Queued
<1>5. pendingSends'[p] = Append(r, x) /\ \A q \in Peers \ {p} : pendingSends'[q] = pendingSends[q]
  BY <1>1, <1>2
<1>6. r \in Seq(Queued)
  BY <1>1
<1> HIDE DEF x, p, r
<1>7. /\ n \in Nat /\ DOMAIN r = 1 .. n /\ DOMAIN Append(r, x) = 1 .. n + 1
      /\ \A i \in 1 .. n : Append(r, x)[i] = r[i]
      /\ Append(r, x)[n + 1] = x
  BY <1>4, <1>6, AppendProperties
<1> HIDE DEF n
<1>8. \A i \in Nat, a \in Texts : /\ HeardAt(p, i, a)' => HeardAt(p, i, a)
                                  /\ UnderWayAt(p, i, a)' => UnderWayAt(p, i, a)
  BY <1>1, <1>3 DEF NoTextSent, HeardAt, UnderWayAt
<1>9. ASSUME NEW q \in Peers \ {p} PROVE MovedBehind(q, t)
  <2>1. Stands(q)
    BY <1>3, <1>5 DEF NoTextSent, Stands, HeardAt, UnderWayAt, QueuedAt
  <2>2. QED
    BY <2>1, StandingMoves, MovedIsBehind
<1>10. ASSUME NEW i \in Nat, NEW a \in Texts, QueuedAt(p, i, a)'
       PROVE  i <= n + 1 /\ (QueuedAt(p, i, a) \/ (i = n + 1 /\ a = t))
  <2>1. i \in DOMAIN pendingSends'[p] /\ pendingSends'[p][i].text = a
    BY <1>10 DEF QueuedAt
  <2>2. i \in 1 .. n + 1 /\ Append(r, x)[i].text = a
    BY <1>5, <1>7, <2>1
  <2>3. CASE i \in 1 .. n
    <3>1. i \in DOMAIN pendingSends[p] /\ pendingSends[p][i].text = a
      BY <1>7, <2>2, <2>3 DEF r
    <3>2. QED
      BY <1>7, <2>3, <3>1 DEF QueuedAt
  <2>4. CASE i = n + 1
    BY <1>4, <1>7, <2>2, <2>4
  <2>5. QED
    BY <1>7, <2>2, <2>3, <2>4
<1>11. MovedBehind(p, t)
  BY <1>1, <1>7, <1>8, <1>10, QueueingMoves
<1>12. QED
  BY <1>9, <1>11

(* So is one that is sent at once, with nothing in the queue.              *)
LEMMA SentMoves ==
    ASSUME TypeOK, NoneQueued, heard' = heard, NEW t \in Texts, SendNow(t) \/ SendFile(t)
    PROVE  \A q \in Peers : MovedBehind(q, t)
<1> DEFINE p == To[t]
           s == Encrypted(sessions[p], 1)
           y == IF t \in Files THEN "file" ELSE "text"
           x == Noise(Keys(s), [type |-> y, id |-> t])
<1>1. /\ p \in Peers /\ ManagerTyped /\ down \in [Peers -> Seq(DownPackets)]
  BY TypeParts, TextsAssumption DEF TypeOK
<1>2. /\ pendingSends' = pendingSends
      /\ \/ down' = down
         \/ Established(sessions[p]) /\ down' = [down EXCEPT ![p] = @ \o <<x>>]
  BY DEF SendNow, SendFile, Sent
<1>3. CASE down' = down
  <2>1. NoTextSent /\ QueuesShrink
    BY <1>2, <1>3 DEF NoTextSent, QueuesShrink
  <2>2. QED
    BY <2>1, QuietStands, StandingMoves, MovedIsBehind
<1>4. CASE Established(sessions[p]) /\ down' = [down EXCEPT ![p] = @ \o <<x>>]
  <2> DEFINE r == down[p]
             n == Len(r)
  <2>1. sessions[p] \in SessionType
    BY <1>1, <1>4 DEF Established, ManagerTyped
  <2>2. Keys(s) \in PacketKeys
    BY <2>1, EncryptedType
  <2>3. DOMAIN pendingSends[p] = {}
    BY <1>1, <1>4 DEF NoneQueued
  <2> HIDE DEF s, p
  <2>4. x \in DownPackets
    BY <2>2, PacketTypes
  <2>5. x.body.id = t
    BY DEF Noise
  <2> HIDE DEF x
  <2>6. r \in Seq(DownPackets) /\ r \o <<x>> = Append(r, x)
    BY <1>1, <2>4, AppendIsConcat
  <2>7. down'[p] = Append(r, x) /\ \A q \in Peers \ {p} : down'[q] = down[q]
    BY <1>1, <1>4, <2>6
  <2> HIDE DEF r
  <2>8. /\ n \in Nat /\ DOMAIN r = 1 .. n /\ DOMAIN Append(r, x) = 1 .. n + 1
        /\ \A i \in 1 .. n : Append(r, x)[i] = r[i]
        /\ Append(r, x)[n + 1] = x
    BY <2>4, <2>6, AppendProperties
  <2> HIDE DEF n
  <2>9. ASSUME NEW q \in Peers \ {p} PROVE MovedBehind(q, t)
    <3>1. Stands(q)
      BY <1>2, <2>7 DEF Stands, HeardAt, UnderWayAt, QueuedAt
    <3>2. QED
      BY <3>1, StandingMoves, MovedIsBehind
  <2>10. ASSUME NEW i \in Nat, NEW a \in Texts, UnderWayAt(p, i, a)'
         PROVE  i <= n + 1 /\ (UnderWayAt(p, i, a) \/ (i = n + 1 /\ a = t))
    <3>1. i \in DOMAIN down'[p] /\ TextPacket(down'[p][i]) /\ down'[p][i].body.id = a
      BY <2>10 DEF UnderWayAt
    <3>2. i \in 1 .. n + 1 /\ TextPacket(Append(r, x)[i]) /\ Append(r, x)[i].body.id = a
      BY <2>7, <2>8, <3>1
    <3>3. CASE i \in 1 .. n
      <4>1. i \in DOMAIN down[p] /\ TextPacket(down[p][i]) /\ down[p][i].body.id = a
        BY <2>8, <3>2, <3>3 DEF r
      <4>2. QED
        BY <2>8, <3>3, <4>1 DEF UnderWayAt
    <3>4. CASE i = n + 1
      BY <2>5, <2>8, <3>2, <3>4
    <3>5. QED
      BY <2>8, <3>2, <3>3, <3>4
  <2>11. \A i \in Nat, a \in Texts : /\ HeardAt(p, i, a)' => HeardAt(p, i, a)
                                     /\ ~QueuedAt(p, i, a)'
    BY <1>2, <2>3 DEF HeardAt, QueuedAt
  <2>12. MovedBehind(p, t)
    BY <2>8, <2>10, <2>11, SendingMoves
  <2>13. QED
    BY <2>9, <2>12
<1>5. QED
  BY <1>2, <1>3, <1>4

(* A command adds one text at most, and at the end of its line.            *)
LEMMA CommandsMove ==
    ASSUME TypeOK, NoneQueued, Commands
    PROVE  \/ ordered' = ordered /\ \A q \in Peers : Moved(q)
           \/ \E t \in Texts : ordered' = Append(ordered, t) /\ \A q \in Peers : MovedBehind(q, t)
<1>1. heard' = heard
  BY DEF Commands, phoneVars
<1>2. ASSUME NEW t \in Texts, Queue(t) \/ SendNow(t) \/ SendFile(t)
      PROVE  \A q \in Peers : MovedBehind(q, t)
  BY <1>1, <1>2, QueuedMoves, SentMoves
<1>3. ASSUME SetNick \/ PeriodicAnnounce \/ Broadcast \/ Subscribe
      PROVE  \A q \in Peers : Moved(q)
  <2>1. NoTextSent /\ QueuesShrink
    BY <1>3, PlainCommands DEF QueuesShrink
  <2>2. QED
    BY <1>1, <2>1, QuietStands, StandingMoves
<1>4. QED
  BY <1>2, <1>3 DEF Commands

-----------------------------------------------------------------------------
(* The invariant.                                                          *)

(* Until a phone subscribes nothing is sent, so no handshake is finished.  *)
Unreached ==
    ~reachable => \A p \in Peers : /\ down[p] = <<>> /\ ~Established(sessions[p])
                                   /\ \A i \in DOMAIN up[p] : ~Third(up[p][i])

OrderInv == TypeOK /\ Unreached /\ NoneQueued /\ LineOrdered

(* Sessions are established only where the queue is drained.               *)
LEMMA HandlersDrain ==
    ASSUME TypeOK, NEW p \in Peers, NEW x \in UpPackets, Handled(p, x)
    PROVE  /\ QueuesShrink
           /\ \A q \in Peers : Established(sessions'[q]) =>
                  Established(sessions[q]) \/ DOMAIN pendingSends'[q] = {}
<1>1. pendingSends \in [Peers -> Seq(Queued)]
  BY DEF TypeOK, Queued
<1>2. \A m : Establish(p, m) => QueuesShrink /\ DOMAIN pendingSends'[p] = {}
  BY <1>1 DEF Establish, Emptied, QueuesShrink
<1>3. HandleLeave(p) => QueuesShrink
  BY DEF HandleLeave, DropPeers, QueuesShrink
<1>4. UNCHANGED pendingSends => QueuesShrink
  BY DEF QueuesShrink
<1>5. QueuesShrink
  BY <1>2, <1>3, <1>4, HandlersQuiet
<1>6. QED
  BY <1>2, <1>5, HandlersEstablish DEF NothingEstablished

(* Without a subscriber a handler sends nothing.                           *)
LEMMA HandlersUnreached ==
    ASSUME ~reachable, NEW p \in Peers, NEW x \in UpPackets, Handled(p, x)
    PROVE  down' = down
<1>1. \A s : Sent(p, s) = down /\ ToAll(s) = down
  BY DEF Sent, ToAll
<1>2. HandleNoiseHandshake(p, x.m) => down' = down
  BY <1>1 DEF HandleNoiseHandshake, IgnoreHandshake, ResendMsg2, FailHandshake, Establish, AnswerMsg1
<1>3. HandleNoiseEncrypted(p, x.keys, x.body) => down' = down
  BY <1>1 DEF HandleNoiseEncrypted, NoSession, Undecryptable, Decrypted, Reset
<1>4. QED
  BY <1>1, <1>2, <1>3 DEF Handled, HandleAnnounce, HandleRequestSync, HandleLeave, DropPeers,
                          HandlePublic, Echo

(* Handlers leave it to the phones whether there is a subscriber.          *)
LEMMA HandlersKeepReach ==
    ASSUME NEW p \in Peers, NEW x \in UpPackets, Handled(p, x)
    PROVE  reachable' = reachable
<1> USE DEF link, rest
<1>1. HandleNoiseHandshake(p, x.m) => reachable' = reachable
  BY DEF HandleNoiseHandshake, IgnoreHandshake, ResendMsg2, FailHandshake, Establish, AnswerMsg1
<1>2. HandleNoiseEncrypted(p, x.keys, x.body) => reachable' = reachable
  BY DEF HandleNoiseEncrypted, NoSession, Undecryptable, Decrypted
<1>3. QED
  BY <1>1, <1>2 DEF Handled, HandleAnnounce, HandleRequestSync, HandleLeave, DropPeers, HandlePublic

(* No third message is under way.                                          *)
NoThird == \A p \in Peers : \A i \in DOMAIN up[p] : ~Third(up[p][i])

(* Taking a packet adds none.                                            *)
LEMMA NoThirdTaken ==
    ASSUME TypeOK, NoThird, NEW p \in Peers, NEW i \in DOMAIN up[p],
           up' = [up EXCEPT ![p] = RemoveAt(@, i)]
    PROVE  NoThird'
<1>1. \A q \in Peers : \A j \in DOMAIN up'[q] : \E k \in DOMAIN up[q] : up'[q][j] = up[q][k]
  BY UpTaken
<1>2. QED
  BY <1>1 DEF NoThird

(* Nor does a packet that is none.                                       *)
LEMMA NoThirdSent ==
    ASSUME TypeOK, TypeOK', NoThird, NEW p \in Peers, NEW x, Send(p, <<x>>), ~Third(x)
    PROVE  NoThird'
<1>1. up[p] \in Seq(UpPackets) /\ up'[p] = up[p] \o <<x>> /\ up'[p] \in Seq(UpPackets)
  BY DEF Send, TypeOK
<1>2. x \in UpPackets
  BY <1>1
<1>3. \A q \in Peers : \A j \in DOMAIN up'[q] :
          (q = p /\ up'[q][j] = x) \/ (j \in DOMAIN up[q] /\ up'[q][j] = up[q][j])
  BY <1>2, UpSent
<1>4. QED
  BY <1>3 DEF NoThird

(* Only Subscribe makes a phone reachable, and it sends no handshake.    *)
LEMMA UnreachedNext ==
    ASSUME KeepsOrder, TypeOK, TypeOK', Unreached, [Next]_vars
    PROVE  Unreached'
<1> USE DEF smVars, handshake, registry, queues, link, rest, phoneVars
<1> SUFFICES ASSUME ~reachable' PROVE Unreached'
  BY DEF Unreached
<1>1. up \in [Peers -> Seq(UpPackets)]
  BY DEF TypeOK
<1>2. ~reachable
  <2>1. CASE UNCHANGED vars
    BY <2>1 DEF vars
  <2>2. CASE Commands
    BY <2>2 DEF Commands, Queue, SendNow, SendFile, SetNick, PeriodicAnnounce, Broadcast, Subscribe
  <2>3. CASE Clock
    BY <2>3 DEF Clock, PeerTimeout, DropPeers, Silence, CooldownEnds, QueueAges, SessionAges,
                CancelPendingSends, KeepsOrder
  <2>4. CASE Phones
    BY <2>4 DEF Phones, PhoneAnnounce, PhoneStart, PhoneRetry, PhoneAsks, PhoneChats, PhoneLeaves,
                PhoneReinstalls, PhoneWrites
  <2>5. CASE Link
    <3>1. PICK p \in Peers : DeliverUp(p) \/ DeliverDown(p) \/ LoseUp(p) \/ LoseDown(p)
      BY <2>5 DEF Link
    <3>2. CASE DeliverUp(p)
      BY <1>1, <3>2, Delivered, HandlersKeepReach
    <3>3. CASE DeliverDown(p) \/ LoseUp(p) \/ LoseDown(p)
      BY <3>3 DEF DeliverDown, LoseUp, LoseDown
    <3>4. QED
      BY <3>1, <3>2, <3>3
  <2> QED BY <2>1, <2>2, <2>3, <2>4, <2>5 DEF Next
<1>3. /\ NoThird
      /\ \A p \in Peers : down[p] = <<>> /\ ~Established(sessions[p])
  BY <1>2 DEF Unreached, NoThird
<1>4. \A p \in Peers : DOMAIN down[p] = {}
  BY <1>3
<1>5. NothingEstablished /\ down' = down /\ NoThird' => Unreached'
  BY <1>3 DEF NothingEstablished, Unreached, NoThird
<1>6. \A p, s : Sent(p, s) = down /\ ToAll(s) = down
  BY <1>2 DEF Sent, ToAll
<1>7. UNCHANGED sessions => NothingEstablished
  BY DEF NothingEstablished
<1>8. UNCHANGED up => NoThird'
  BY <1>3 DEF NoThird
<1>9. CASE Commands
  <2>1. down' = down /\ up' = up
    BY <1>2, <1>6, <1>9 DEF Commands, Queue, SendNow, SendFile, SetNick, PeriodicAnnounce, Broadcast,
                            Subscribe
  <2>2. QED
    BY <1>5, <1>8, <1>9, <2>1, DaemonEstablishesNothing
<1>10. CASE Clock
  <2>1. down' = down /\ up' = up
    BY <1>10 DEF Clock, PeerTimeout, DropPeers, Silence, CooldownEnds, QueueAges, SessionAges,
                 CancelPendingSends, Unsubscribe
  <2>2. QED
    BY <1>5, <1>8, <1>10, <2>1, DaemonEstablishesNothing
<1>11. CASE Phones
  <2>1. PICK p \in Peers :
        \/ PhoneAnnounce(p) \/ PhoneStart(p) \/ PhoneRetry(p) \/ PhoneAsks(p)
        \/ PhoneChats(p) \/ PhoneLeaves(p) \/ PhoneReinstalls(p)
        \/ \E m \in Letters : PhoneWrites(p, m)
    BY <1>11 DEF Phones
  <2>2. UNCHANGED <<sessions, down>>
    BY <2>1 DEF PhoneAnnounce, PhoneStart, PhoneRetry, PhoneAsks, PhoneChats, PhoneLeaves,
                PhoneReinstalls, PhoneWrites
  <2>3. NoThird'
    BY <1>3, <1>8, <2>1, PhonesSend, NoThirdSent
  <2>4. QED
    BY <1>5, <1>7, <2>2, <2>3
<1>12. CASE Link
  <2>1. PICK p \in Peers : DeliverUp(p) \/ DeliverDown(p) \/ LoseUp(p) \/ LoseDown(p)
    BY <1>12 DEF Link
  <2>2. CASE DeliverUp(p)
    <3>1. PICK i \in DOMAIN up[p] :
              /\ up[p][i] \in UpPackets
              /\ up' = [up EXCEPT ![p] = RemoveAt(@, i)]
              /\ Handled(p, up[p][i])
      BY <1>1, <2>2, Delivered
    <3>2. ~Third(up[p][i])
      BY <1>3 DEF NoThird
    <3>3. NothingEstablished
      BY <3>1, <3>2, HandlersEstablish
    <3>4. down' = down
      BY <1>2, <3>1, HandlersUnreached
    <3>5. NoThird'
      BY <1>3, <3>1, NoThirdTaken
    <3>6. QED
      BY <1>5, <3>3, <3>4, <3>5
  <2>3. CASE LoseUp(p)
    <3>1. PICK i \in DOMAIN up[p] : up' = [up EXCEPT ![p] = RemoveAt(@, i)]
      BY <2>3 DEF LoseUp
    <3>2. NoThird' /\ UNCHANGED <<sessions, down>>
      BY <1>3, <2>3, <3>1, NoThirdTaken DEF LoseUp
    <3>3. QED
      BY <1>5, <1>7, <3>2
  <2>4. ~DeliverDown(p) /\ ~LoseDown(p)
    BY <1>4 DEF DeliverDown, LoseDown, Next1
  <2>5. QED
    BY <2>1, <2>2, <2>3, <2>4
<1>13. CASE UNCHANGED vars
  BY <1>5, <1>7, <1>8, <1>13 DEF vars
<1>14. QED
  BY <1>9, <1>10, <1>11, <1>12, <1>13 DEF Next

(* A text is queued only where there is no session, or nobody subscribed.*)
LEMMA NoneQueuedNext ==
    ASSUME TypeOK, Unreached, NoneQueued, [Next]_vars
    PROVE  NoneQueued'
<1> USE DEF smVars, handshake, registry, queues, link, rest, phoneVars
<1>1. pendingSends \in [Peers -> Seq(Queued)]
  BY DEF TypeOK, Queued
<1>2. QueuesShrink /\ NothingEstablished => NoneQueued'
  BY DEF QueuesShrink, NothingEstablished, NoneQueued
<1>3. UNCHANGED pendingSends => QueuesShrink
  BY DEF QueuesShrink
<1>4. UNCHANGED sessions => NothingEstablished
  BY DEF NothingEstablished
<1>5. CASE Commands
  <2>1. NothingEstablished
    BY <1>5, DaemonEstablishesNothing
  <2>2. ASSUME NEW t \in Texts, Queue(t) PROVE NoneQueued'
    <3>1. ~Established(sessions[To[t]])
      BY <2>2, TextsAssumption DEF Queue, Unreached
    <3>2. /\ sessions' = sessions
          /\ \A q \in Peers \ {To[t]} : pendingSends'[q] = pendingSends[q]
      BY <1>1, <2>2 DEF Queue
    <3>3. QED
      BY <3>1, <3>2 DEF NoneQueued
  <2>3. ASSUME NEW t \in Texts, SendNow(t) \/ SendFile(t) PROVE NoneQueued'
    BY <1>2, <1>3, <2>1, <2>3 DEF SendNow, SendFile
  <2>4. ASSUME SetNick \/ PeriodicAnnounce \/ Broadcast \/ Subscribe PROVE NoneQueued'
    BY <1>2, <1>3, <2>1, <2>4, PlainCommands
  <2>5. QED
    BY <1>5, <2>2, <2>3, <2>4 DEF Commands
<1>6. CASE Clock
  BY <1>2, <1>6, ClockShrinks, DaemonEstablishesNothing
<1>7. CASE Phones
  <2>1. UNCHANGED <<sessions, pendingSends>>
    BY <1>7 DEF Phones, PhoneAnnounce, PhoneStart, PhoneRetry, PhoneAsks, PhoneChats, PhoneLeaves,
                PhoneReinstalls, PhoneWrites
  <2>2. QED
    BY <1>2, <1>3, <1>4, <2>1
<1>8. CASE Link
  <2>1. PICK p \in Peers : DeliverUp(p) \/ DeliverDown(p) \/ LoseUp(p) \/ LoseDown(p)
    BY <1>8 DEF Link
  <2>2. CASE DeliverUp(p)
    <3>1. PICK i \in DOMAIN up[p] : up[p][i] \in UpPackets /\ Handled(p, up[p][i])
      BY <2>2, Delivered DEF TypeOK
    <3>2. /\ QueuesShrink
          /\ \A q \in Peers : Established(sessions'[q]) =>
                 Established(sessions[q]) \/ DOMAIN pendingSends'[q] = {}
      BY <3>1, HandlersDrain
    <3>3. QED
      BY <3>2 DEF QueuesShrink, NoneQueued
  <2>3. CASE DeliverDown(p) \/ LoseUp(p) \/ LoseDown(p)
    <3>1. UNCHANGED <<sessions, pendingSends>>
      BY <2>3 DEF DeliverDown, LoseUp, LoseDown
    <3>2. QED
      BY <1>2, <1>3, <1>4, <3>1
  <2>4. QED
    BY <2>1, <2>2, <2>3
<1>9. CASE UNCHANGED vars
  BY <1>2, <1>3, <1>4, <1>9 DEF vars
<1>10. QED
  BY <1>5, <1>6, <1>7, <1>8, <1>9 DEF Next

(* Every step keeps the lines in the order of the commands.              *)
LEMMA LineOrderedNext ==
    ASSUME KeepsOrder, TypeOK, NoneQueued, LineOrdered, [Next]_vars
    PROVE  LineOrdered'
<1> USE DEF smVars, handshake, registry, queues, link, rest, phoneVars
<1>1. ASSUME ordered' = ordered, \A q \in Peers : Moved(q)
      PROVE  LineOrdered'
  <2> SUFFICES ASSUME NEW p \in Peers, NEW a \in Texts, NEW b \in Texts
               PROVE  /\ OnLine(p, a)' => Asked(a)'
                      /\ Precedes(p, a, b)' => AskedBefore(a, b)'
    BY DEF LineOrdered
  <2>1. Moved(p)
    BY <1>1
  <2>2. /\ OnLine(p, a)' => OnLine(p, a)
        /\ Precedes(p, a, b)' => Precedes(p, a, b)
    BY <2>1 DEF Moved
  <2>3. /\ OnLine(p, a) => Asked(a)
        /\ Precedes(p, a, b) => AskedBefore(a, b)
    BY DEF LineOrdered
  <2>4. (Asked(a) => Asked(a)') /\ (AskedBefore(a, b) => AskedBefore(a, b)')
    BY <1>1 DEF Asked, AskedBefore
  <2>5. QED
    BY <2>2, <2>3, <2>4
<1>2. ASSUME NEW t \in Texts, ordered' = Append(ordered, t), \A q \in Peers : MovedBehind(q, t)
      PROVE  LineOrdered'
  <2> SUFFICES ASSUME NEW p \in Peers, NEW a \in Texts, NEW b \in Texts
               PROVE  /\ OnLine(p, a)' => Asked(a)'
                      /\ Precedes(p, a, b)' => AskedBefore(a, b)'
    BY DEF LineOrdered
  <2> DEFINE n == Len(ordered)
  <2>1. MovedBehind(p, t)
    BY <1>2
  <2>2. /\ OnLine(p, a)' => OnLine(p, a) \/ a = t
        /\ Precedes(p, a, b)' => Precedes(p, a, b) \/ (OnLine(p, a) /\ b = t)
    BY <2>1 DEF MovedBehind
  <2>3. /\ OnLine(p, a) => Asked(a)
        /\ Precedes(p, a, b) => AskedBefore(a, b)
    BY DEF LineOrdered
  <2>4. /\ n \in Nat /\ DOMAIN ordered = 1 .. n /\ DOMAIN ordered' = 1 .. n + 1
        /\ \A k \in 1 .. n : ordered'[k] = ordered[k]
        /\ ordered'[n + 1] = t
    BY <1>2, AppendProperties DEF TypeOK
  <2> HIDE DEF n
  <2>5. Asked(a) => Asked(a)'
    BY <2>4 DEF Asked
  <2>6. AskedBefore(a, b) => AskedBefore(a, b)'
    BY <2>4 DEF AskedBefore
  <2>7. a = t => Asked(a)'
    BY <2>4 DEF Asked
  <2>8. Asked(a) /\ b = t => AskedBefore(a, b)'
    BY <2>4 DEF Asked, AskedBefore
  <2>9. QED
    BY <2>2, <2>3, <2>5, <2>6, <2>7, <2>8
<1>3. CASE Commands
  BY <1>1, <1>2, <1>3, CommandsMove
<1>4. CASE Clock
  BY <1>1, <1>4, ClockMoves DEF Clock
<1>5. CASE Phones \/ UNCHANGED vars
  <2>1. UNCHANGED <<heard, down, pendingSends, ordered>>
    BY <1>5 DEF vars, Phones, PhoneAnnounce, PhoneStart, PhoneRetry, PhoneAsks, PhoneChats,
                PhoneLeaves, PhoneReinstalls, PhoneWrites
  <2>2. NoTextSent /\ QueuesShrink
    BY <2>1 DEF NoTextSent, QueuesShrink
  <2>3. QED
    BY <1>1, <2>1, <2>2, QuietStands, StandingMoves
<1>6. CASE Link
  <2>1. ordered' = ordered
    BY <1>6 DEF Link, DeliverUp, DeliverDown, LoseUp, LoseDown
  <2>2. QED
    BY <1>1, <1>6, <2>1, LinkMoves
<1>7. QED
  BY <1>3, <1>4, <1>5, <1>6 DEF Next

(* At first every line is empty.                                         *)
LEMMA OrderInit == Init => OrderInv
<1> SUFFICES ASSUME Init PROVE OrderInv
  OBVIOUS
<1>1. Unreached /\ NoneQueued
  BY DEF Init, SMInit, Unreached, NoneQueued, Established
<1>2. LineOrdered
  BY DEF Init, SMInit, LineOrdered, OnLine, Precedes, HeardAt, UnderWayAt, QueuedAt
<1>3. QED
  BY <1>1, <1>2, TypeInit DEF OrderInv

(* A phone hears the texts for it in the order of their send commands,     *)
(* whether they were queued or sent at once (InOrder).                     *)
THEOREM TextsInOrder == ASSUME KeepsOrder PROVE Spec => []InOrder
<1>1. OrderInv /\ [Next]_vars => OrderInv'
  BY TypeNext, UnreachedNext, NoneQueuedNext, LineOrderedNext DEF OrderInv
<1>2. OrderInv => InOrder
  <2> SUFFICES ASSUME OrderInv, NEW p \in Peers, NEW i \in DOMAIN heard[p], NEW j \in DOMAIN heard[p],
                      i < j
               PROVE  \E k, l \in DOMAIN ordered :
                          k < l /\ ordered[k] = heard[p][i] /\ ordered[l] = heard[p][j]
    BY DEF InOrder
  <2> DEFINE a == heard[p][i]
             b == heard[p][j]
  <2>1. heard[p] \in Seq(Texts)
    BY DEF OrderInv, TypeOK
  <2>2. i \in Nat /\ j \in Nat /\ a \in Texts /\ b \in Texts
    BY <2>1, ElementOfSeq
  <2>3. HeardAt(p, i, a) /\ HeardAt(p, j, b)
    BY DEF HeardAt
  <2> HIDE DEF a, b
  <2>4. Precedes(p, a, b)
    BY <2>2, <2>3 DEF Precedes
  <2>5. AskedBefore(a, b)
    BY <2>2, <2>4 DEF OrderInv, LineOrdered
  <2>6. QED
    BY <2>5 DEF AskedBefore, a, b
<1>3. QED
  BY <1>1, <1>2, OrderInit, PTL DEF Spec

-----------------------------------------------------------------------------
(* Sessions that both ends share last.                                     *)

(* A link that keeps order, and phones that keep their Noise key.          *)
KeepsKeys == "reorder" \notin May /\ MaxInstalls = 1

(* No session has renewed its keys: each end does it by its own count.     *)
NoneRenewed == \A p \in Peers : Established(sessions[p]) => sessions[p].epoch = 0

(* What a phone that is up may send before it gives its session up.        *)
Follows(p, x) ==
    /\ x.type \notin {"handshake", "leave"}
    /\ x.type = "noise" => x.keys = [ei |-> phone[p].ei, er |-> phone[p].er, epoch |-> 0]

(* A phone draws a key it has not finished a handshake with.               *)
Young(p) ==
    /\ \A d \in derived[p] : d[1] \in 1 .. fresh
    /\ phone[p].st = "waiting" => /\ phone[p].ei \in 1 .. fresh
                                  /\ \A d \in derived[p] : d[1] # phone[p].ei

(* Behind the third message of a phone's handshake, and once the Pi has    *)
(* read it, there is nothing on the line that would end the session.       *)
ThirdIsLast(p) ==
    \A i, j \in DOMAIN up[p] :
        i < j /\ Third(up[p][i]) /\ up[p][i].m.ei = phone[p].ei => Follows(p, up[p][j])

NothingElse(p) == \A i \in DOMAIN up[p] : Follows(p, up[p][i])

InLine(p) ==
    phone[p].st = "up" =>
        /\ ThirdIsLast(p)
        /\ Established(sessions[p]) /\ sessions[p].ei = phone[p].ei => NothingElse(p)

SharedInv == AgreementInv /\ \A p \in Peers : Young(p) /\ InLine(p)

(* If p's session is established it was, under the same key of the phone's. *)
NotEstablished(p) ==
    Established(sessions'[p]) => Established(sessions[p]) /\ sessions'[p].ei = sessions[p].ei

SameKeys(p) == phone'[p].st = phone[p].st /\ phone'[p].ei = phone[p].ei /\ phone'[p].er = phone[p].er

(* What follows still follows when the phone keeps its session.            *)
LEMMA FollowsStill ==
    ASSUME NEW p \in Peers, SameKeys(p), NEW x, Follows(p, x)
    PROVE  Follows(p, x)'
  BY DEF Follows, SameKeys

LEMMA LineUntouched ==
    ASSUME TypeOK, NEW p \in Peers, InLine(p), SameKeys(p), up'[p] = up[p], NotEstablished(p)
    PROVE  InLine(p)'
<1> SUFFICES ASSUME phone'[p].st = "up"
             PROVE  /\ ThirdIsLast(p)'
                    /\ Established(sessions'[p]) /\ sessions'[p].ei = phone'[p].ei => NothingElse(p)'
  BY DEF InLine
<1>1. phone[p].st = "up" /\ phone'[p].ei = phone[p].ei /\ phone'[p].er = phone[p].er
  BY DEF SameKeys
<1>2. \A x : Follows(p, x) => Follows(p, x)'
  BY FollowsStill
<1>3. ThirdIsLast(p)'
  BY <1>1, <1>2 DEF InLine, ThirdIsLast
<1>4. Established(sessions'[p]) /\ sessions'[p].ei = phone'[p].ei => NothingElse(p)'
  BY <1>1, <1>2 DEF InLine, NothingElse, NotEstablished
<1>5. QED
  BY <1>3, <1>4

(* The same when a packet leaves the line,                                 *)
LEMMA LineTaken ==
    ASSUME TypeOK, NEW p \in Peers, InLine(p), SameKeys(p), NEW i \in DOMAIN up[p],
           up'[p] = RemoveAt(up[p], i),
           \/ NotEstablished(p)
           \/ i = 1 /\ Third(up[p][1]) /\ sessions'[p].ei = up[p][1].m.ei
    PROVE  InLine(p)'
<1> SUFFICES ASSUME phone'[p].st = "up"
             PROVE  /\ ThirdIsLast(p)'
                    /\ Established(sessions'[p]) /\ sessions'[p].ei = phone'[p].ei => NothingElse(p)'
  BY DEF InLine
<1>1. phone[p].st = "up" /\ phone'[p].ei = phone[p].ei /\ phone'[p].er = phone[p].er
  BY DEF SameKeys
<1>2. \A x : Follows(p, x) => Follows(p, x)'
  BY FollowsStill
<1>3. up[p] \in Seq(UpPackets) /\ DOMAIN up[p] = 1 .. Len(up[p]) /\ Len(up[p]) \in Nat
  BY DEF TypeOK
<1>4. /\ DOMAIN up'[p] = 1 .. Len(up[p]) - 1
      /\ \A j \in 1 .. Len(up[p]) - 1 : up'[p][j] = IF j < i THEN up[p][j] ELSE up[p][j + 1]
  <2> DEFINE q == RemoveAt(up[p], i)
  <2>1. /\ q \in Seq(UpPackets) /\ Len(q) = Len(up[p]) - 1
        /\ \A j \in 1 .. Len(up[p]) - 1 : q[j] = IF j < i THEN up[p][j] ELSE up[p][j + 1]
    BY <1>3, RemoveAtType
  <2>2. up'[p] = q
    OBVIOUS
  <2> HIDE DEF q
  <2>3. DOMAIN q = 1 .. Len(up[p]) - 1
    BY <2>1
  <2>4. QED
    BY <2>1, <2>2, <2>3
<1>5. ThirdIsLast(p)
  BY <1>1 DEF InLine
<1>6. ThirdIsLast(p)'
  <2> SUFFICES ASSUME NEW j \in 1 .. Len(up[p]) - 1, NEW k \in 1 .. Len(up[p]) - 1, j < k,
                      Third(up'[p][j]), up'[p][j].m.ei = phone[p].ei
               PROVE  Follows(p, up'[p][k])
    BY <1>1, <1>2, <1>4 DEF ThirdIsLast
  <2> DEFINE a == IF j < i THEN j ELSE j + 1
             b == IF k < i THEN k ELSE k + 1
  <2>1. a \in DOMAIN up[p] /\ b \in DOMAIN up[p] /\ a < b
    BY <1>3
  <2>2. up'[p][j] = up[p][a] /\ up'[p][k] = up[p][b]
    BY <1>4
  <2> HIDE DEF a, b
  <2>3. QED
    BY <1>5, <2>1, <2>2 DEF ThirdIsLast
<1>7. ASSUME Established(sessions'[p]), sessions'[p].ei = phone'[p].ei PROVE NothingElse(p)'
  <2>1. CASE NotEstablished(p)
    <3>1. NothingElse(p)
      BY <1>1, <1>7, <2>1 DEF InLine, NotEstablished
    <3>2. \A j \in DOMAIN up'[p] : \E k \in DOMAIN up[p] : up'[p][j] = up[p][k]
      <4> SUFFICES ASSUME NEW j \in 1 .. Len(up[p]) - 1 PROVE \E k \in DOMAIN up[p] : up'[p][j] = up[p][k]
        BY <1>4
      <4>1. j \in DOMAIN up[p] /\ j + 1 \in DOMAIN up[p]
        BY <1>3
      <4>2. QED
        BY <1>4, <4>1
    <3>3. QED
      BY <1>2, <3>1, <3>2 DEF NothingElse
  <2>2. CASE i = 1 /\ Third(up[p][1]) /\ sessions'[p].ei = up[p][1].m.ei
    <3>1. \A j \in DOMAIN up'[p] : j + 1 \in DOMAIN up[p] /\ 1 < j + 1 /\ up'[p][j] = up[p][j + 1]
      BY <1>3, <1>4, <2>2
    <3>2. 1 \in DOMAIN up[p]
      BY <2>2
    <3>3. \A j \in DOMAIN up'[p] : Follows(p, up'[p][j])
      BY <1>1, <1>5, <1>7, <2>2, <3>1, <3>2 DEF ThirdIsLast
    <3>4. QED
      BY <1>2, <3>3 DEF NothingElse
  <2>3. QED
    BY <2>1, <2>2
<1>8. QED
  BY <1>6, <1>7

(* and when the phone sends one that follows.                              *)
LEMMA LineLonger ==
    ASSUME TypeOK, NEW p \in Peers, InLine(p), SameKeys(p), NEW x \in UpPackets, Send(p, <<x>>),
           phone[p].st = "up" => Follows(p, x), NotEstablished(p)
    PROVE  InLine(p)'
<1> SUFFICES ASSUME phone'[p].st = "up"
             PROVE  /\ ThirdIsLast(p)'
                    /\ Established(sessions'[p]) /\ sessions'[p].ei = phone'[p].ei => NothingElse(p)'
  BY DEF InLine
<1>1. phone[p].st = "up" /\ phone'[p].ei = phone[p].ei /\ phone'[p].er = phone[p].er
  BY DEF SameKeys
<1>2. \A y : Follows(p, y) => Follows(p, y)'
  BY FollowsStill
<1>3. \A j \in DOMAIN up'[p] : up'[p][j] = x \/ (j \in DOMAIN up[p] /\ up'[p][j] = up[p][j])
  BY UpSent
<1>4. ~Third(x) /\ Follows(p, x)
  BY <1>1 DEF Follows, Third
<1>5. ThirdIsLast(p)'
  BY <1>1, <1>2, <1>3, <1>4 DEF InLine, ThirdIsLast
<1>6. Established(sessions'[p]) /\ sessions'[p].ei = phone'[p].ei => NothingElse(p)'
  BY <1>1, <1>2, <1>3, <1>4 DEF InLine, NothingElse, NotEstablished
<1>7. QED
  BY <1>5, <1>6

(* A phone that has just finished its handshake says so, once.             *)
LEMMA LineBegins ==
    ASSUME AgreementInv, NEW p \in Peers, Young(p), phone[p].st = "waiting",
           NEW m \in Messages, m.ei = phone[p].ei, Send(p, <<Handshake(Msg3(m.ei, m.er))>>),
           phone'[p].ei = phone[p].ei, sessions' = sessions
    PROVE  InLine(p)'
<1> DEFINE x == Handshake(Msg3(m.ei, m.er))
<1>1. x \in UpPackets
  BY SessionTypes, PacketTypes DEF Messages
<1> HIDE DEF x
<1>2. up[p] \in Seq(UpPackets) /\ Len(up[p]) \in Nat /\ DOMAIN up[p] = 1 .. Len(up[p])
  BY DEF AgreementInv, TypeOK
<1>3. up'[p] = Append(up[p], x)
  BY <1>2, AppendIsConcat DEF Send, AgreementInv, TypeOK, x
<1>4. \A i \in DOMAIN up'[p] : (i \in DOMAIN up[p] /\ up'[p][i] = up[p][i]) \/ i = Len(up[p]) + 1
  BY <1>1, <1>2, <1>3, AppendProperties
<1>5. \A i \in DOMAIN up[p] : Third(up[p][i]) => up[p][i].m.ei # phone[p].ei
  BY DEF Young, AgreementInv, Evidence
<1>6. DOMAIN up'[p] = 1 .. Len(up[p]) + 1
  BY <1>1, <1>2, <1>3, AppendProperties
<1>7. ThirdIsLast(p)'
  BY <1>2, <1>4, <1>5, <1>6 DEF ThirdIsLast
<1>8. ~(Established(sessions'[p]) /\ sessions'[p].ei = phone'[p].ei)
  BY DEF Young, AgreementInv, Agreement
<1>9. QED
  BY <1>7, <1>8 DEF InLine

-----------------------------------------------------------------------------
(* Keys are drawn in turn.                                                 *)
LEMMA KeysGrow ==
    ASSUME TypeOK, [Next]_vars
    PROVE  fresh' \in Nat /\ fresh <= fresh'
<1> USE DEF smVars, handshake, registry, queues, link, rest, phoneVars
<1>1. fresh \in Nat /\ up \in [Peers -> Seq(UpPackets)]
  BY DEF TypeOK
<1>2. fresh' = fresh \/ fresh' = fresh + 1
  <2>1. CASE UNCHANGED vars
    BY <2>1 DEF vars
  <2>2. CASE Commands
    BY <2>2 DEF Commands, Queue, SendNow, SendFile, SetNick, PeriodicAnnounce, Broadcast, Subscribe
  <2>3. CASE Clock
    BY <2>3 DEF Clock, PeerTimeout, DropPeers, Silence, CooldownEnds, QueueAges, SessionAges,
                CancelPendingSends, Unsubscribe
  <2>4. CASE Phones
    BY <2>4 DEF Phones, PhoneAnnounce, PhoneStart, PhoneRetry, PhoneAsks, PhoneChats, PhoneLeaves,
                PhoneReinstalls, PhoneWrites, NextKey
  <2>5. CASE Link
    <3>1. PICK p \in Peers : DeliverUp(p) \/ DeliverDown(p) \/ LoseUp(p) \/ LoseDown(p)
      BY <2>5 DEF Link
    <3>2. CASE DeliverUp(p)
      <4>1. PICK x : Handled(p, x)
        BY <1>1, <3>2, Delivered
      <4>2. HandleAnnounce(p, x.pub) \/ HandleRequestSync(p) \/ HandleLeave(p) \/ HandlePublic(p)
                => fresh' = fresh
        BY DEF HandleAnnounce, HandleRequestSync, HandleLeave, HandlePublic, DropPeers
      <4>3. HandleNoiseEncrypted(p, x.keys, x.body) => fresh' = fresh
        BY DEF HandleNoiseEncrypted, NoSession, Undecryptable, Decrypted
      <4>4. HandleNoiseHandshake(p, x.m) => fresh' = fresh \/ fresh' = fresh + 1
        BY DEF HandleNoiseHandshake, IgnoreHandshake, ResendMsg2, FailHandshake, Establish,
               AnswerMsg1, NextKey
      <4>5. QED
        BY <4>1, <4>2, <4>3, <4>4 DEF Handled
    <3>3. CASE DeliverDown(p) \/ LoseUp(p) \/ LoseDown(p)
      BY <3>3 DEF DeliverDown, LoseUp, LoseDown
    <3>4. QED
      BY <3>1, <3>2, <3>3
  <2> QED BY <2>1, <2>2, <2>3, <2>4, <2>5 DEF Next
<1>3. QED
  BY <1>1, <1>2

(* A phone stays young while it draws no key and finishes no handshake.    *)
LEMMA YoungStays ==
    ASSUME TypeOK, NEW p \in Peers, Young(p), fresh' \in Nat, fresh <= fresh', derived'[p] = derived[p],
           phone'[p].st = "waiting" => phone[p].st = "waiting" /\ phone'[p].ei = phone[p].ei
    PROVE  Young(p)'
<1>1. fresh \in Nat
  BY DEF TypeOK
<1>2. \A e \in 1 .. fresh : e \in 1 .. fresh'
  BY <1>1
<1>3. QED
  BY <1>2 DEF Young

(* What a phone does of its own accord: it draws a key, gives up, or sends *)
(* what may follow.                                                        *)
LEMMA PhonesInLine ==
    ASSUME SharedInv, TypeOK', [Next]_vars, Phones
    PROVE  \A q \in Peers : Young(q)' /\ InLine(q)'
<1> USE DEF smVars, handshake, registry, queues, link, rest, phoneVars
<1>1. TypeOK /\ AgreementInv /\ \A q \in Peers : Young(q) /\ InLine(q)
  BY DEF SharedInv, AgreementInv
<1>2. fresh' \in Nat /\ fresh <= fresh' /\ fresh \in Nat
  BY <1>1, KeysGrow DEF TypeOK
<1>3. PICK p \in Peers :
        \/ PhoneAnnounce(p) \/ PhoneStart(p) \/ PhoneRetry(p) \/ PhoneAsks(p)
        \/ PhoneChats(p) \/ PhoneLeaves(p) \/ PhoneReinstalls(p)
        \/ \E m \in Letters : PhoneWrites(p, m)
  BY DEF Phones
<1>4. UNCHANGED <<sessions, derived>>
  BY <1>3 DEF PhoneAnnounce, PhoneStart, PhoneRetry, PhoneAsks, PhoneChats, PhoneLeaves,
              PhoneReinstalls, PhoneWrites
<1>5. \A q \in Peers : NotEstablished(q)
  BY <1>4 DEF NotEstablished
<1>6. phone \in [Peers -> PhoneType] /\ up \in [Peers -> Seq(UpPackets)]
  BY <1>1 DEF TypeOK
<1>7. ASSUME NEW q \in Peers \ {p} PROVE Young(q)' /\ InLine(q)'
  <2>1. phone'[q] = phone[q] /\ up'[q] = up[q]
    BY <1>3, <1>6, <1>7 DEF PhoneAnnounce, PhoneStart, PhoneRetry, PhoneAsks, PhoneChats, PhoneLeaves,
                PhoneReinstalls, PhoneWrites, Send
  <2>2. SameKeys(q)
    BY <2>1 DEF SameKeys
  <2>3. Young(q)'
    BY <1>1, <1>2, <1>4, <2>1, YoungStays
  <2>4. QED
    BY <1>1, <1>5, <2>1, <2>2, <2>3, LineUntouched
<1>8. ASSUME SameKeys(p) PROVE Young(p)'
  BY <1>1, <1>2, <1>4, <1>8, YoungStays DEF SameKeys
<1>9. ASSUME NEW x, Send(p, <<x>>) PROVE x \in UpPackets
  <2>1. up'[p] = up[p] \o <<x>> /\ up'[p] \in Seq(UpPackets) /\ up[p] \in Seq(UpPackets)
    BY <1>6, <1>9 DEF Send, TypeOK
  <2>2. QED
    BY <2>1
<1>10. ASSUME SameKeys(p), NEW x, Send(p, <<x>>), phone[p].st = "up" => Follows(p, x)
       PROVE  Young(p)' /\ InLine(p)'
  BY <1>1, <1>5, <1>8, <1>9, <1>10, LineLonger
<1>11. CASE PhoneAnnounce(p)
  <2>1. SameKeys(p) /\ Send(p, <<Hello(p)>>)
    BY <1>6, <1>11 DEF PhoneAnnounce, SameKeys, PhoneType
  <2>2. Follows(p, Hello(p))
    BY DEF Follows, Hello
  <2>3. QED
    BY <1>7, <1>10, <2>1, <2>2
<1>12. CASE PhoneRetry(p) \/ PhoneAsks(p) \/ PhoneChats(p)
  <2>1. SameKeys(p)
    BY <1>12 DEF PhoneRetry, PhoneAsks, PhoneChats, SameKeys
  <2>2. PhoneRetry(p) => Send(p, <<Handshake(Msg1(phone[p].ei))>>) /\ phone[p].st # "up"
    BY DEF PhoneRetry
  <2>3. PhoneAsks(p) => Send(p, <<[type |-> "sync"]>>) /\ Follows(p, [type |-> "sync"])
    BY DEF PhoneAsks, Follows
  <2>4. PhoneChats(p) => Send(p, <<CHAT>>) /\ Follows(p, CHAT)
    BY DEF PhoneChats, Follows, CHAT
  <2>5. QED
    BY <1>7, <1>10, <1>12, <2>1, <2>2, <2>3, <2>4
<1>13. ASSUME NEW m \in Letters, PhoneWrites(p, m) PROVE Young(p)' /\ InLine(p)'
  <2> DEFINE k == [ei |-> phone[p].ei, er |-> phone[p].er, epoch |-> 0]
  <2>1. SameKeys(p)
    BY <1>13 DEF PhoneWrites, SameKeys
  <2>2. \E b : Send(p, <<Noise(k, b)>>)
    BY <1>13 DEF PhoneWrites
  <2>3. \A b : Follows(p, Noise(k, b))
    BY DEF Follows, Noise
  <2> HIDE DEF k
  <2>4. QED
    BY <1>10, <2>1, <2>2, <2>3
<1>14. CASE PhoneLeaves(p) \/ PhoneReinstalls(p)
  <2>1. phone'[p].st = "idle"
    <3>1. \A ph \in PhoneType : Dropped(ph).st = "idle"
      BY DEF Dropped, PhoneType
    <3>2. NewPhone.st = "idle"
      BY DEF NewPhone
    <3>3. phone' = [phone EXCEPT ![p] = Dropped(phone[p])] \/ phone' = [phone EXCEPT ![p] = NewPhone]
      BY <1>14 DEF PhoneLeaves, PhoneReinstalls
    <3>4. QED
      BY <1>6, <3>1, <3>2, <3>3
  <2>2. Young(p)' /\ InLine(p)'
    BY <1>1, <1>2, <1>4, <2>1, YoungStays DEF InLine
  <2>3. QED
    BY <1>7, <2>2
<1>15. CASE PhoneStart(p)
  <2>1. phone'[p].st = "waiting" /\ phone'[p].ei = fresh + 1 /\ fresh' = fresh + 1
    BY <1>6, <1>15 DEF PhoneStart, NextKey, PhoneType
  <2>2. \A d \in derived[p] : d[1] \in 1 .. fresh
    BY <1>1 DEF Young
  <2>3. \A e \in 1 .. fresh : e \in 1 .. fresh + 1 /\ e # fresh + 1
    BY <1>2
  <2>4. fresh + 1 \in 1 .. fresh + 1
    BY <1>2
  <2>5. Young(p)'
    BY <1>4, <2>1, <2>2, <2>3, <2>4 DEF Young
  <2>6. InLine(p)'
    BY <2>1 DEF InLine
  <2>7. QED
    BY <1>7, <2>5, <2>6
<1>16. QED
  BY <1>3, <1>7, <1>11, <1>12, <1>13, <1>14, <1>15

(* What the link does: on one that keeps order, the packet behind which    *)
(* nothing ends the session is read only when it is the first.             *)
LEMMA LinkInLine ==
    ASSUME "reorder" \notin May, SharedInv, [Next]_vars, Link
    PROVE  \A q \in Peers : Young(q)' /\ InLine(q)'
<1> USE DEF smVars, handshake, registry, queues, link, rest, phoneVars
<1>1. TypeOK /\ AgreementInv /\ \A q \in Peers : Young(q) /\ InLine(q)
  BY DEF SharedInv, AgreementInv
<1>2. fresh' \in Nat /\ fresh <= fresh' /\ fresh \in Nat
  BY <1>1, KeysGrow DEF TypeOK
<1>3. PICK p \in Peers : DeliverUp(p) \/ DeliverDown(p) \/ LoseUp(p) \/ LoseDown(p)
  BY DEF Link
<1>4. /\ phone \in [Peers -> PhoneType] /\ up \in [Peers -> Seq(UpPackets)]
      /\ derived \in [Peers -> SUBSET (KeyOrNone \X KeyOrNone)] /\ down \in [Peers -> Seq(DownPackets)]
  BY <1>1 DEF TypeOK
<1>5. ASSUME NEW q \in Peers, phone'[q] = phone[q], derived'[q] = derived[q]
      PROVE  SameKeys(q) /\ Young(q)'
  BY <1>1, <1>2, <1>5, YoungStays DEF SameKeys
<1>6. ASSUME NEW q \in Peers, phone'[q] = phone[q], derived'[q] = derived[q], up'[q] = up[q],
             NotEstablished(q)
      PROVE  Young(q)' /\ InLine(q)'
  BY <1>1, <1>5, <1>6, LineUntouched
<1>7. CASE LoseUp(p)
  <2>1. PICK i \in DOMAIN up[p] : up' = [up EXCEPT ![p] = RemoveAt(@, i)]
    BY <1>7 DEF LoseUp
  <2>2. UNCHANGED <<sessions, phone, derived>>
    BY <1>7 DEF LoseUp
  <2>3. up'[p] = RemoveAt(up[p], i) /\ \A q \in Peers \ {p} : up'[q] = up[q]
    BY <1>4, <2>1
  <2>4. \A q \in Peers : NotEstablished(q)
    BY <2>2 DEF NotEstablished
  <2>5. Young(p)' /\ InLine(p)'
    BY <1>1, <1>5, <2>2, <2>3, <2>4, LineTaken
  <2>6. QED
    BY <1>6, <2>2, <2>3, <2>4, <2>5
<1>8. CASE LoseDown(p)
  <2>1. UNCHANGED <<sessions, phone, derived, up>>
    BY <1>8 DEF LoseDown
  <2>2. \A q \in Peers : NotEstablished(q)
    BY <2>1 DEF NotEstablished
  <2>3. QED
    BY <1>6, <2>1, <2>2
<1>9. CASE DeliverUp(p)
  <2>1. PICK i \in Next1(up[p]) : /\ up' = [up EXCEPT ![p] = RemoveAt(@, i)]
                                 /\ Handled(p, up[p][i])
                                 /\ UNCHANGED phoneVars
    BY <1>9 DEF DeliverUp, Handled
  <2>2. i = 1 /\ i \in DOMAIN up[p]
    BY DEF Next1
  <2>3. up[p][i] \in UpPackets
    BY <1>4, <2>2, ElementOfSeq
  <2>4. up'[p] = RemoveAt(up[p], i) /\ \A q \in Peers \ {p} : up'[q] = up[q]
    BY <1>4, <2>1
  <2>5. \/ NothingEstablished
        \/ /\ Third(up[p][i])
           /\ \A q \in Peers \ {p} : sessions'[q] = sessions[q]
           /\ sessions'[p].ei = up[p][i].m.ei
    BY <1>1, <2>1, <2>3, HandlersEstablish
  <2>6. \A q \in Peers \ {p} : NotEstablished(q)
    BY <2>5 DEF NotEstablished, NothingEstablished
  <2>7. NotEstablished(p) \/ (Third(up[p][1]) /\ sessions'[p].ei = up[p][1].m.ei)
    BY <2>2, <2>5 DEF NotEstablished, NothingEstablished
  <2>8. UNCHANGED <<phone, derived>>
    BY <2>1
  <2>9. Young(p)' /\ InLine(p)'
    BY <1>1, <1>5, <2>2, <2>4, <2>7, <2>8, LineTaken
  <2>10. QED
    BY <1>6, <2>4, <2>6, <2>8, <2>9
<1>10. CASE DeliverDown(p)
  <2>1. PICK i \in Next1(down[p]) :
            /\ PhoneHears(p, down[p][i])
            /\ UNCHANGED <<handshake, registry, queues, link, rest, install, posted, ordered>>
    BY <1>10 DEF DeliverDown
  <2> DEFINE x == down[p][i]
  <2>2. x \in DownPackets
    BY <1>4, ElementOfSeq DEF Next1
  <2> HIDE DEF x
  <2>3. PhoneHears(p, x) /\ UNCHANGED <<sessions, fresh>>
    BY <2>1 DEF x
  <2>4. \A q \in Peers : NotEstablished(q)
    BY <2>3 DEF NotEstablished
  <2>5. \A q \in Peers \ {p} : phone'[q] = phone[q] /\ derived'[q] = derived[q] /\ up'[q] = up[q]
    BY <1>4, <2>3 DEF PhoneHears, Send
  <2>6. \A q \in Peers \ {p} : Young(q)' /\ InLine(q)'
    BY <1>6, <2>4, <2>5
  <2>7. CASE x.type \in {"chat", "noise"}
    <3>1. UNCHANGED <<phone, up, derived>>
      BY <2>3, <2>7 DEF PhoneHears
    <3>2. QED
      BY <1>6, <2>4, <2>6, <3>1
  <2>8. CASE x.type = "announce"
    <3>1. phone' = [phone EXCEPT ![p].knows = TRUE] /\ UNCHANGED <<up, derived>>
      BY <2>3, <2>8 DEF PhoneHears
    <3>2. SameKeys(p)
      BY <1>4, <3>1 DEF SameKeys, PhoneType
    <3>3. Young(p)'
      BY <1>1, <1>2, <3>1, <3>2, YoungStays DEF SameKeys
    <3>4. QED
      BY <1>1, <2>4, <2>6, <3>1, <3>2, <3>3, LineUntouched
  <2>9. CASE x.type = "leave"
    <3>1. phone' = [phone EXCEPT ![p] = [Dropped(@) EXCEPT !.knows = FALSE]] /\ UNCHANGED derived
      BY <2>3, <2>9 DEF PhoneHears
    <3>2. phone'[p].st = "idle"
      BY <1>4, <3>1 DEF Dropped, PhoneType
    <3>3. Young(p)' /\ InLine(p)'
      BY <1>1, <1>2, <3>1, <3>2, YoungStays DEF InLine
    <3>4. QED
      BY <2>6, <3>3
  <2>10. CASE x.type = "handshake" /\ ~(phone[p].st = "waiting" /\ x.m.ei = phone[p].ei)
    <3>1. UNCHANGED <<phone, up, derived>>
      BY <2>3, <2>10 DEF PhoneHears
    <3>2. QED
      BY <1>6, <2>4, <2>6, <3>1
  <2>11. CASE x.type = "handshake" /\ phone[p].st = "waiting" /\ x.m.ei = phone[p].ei
    <3>1. x.m \in Messages
      BY <2>2, <2>11, DownKinds
    <3>2. /\ phone' = [phone EXCEPT ![p].st = "up", ![p].er = x.m.er]
          /\ derived' = [derived EXCEPT ![p] = @ \cup {<<x.m.ei, x.m.er>>}]
          /\ Send(p, <<Handshake(Msg3(x.m.ei, x.m.er))>>)
      BY <2>3, <2>11 DEF PhoneHears
    <3>3. phone'[p].ei = phone[p].ei /\ phone'[p].st = "up"
      BY <1>4, <3>2 DEF PhoneType
    <3>4. InLine(p)'
      BY <1>1, <2>3, <2>11, <3>1, <3>2, <3>3, LineBegins
    <3>5. phone[p].ei \in 1 .. fresh /\ \A d \in derived[p] : d[1] \in 1 .. fresh
      BY <1>1, <2>11 DEF Young
    <3>6. derived'[p] = derived[p] \cup {<<x.m.ei, x.m.er>>}
      BY <1>4, <3>2
    <3>7. Young(p)'
      BY <2>3, <2>11, <3>3, <3>5, <3>6 DEF Young
    <3>8. QED
      BY <2>6, <3>4, <3>7
  <2>12. QED
    BY <2>3, <2>7, <2>8, <2>9, <2>10, <2>11 DEF PhoneHears
<1>11. QED
  BY <1>3, <1>7, <1>8, <1>9, <1>10

(* Every step of a link that keeps order keeps the lines in order.         *)
LEMMA SharedInvNext ==
    ASSUME "reorder" \notin May, SharedInv, [Next]_vars
    PROVE  SharedInv'
<1> USE DEF smVars, handshake, registry, queues, link, rest, phoneVars
<1>1. TypeOK /\ AgreementInv /\ \A q \in Peers : Young(q) /\ InLine(q)
  BY DEF SharedInv, AgreementInv
<1>2. AgreementInv' /\ TypeOK'
  BY <1>1, AgreementNext, TypeNext
<1>3. fresh' \in Nat /\ fresh <= fresh'
  BY <1>1, KeysGrow
<1>4. ASSUME UNCHANGED <<phone, up, derived>>, NothingEstablished
      PROVE  \A q \in Peers : Young(q)' /\ InLine(q)'
  <2>1. \A q \in Peers : NotEstablished(q) /\ SameKeys(q)
    BY <1>4 DEF NotEstablished, NothingEstablished, SameKeys
  <2>2. QED
    BY <1>1, <1>3, <1>4, <2>1, YoungStays, LineUntouched
<1>5. CASE Commands \/ Clock
  <2>1. UNCHANGED <<phone, up, derived>>
    BY <1>5 DEF Commands, Clock
  <2>2. QED
    BY <1>1, <1>2, <1>4, <1>5, <2>1, DaemonEstablishesNothing DEF SharedInv
<1>6. CASE UNCHANGED vars
  <2>1. NothingEstablished
    BY <1>6 DEF vars, NothingEstablished
  <2>2. QED
    BY <1>2, <1>4, <1>6, <2>1 DEF vars, SharedInv
<1>7. QED
  BY <1>1, <1>2, <1>5, <1>6, PhonesInLine, LinkInLine DEF Next, SharedInv

LEMMA SharedInvInit == Init => SharedInv
<1> SUFFICES ASSUME Init PROVE SharedInv
  OBVIOUS
<1>1. AgreementInv
  BY AgreementInit
<1>2. ASSUME NEW p \in Peers PROVE Young(p) /\ InLine(p)
  <2>1. up[p] = <<>> /\ ~Established(sessions[p]) /\ fresh = 2
    BY DEF Init, SMInit, Established
  <2>2. DOMAIN up[p] = {}
    BY <2>1
  <2>3. phone[p] = NewPhone \/ phone[p] = StalePhone
    BY DEF Init
  <2>4. phone[p].st # "waiting"
    BY <2>3 DEF NewPhone, StalePhone
  <2>5. \A d \in derived[p] : d[1] \in 1 .. fresh
    BY <2>1 DEF Init
  <2>6. QED
    BY <2>1, <2>2, <2>4, <2>5 DEF Young, InLine, ThirdIsLast
<1>3. QED
  BY <1>1, <1>2 DEF SharedInv

-----------------------------------------------------------------------------
(* What ends a shared session.                                             *)

(* The daemon's own steps leave p's session, or have it time out.          *)
Lasts(p) == /\ Established(sessions'[p])
            /\ sessions'[p].ei = sessions[p].ei /\ sessions'[p].er = sessions[p].er

LEMMA DaemonKeeps ==
    ASSUME TypeOK, NEW p \in Peers, Established(sessions[p]), Commands \/ Clock
    PROVE  Lasts(p) \/ lastSeen'[p] = "never"
<1> USE DEF handshake, registry, queues, link, rest
<1>1. sessions \in [Peers -> SessionType \cup {None}] /\ ManagerTyped
  BY TypeParts DEF ManagerTyped
<1>2. sessions[p] \in SessionType /\ sessions[p].st = "transport"
  BY <1>1 DEF Established
<1>3. \/ sessions'[p] = sessions[p]
      \/ sessions'[p] = Encrypted(sessions[p], 1)
      \/ sessions'[p] = Aged(sessions[p])
      => Lasts(p)
  <2>1. ASSUME NEW s \in SessionType, s.st = sessions[p].st, s.ei = sessions[p].ei, s.er = sessions[p].er,
               sessions'[p] = s
        PROVE  Lasts(p)
    BY <1>2, <2>1, NoneAssumption DEF Lasts, Established
  <2>2. LET s == Encrypted(sessions[p], 1)
        IN  s \in SessionType /\ s.st = sessions[p].st /\ s.ei = sessions[p].ei /\ s.er = sessions[p].er
    BY <1>2, EncryptedType
  <2>3. LET s == Aged(sessions[p])
        IN  s \in SessionType /\ s.st = sessions[p].st /\ s.ei = sessions[p].ei /\ s.er = sessions[p].er
    BY <1>2, SessionTypes
  <2>4. QED
    BY <1>2, <2>1, <2>2, <2>3
<1>4. ASSUME NEW t \in Texts, Queue(t) \/ SendNow(t) \/ SendFile(t) PROVE Lasts(p)
  <2>1. To[t] \in Peers
    BY TextsAssumption
  <2>2. \/ UNCHANGED sessions
        \/ sessions' = [sessions EXCEPT ![To[t]] = Encrypted(sessions[To[t]], 1)]
    BY <1>4 DEF Queue, SendNow, SendFile
  <2>3. QED
    BY <1>1, <1>3, <2>1, <2>2
<1>5. CASE SetNick \/ PeriodicAnnounce \/ Broadcast \/ Subscribe \/ Unsubscribe
  BY <1>3, <1>5 DEF SetNick, PeriodicAnnounce, Broadcast, Subscribe, Unsubscribe
<1>6. CASE PeerTimeout
  BY <1>3, <1>6 DEF PeerTimeout, DropPeers
<1>7. ASSUME NEW q \in Peers, Silence(q) \/ CooldownEnds(q) \/ QueueAges(q) \/ CancelPendingSends(q)
      PROVE  Lasts(p)
  BY <1>3, <1>7 DEF Silence, CooldownEnds, QueueAges, CancelPendingSends
<1>8. ASSUME NEW q \in Peers, SessionAges(q) PROVE Lasts(p)
  BY <1>1, <1>3, <1>8 DEF SessionAges
<1>9. CASE Commands
  BY <1>4, <1>5, <1>9 DEF Commands
<1>10. CASE Clock
  BY <1>5, <1>6, <1>7, <1>8, <1>10 DEF Clock
<1>11. QED
  BY <1>9, <1>10

(* A packet of another phone's leaves p's session alone, whatever it is.   *)
LEMMA OthersKeep ==
    ASSUME TypeOK, NEW p \in Peers, NEW q \in Peers \ {p}, NEW x, Handled(q, x)
    PROVE  sessions'[p] = sessions[p]
<1> USE DEF handshake, registry, queues, link, rest
<1>1. sessions \in [Peers -> SessionType \cup {None}]
  BY DEF TypeOK
<1>2. HandleAnnounce(q, x.pub) \/ HandleRequestSync(q) \/ HandleLeave(q) \/ HandlePublic(q)
          => sessions'[p] = sessions[p]
  BY <1>1 DEF HandleAnnounce, HandleRequestSync, HandleLeave, HandlePublic, DropPeers
<1>3. HandleNoiseEncrypted(q, x.keys, x.body) => sessions'[p] = sessions[p]
  BY <1>1 DEF HandleNoiseEncrypted, NoSession, Undecryptable, Decrypted, Reset
<1>4. HandleNoiseHandshake(q, x.m) => sessions'[p] = sessions[p]
  BY <1>1 DEF HandleNoiseHandshake, IgnoreHandshake, ResendMsg2, FailHandshake, Establish, AnswerMsg1
<1>5. QED
  BY <1>2, <1>3, <1>4 DEF Handled

(* Nor does a packet of p's own that follows its handshake.                *)
LEMMA OwnKeeps ==
    ASSUME MaxInstalls = 1, TypeOK, NEW p \in Peers, Shared(p), sessions[p].epoch = 0,
           NEW x \in UpPackets, Follows(p, x), Handled(p, x)
    PROVE  Lasts(p)
<1> USE DEF handshake, registry, queues, link, rest
<1>1. sessions \in [Peers -> SessionType \cup {None}] /\ peerNoisePub \in [Peers -> 1 .. MaxInstalls \cup {None}]
  BY DEF TypeOK
<1>2. Established(sessions[p]) /\ sessions[p] \in SessionType /\ sessions[p].st = "transport"
  BY <1>1 DEF Established, Shared
<1>3. sessions'[p] = sessions[p] => Lasts(p)
  BY <1>2 DEF Lasts
<1>4. CASE x.type = "announce" /\ HandleAnnounce(p, x.pub)
  <2>1. x.pub \in 1 .. 1 /\ peerNoisePub[p] \in 1 .. 1 \cup {None}
    BY <1>1, <1>4, UpKinds
  <2>2. ~KeyChanged(p, x.pub)
    BY <2>1 DEF KeyChanged
  <2>3. QED
    BY <1>3, <1>4, <2>2 DEF HandleAnnounce
<1>5. CASE HandleRequestSync(p) \/ HandlePublic(p)
  BY <1>3, <1>5 DEF HandleRequestSync, HandlePublic
<1>6. CASE x.type = "noise" /\ HandleNoiseEncrypted(p, x.keys, x.body)
  <2>1. x.keys = [ei |-> phone[p].ei, er |-> phone[p].er, epoch |-> 0]
    BY <1>6 DEF Follows
  <2>2. Decrypts(sessions[p], x.keys)
    BY <1>2, <2>1 DEF Decrypts, Keys, Shared
  <2>3. Decrypted(p, x.keys, x.body)
    BY <1>2, <1>6, <2>2 DEF HandleNoiseEncrypted, NoSession, Undecryptable
  <2> DEFINE n == Cardinality(Acknowledgement(x.body))
  <2>4. n \in Nat
    BY FS_EmptySet, PartOfInterval DEF Acknowledgement
  <2>5. sessions' = [sessions EXCEPT ![p] = Encrypted(sessions[p], n)]
    BY <2>3 DEF Decrypted
  <2> HIDE DEF n
  <2>6. sessions'[p] = Encrypted(sessions[p], n)
    BY <1>1, <2>5
  <2>7. QED
    BY <1>2, <2>4, <2>6, EncryptedType, NoneAssumption DEF Lasts, Established
<1>7. QED
  BY <1>4, <1>5, <1>6 DEF Handled, Follows

(* A shared session is lost only by the phone, or after a silence.         *)
LEMMA SharedLasts ==
    ASSUME MaxInstalls = 1, SharedInv, NoneRenewed, [Next]_vars, NEW p \in Peers, Shared(p)
    PROVE  Shared(p)' \/ phone'[p] # phone[p] \/ lastSeen'[p] = "never"
<1> USE DEF smVars, handshake, registry, queues, link, rest, phoneVars
<1>1. TypeOK /\ InLine(p) /\ up \in [Peers -> Seq(UpPackets)]
  BY DEF SharedInv, AgreementInv, TypeOK
<1>2. Lasts(p) => Shared(p)' \/ phone'[p] # phone[p]
  BY DEF Lasts, Shared
<1>3. sessions'[p] = sessions[p] => Lasts(p)
  BY DEF Lasts, Shared
<1>4. CASE Commands \/ Clock
  BY <1>1, <1>2, <1>4, DaemonKeeps DEF Shared
<1>5. CASE Phones
  <2>1. sessions' = sessions
    BY <1>5 DEF Phones, PhoneAnnounce, PhoneStart, PhoneRetry, PhoneAsks, PhoneChats, PhoneLeaves,
                PhoneReinstalls, PhoneWrites
  <2>2. QED
    BY <1>2, <1>3, <2>1
<1>6. CASE Link
  <2>1. PICK q \in Peers : DeliverUp(q) \/ DeliverDown(q) \/ LoseUp(q) \/ LoseDown(q)
    BY <1>6 DEF Link
  <2>2. CASE DeliverDown(q) \/ LoseUp(q) \/ LoseDown(q)
    BY <1>2, <1>3, <2>2 DEF DeliverDown, LoseUp, LoseDown
  <2>3. CASE DeliverUp(q)
    <3>1. PICK i \in DOMAIN up[q] : up[q][i] \in UpPackets /\ Handled(q, up[q][i])
      BY <1>1, <2>3, Delivered
    <3>2. CASE q # p
      BY <1>1, <1>2, <1>3, <3>1, <3>2, OthersKeep
    <3>3. CASE q = p
      <4>1. Follows(p, up[p][i])
        BY <1>1, <3>1, <3>3 DEF InLine, NothingElse, Shared
      <4>2. sessions[p].epoch = 0
        BY DEF NoneRenewed, Shared
      <4>3. QED
        BY <1>1, <1>2, <3>1, <3>3, <4>1, <4>2, OwnKeeps
    <3>4. QED
      BY <3>2, <3>3
  <2>4. QED
    BY <2>1, <2>2, <2>3
<1>7. CASE UNCHANGED vars
  BY <1>2, <1>3, <1>7 DEF vars
<1>8. QED
  BY <1>4, <1>5, <1>6, <1>7 DEF Next

(* On a link that keeps order, whatever is lost on it and whatever other   *)
(* phones do, nothing a phone with one Noise key sends makes the Pi drop a *)
(* session they share, for as long as no session renews its keys           *)
(* (SharedKept).                                                           *)
THEOREM SharedSessionsLast ==
    ASSUME KeepsKeys
    PROVE  Spec /\ []NoneRenewed => SharedKept
<1>1. SharedInv /\ NoneRenewed /\ [Next]_vars
          => [\A p \in Peers : Shared(p) => \/ Shared(p)' \/ phone[p]' # phone[p]
                                            \/ lastSeen[p]' = "never"]_vars
  BY SharedLasts DEF KeepsKeys
<1>2. SharedInv /\ [Next]_vars => SharedInv'
  BY SharedInvNext DEF KeepsKeys
<1>3. QED
  BY <1>1, <1>2, SharedInvInit, PTL DEF Spec, SharedKept
==============================================================================
