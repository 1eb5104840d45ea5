--------------------------- MODULE SessionManager ---------------------------
(***************************************************************************)
(* SessionManager in server/bitchatd/mesh/session_manager.py: the peer     *)
(* registry, one Noise session per peer, the messages queued until there   *)
(* is one, and the answers to packets and to IPC commands.  The calls      *)
(* daemon.py makes into it are here too: the subscription of a phone to    *)
(* GATT notifications and the cancellation of queued messages when an      *)
(* image completes.                                                        *)
(*                                                                         *)
(* The event loop runs one handler at a time and none of them awaits, so a *)
(* handler is one action.  Time is abstracted to what it can make true:    *)
(* a peer has been silent for longer than the peer timeout, a queued       *)
(* message is older than its TTL, a session is an hour old.                *)
(***************************************************************************)
EXTENDS NoiseSession, Sequences, SequencesExt, FiniteSets, FiniteSetsExt

CONSTANTS
    Peers,          \* the phones
    Texts,          \* what the user and the daemon itself send
    To,             \* the phone each text is for
    Long,           \* the texts of more than 255 bytes
    Autos,          \* the daemon's own replies about incomplete transfers
    Files,          \* the texts that are files
    Letters,        \* what the phones send
    Receipts,       \* the letters that are receipts
    FailLimit,      \* undecryptable messages before a session is reset
    MaxEphemerals   \* bound on the handshakes

ASSUME TextsAssumption ==
    /\ To \in [Texts -> Peers]
    /\ Long \subseteq Texts /\ Autos \subseteq Texts /\ Files \subseteq Texts
    /\ Receipts \subseteq Letters
    /\ FailLimit \in Nat \ {0} /\ MaxEphemerals \in Nat

VARIABLES
    sessions,      \* _sessions
    peers,         \* _peers: those whose nickname is known
    peerNoisePub,  \* _peer_noise_pub
    lastMsg1,      \* _last_msg1
    pendingMsg2,   \* _pending_msg2
    pendingSends,  \* _pending_sends: texts with whether they outlived the TTL
    lastSeen,      \* _peer_last_seen against the peer timeout
    announced,     \* _last_announced: peers still in the echo cooldown
    failCount,     \* _decrypt_fail_count
    reachable,     \* some phone is subscribed
    notifiedOnce,  \* _first_notify_done
    down,          \* what was sent, to each phone, in order
    fresh,         \* ephemeral keys used
    fate           \* what became of each text

handshake == <<sessions, lastMsg1, pendingMsg2>>
registry  == <<peers, peerNoisePub, lastSeen, announced>>
queues    == <<pendingSends, fate>>
link      == <<reachable, notifiedOnce>>
rest      == <<failCount, fresh>>
smVars    == <<handshake, registry, queues, link, rest, down>>

-----------------------------------------------------------------------------
(* Sending.                                                                *)

ANNOUNCE == [type |-> "announce"]
LEAVE    == [type |-> "leave"]
CHAT     == [type |-> "chat"]
Handshake(m)   == [type |-> "handshake", m |-> m]
Noise(keys, x) == [type |-> "noise", keys |-> keys, body |-> x]

(* An ANNOUNCE right behind another one says nothing new.                  *)
Join(q, pkts) ==
    IF q # <<>> /\ q[Len(q)] = ANNOUNCE /\ pkts = <<ANNOUNCE>> THEN q ELSE q \o pkts

(* A packet with a recipient, and one without, which every phone gets.     *)
(* Without a subscriber it is not delivered.                               *)
Sent(p, pkts) == IF reachable THEN [down EXCEPT ![p] = @ \o pkts] ELSE down
ToAll(pkts)   == IF reachable THEN [q \in Peers |-> Join(down[q], pkts)] ELSE down

NextKey == fresh + 1

-----------------------------------------------------------------------------
(* _drain_pending_sends                                                    *)

(* Mutant: the queue is drained from its end.                              *)
StillQueuedBackwards(p) == Reverse(SelectSeq(pendingSends[p], LAMBDA x : ~x.stale))

(* The texts whose TTL has not passed.  A queue is in the order of age, so *)
(* those that have outlived it come first.                                 *)
StillQueued(p) ==
    LET q == pendingSends[p]
    IN  SubSeq(q, Cardinality({i \in DOMAIN q : q[i].stale}) + 1, Len(q))

(* A text that is too long raises an exception, which ends the drain.      *)
Drained(p) ==
    LET q == StillQueued(p)
    IN  SubSeq(q, 1, Cardinality({i \in DOMAIN q : \A j \in 1 .. i : q[j].text \notin Long}))

TextsIn(q) == {q[i].text : i \in DOMAIN q}

(* The packets of a drain, under the keys each was encrypted with.         *)
DrainPackets(p, s) ==
    [i \in DOMAIN Drained(p) |->
        Noise(Keys(Encrypted(s, i)), [type |-> "text", id |-> Drained(p)[i].text])]

(* Mutant: the queue outlives the drain.                                   *)
EmptiedNever(p) == pendingSends

Emptied(p) == [pendingSends EXCEPT ![p] = <<>>]

FateOf(T, f) == [t \in Texts |-> IF t \in T THEN f ELSE fate[t]]

DrainFate(p) ==
    [t \in Texts |->
        IF t \notin TextsIn(pendingSends[p]) THEN fate[t]
        ELSE IF t \in TextsIn(Drained(p)) THEN "sent"
        ELSE IF t \in TextsIn(StillQueued(p)) THEN "crashed" ELSE "expired"]

-----------------------------------------------------------------------------
(* _handle_noise_handshake                                                 *)

(* Any packet from a peer: handle_packet.                                  *)
Seen(p) == lastSeen' = [lastSeen EXCEPT ![p] = "recent"]

IgnoreHandshake(p, m) ==
    /\ sessions[p] = None
    /\ m.kind # "msg1"
    /\ Seen(p)
    /\ UNCHANGED <<handshake, peers, peerNoisePub, announced, queues, link, rest, down>>

(* The phone retried its first message: the cached answer is sent again.   *)
Retried(p, m) == m.kind = "msg1" /\ lastMsg1[p] = m.ei /\ pendingMsg2[p] # None

ResendMsg2(p, m) ==
    /\ ~Established(sessions[p])
    /\ Retried(p, m)
    /\ sessions' = [sessions EXCEPT ![p] = IF @ = None THEN Responder ELSE @]
    /\ down' = Sent(p, <<Handshake(pendingMsg2[p])>>)
    /\ Seen(p)
    /\ UNCHANGED <<lastMsg1, pendingMsg2, peers, peerNoisePub, announced, queues, link, rest>>

(* A first message starts over whatever is established or under way.       *)
StartsOver(p, m) ==
    m.kind = "msg1" /\ (Established(sessions[p]) \/ lastMsg1[p] # None \/ pendingMsg2[p] # None)

Reader(p, m) == IF sessions[p] = None \/ StartsOver(p, m) THEN Responder ELSE sessions[p]

Reads(p, m) ==
    /\ sessions[p] = None => m.kind = "msg1"
    /\ ~(~Established(sessions[p]) /\ Retried(p, m))

Forget(p) ==
    /\ lastMsg1' = [lastMsg1 EXCEPT ![p] = None]
    /\ pendingMsg2' = [pendingMsg2 EXCEPT ![p] = None]

FailHandshake(p, m) ==
    /\ Reads(p, m)
    /\ Read(Reader(p, m), m).st = "failed"
    /\ sessions' = [sessions EXCEPT ![p] = None]
    /\ Forget(p)
    /\ Seen(p)
    /\ UNCHANGED <<peers, peerNoisePub, announced, queues, link, rest, down>>

Establish(p, m) ==
    LET s == Read(Reader(p, m), m)
    IN  /\ Reads(p, m)
        /\ s.st = "transport"
        /\ sessions' = [sessions EXCEPT ![p] = Encrypted(s, Len(Drained(p)))]
        /\ Forget(p)
        /\ down' = Sent(p, DrainPackets(p, s))
        /\ pendingSends' = Emptied(p)
        /\ fate' = DrainFate(p)
        /\ Seen(p)
        /\ UNCHANGED <<peers, peerNoisePub, announced, link, rest>>

AnswerMsg1(p, m) ==
    LET s == Read(Reader(p, m), m)
        w == Write(s, NextKey)
    IN  /\ Reads(p, m)
        /\ s.st = "read"
        /\ sessions' = [sessions EXCEPT ![p] = w]
        /\ lastMsg1' = [lastMsg1 EXCEPT ![p] =
                            IF m.kind = "msg1" THEN m.ei ELSE @]
        /\ pendingMsg2' = [pendingMsg2 EXCEPT ![p] = Msg2(w.ei, w.er)]
        /\ fresh' = NextKey
        /\ down' = Sent(p, <<Handshake(Msg2(w.ei, w.er))>>)
        /\ Seen(p)
        /\ UNCHANGED <<peers, peerNoisePub, announced, queues, link, failCount>>

HandleNoiseHandshake(p, m) ==
    \/ IgnoreHandshake(p, m)
    \/ ResendMsg2(p, m)
    \/ FailHandshake(p, m)
    \/ Establish(p, m)
    \/ AnswerMsg1(p, m)

-----------------------------------------------------------------------------
(* _handle_noise_encrypted                                                 *)

(* The peer's session is replaced by one that expects a first message, and *)
(* every phone is told to drop its own.                                    *)
Reset(p) ==
    /\ sessions' = [sessions EXCEPT ![p] = Responder]
    /\ down' = ToAll(<<LEAVE, ANNOUNCE>>)
    /\ announced' = announced \cup {p}
    /\ UNCHANGED <<lastMsg1, pendingMsg2>>

NoSession(p) ==
    /\ ~Established(sessions[p])
    /\ Reset(p)
    /\ Seen(p)
    /\ UNCHANGED <<peers, peerNoisePub, queues, link, rest>>

GivesUp(p) == failCount[p] + 1 >= FailLimit

Undecryptable(p, keys) ==
    /\ Established(sessions[p])
    /\ ~Decrypts(sessions[p], keys)
    /\ Seen(p)
    /\ IF GivesUp(p)
       THEN /\ failCount' = [failCount EXCEPT ![p] = 0]
            /\ Reset(p)
       ELSE /\ failCount' = [failCount EXCEPT ![p] = @ + 1]
            /\ UNCHANGED <<handshake, announced, down>>
    /\ UNCHANGED <<peers, peerNoisePub, queues, link, fresh>>

(* A receipt is only published; a message or a file is answered with a     *)
(* delivery and a read receipt.                                            *)
Acknowledgement(body) == IF body.type = "receipt" THEN {} ELSE {1, 2}

Decrypted(p, keys, body) ==
    LET s == sessions[p]
        n == Cardinality(Acknowledgement(body))
    IN  /\ Decrypts(s, keys)
        /\ sessions' = [sessions EXCEPT ![p] = Encrypted(s, n)]
        /\ down' = Sent(p, [i \in 1 .. n |->
                               Noise(Keys(Encrypted(s, i)), [type |-> "receipt", id |-> body.id])])
        /\ failCount' = [failCount EXCEPT ![p] = 0]
        /\ Seen(p)
        /\ UNCHANGED <<lastMsg1, pendingMsg2, peers, peerNoisePub, announced, queues, link, fresh>>

HandleNoiseEncrypted(p, keys, body) ==
    \/ NoSession(p)
    \/ Undecryptable(p, keys)
    \/ Decrypted(p, keys, body)

-----------------------------------------------------------------------------
(* The other packets.                                                      *)

(* _handle_announce: a changed key resets the session; the answer is       *)
(* subject to a cooldown.                                                  *)

(* Mutant: a key not known before counts as changed.                       *)
KeyChangedOrNew(p, pub) == peerNoisePub[p] # pub

KeyChanged(p, pub) == peerNoisePub[p] \notin {None, pub}

Echo(p) ==
    /\ down' = IF p \in announced THEN down ELSE ToAll(<<ANNOUNCE>>)
    /\ announced' = announced \cup {p}
    /\ Seen(p)

HandleAnnounce(p, pub) ==
    /\ peers' = peers \cup {p}
    /\ peerNoisePub' = [peerNoisePub EXCEPT ![p] = pub]
    /\ IF KeyChanged(p, pub)
       THEN sessions' = [sessions EXCEPT ![p] = None] /\ Forget(p)
       ELSE UNCHANGED handshake
    /\ Echo(p)
    /\ UNCHANGED <<queues, link, rest>>

HandleRequestSync(p) ==
    /\ Echo(p)
    /\ UNCHANGED <<handshake, peers, peerNoisePub, queues, link, rest>>

(* _handle_file_transfer and _handle_public_message only publish.          *)
HandlePublic(p) ==
    /\ Seen(p)
    /\ UNCHANGED <<handshake, peers, peerNoisePub, announced, queues, link, rest, down>>

(* What _handle_leave and the timeout have in common.                      *)
DropPeers(P, f) ==
    /\ peers' = peers \ P
    /\ sessions' = [p \in Peers |-> IF p \in P THEN None ELSE sessions[p]]
    /\ lastMsg1' = [p \in Peers |-> IF p \in P THEN None ELSE lastMsg1[p]]
    /\ pendingMsg2' = [p \in Peers |-> IF p \in P THEN None ELSE pendingMsg2[p]]
    /\ peerNoisePub' = [p \in Peers |-> IF p \in P THEN None ELSE peerNoisePub[p]]
    /\ announced' = announced \ P
    /\ pendingSends' = [p \in Peers |-> IF p \in P THEN <<>> ELSE pendingSends[p]]
    /\ fate' = FateOf(UNION {TextsIn(pendingSends[p]) : p \in P}, f)
    /\ UNCHANGED <<link, rest, down>>

HandleLeave(p) == DropPeers({p}, "left") /\ Seen(p)

-----------------------------------------------------------------------------
(* Time.                                                                   *)

(* One pass of _peer_timeout_loop.                                         *)
TimedOut == {p \in peers : lastSeen[p] = "silent"}

PeerTimeout ==
    /\ TimedOut # {}
    /\ DropPeers(TimedOut, "timedOut")
    /\ lastSeen' = [p \in Peers |-> IF p \in TimedOut THEN "never" ELSE lastSeen[p]]

Silence(p) ==
    /\ lastSeen[p] = "recent"
    /\ lastSeen' = [lastSeen EXCEPT ![p] = "silent"]
    /\ UNCHANGED <<handshake, peers, peerNoisePub, announced, queues, link, rest, down>>

CooldownEnds(p) ==
    /\ p \in announced
    /\ announced' = announced \ {p}
    /\ UNCHANGED <<handshake, peers, peerNoisePub, lastSeen, queues, link, rest, down>>

(* The oldest queued texts outlive the TTL first.                          *)
QueueAges(p) ==
    \E i \in DOMAIN pendingSends[p] :
        /\ ~pendingSends[p][i].stale
        /\ \A j \in 1 .. i - 1 : pendingSends[p][j].stale
        /\ pendingSends' = [pendingSends EXCEPT ![p][i].stale = TRUE]
        /\ UNCHANGED <<handshake, registry, fate, link, rest, down>>

SessionAges(p) ==
    /\ Established(sessions[p])
    /\ sessions[p].used < MsgLimit
    /\ sessions' = [sessions EXCEPT ![p] = Aged(@)]
    /\ UNCHANGED <<lastMsg1, pendingMsg2, registry, queues, link, rest, down>>

(* _periodic_announce                                                      *)
PeriodicAnnounce ==
    /\ down' = ToAll(<<ANNOUNCE>>)
    /\ UNCHANGED <<handshake, registry, queues, link, rest>>

-----------------------------------------------------------------------------
(* Commands.                                                               *)

(* send, when there is no session or no subscriber.                        *)
Queue(t) ==
    /\ fate[t] = "new" /\ t \notin Files
    /\ ~Established(sessions[To[t]]) \/ ~reachable
    /\ pendingSends' = [pendingSends EXCEPT ![To[t]] = Append(@, [text |-> t, stale |-> FALSE])]
    /\ fate' = [fate EXCEPT ![t] = "queued"]
    /\ down' = ToAll(<<ANNOUNCE>>)
    /\ announced' = announced \cup {To[t]}
    /\ UNCHANGED <<handshake, peers, peerNoisePub, lastSeen, link, rest>>

(* send on an established session; a text that is too long is an error.    *)
SendNow(t) ==
    LET p == To[t]
        s == Encrypted(sessions[p], 1)
    IN  /\ fate[t] = "new" /\ t \notin Files
        /\ Established(sessions[p]) /\ reachable
        /\ IF t \in Long
           THEN /\ fate' = [fate EXCEPT ![t] = "refused"]
                /\ UNCHANGED <<sessions, down>>
           ELSE /\ fate' = [fate EXCEPT ![t] = "sent"]
                /\ sessions' = [sessions EXCEPT ![p] = s]
                /\ down' = Sent(p, <<Noise(Keys(s), [type |-> "text", id |-> t])>>)
        /\ UNCHANGED <<lastMsg1, pendingMsg2, registry, pendingSends, link, rest>>

(* send_file does not wait for a session and does not ask for a subscriber. *)
SendFile(t) ==
    LET p == To[t]
        s == Encrypted(sessions[p], 1)
    IN  /\ fate[t] = "new" /\ t \in Files
        /\ IF Established(sessions[p])
           THEN /\ fate' = [fate EXCEPT ![t] = "sent"]
                /\ sessions' = [sessions EXCEPT ![p] = s]
                /\ down' = Sent(p, <<Noise(Keys(s), [type |-> "file", id |-> t])>>)
           ELSE /\ fate' = [fate EXCEPT ![t] = "refused"]
                /\ UNCHANGED <<sessions, down>>
        /\ UNCHANGED <<lastMsg1, pendingMsg2, registry, pendingSends, link, rest>>

Broadcast ==
    /\ down' = ToAll(<<CHAT>>)
    /\ UNCHANGED <<handshake, registry, queues, link, rest>>

SetNick ==
    /\ announced' = {}
    /\ down' = ToAll(<<ANNOUNCE>>)
    /\ UNCHANGED <<handshake, peers, peerNoisePub, lastSeen, queues, link, rest>>

(* cancel_pending_sends, when an image of the peer completes on a retry.   *)
CancelPendingSends(p) ==
    /\ pendingSends[p] # <<>>
    /\ pendingSends' = [pendingSends EXCEPT ![p] = <<>>]
    /\ fate' = FateOf(TextsIn(pendingSends[p]), "cancelled")
    /\ UNCHANGED <<handshake, registry, link, rest, down>>

(* _on_notify_subscribed: only the first subscription sends LEAVE.         *)

(* Mutant: the first subscription is like the others.                      *)
WelcomeBack == <<ANNOUNCE>>

Welcome == IF notifiedOnce THEN <<ANNOUNCE>> ELSE <<LEAVE, ANNOUNCE>>

Subscribe ==
    /\ ~reachable
    /\ reachable' = TRUE
    /\ notifiedOnce' = TRUE
    /\ announced' = {}
    /\ down' = [q \in Peers |-> Join(down[q], Welcome)]
    /\ UNCHANGED <<handshake, peers, peerNoisePub, lastSeen, queues, rest>>

Unsubscribe ==
    /\ reachable
    /\ reachable' = FALSE
    /\ UNCHANGED <<handshake, registry, queues, notifiedOnce, rest, down>>

-----------------------------------------------------------------------------

SMInit ==
    /\ sessions = [p \in Peers |-> None]
    /\ peers = {}
    /\ peerNoisePub = [p \in Peers |-> None]
    /\ lastMsg1 = [p \in Peers |-> None]
    /\ pendingMsg2 = [p \in Peers |-> None]
    /\ pendingSends = [p \in Peers |-> <<>>]
    /\ lastSeen = [p \in Peers |-> "never"]
    /\ announced = {}
    /\ failCount = [p \in Peers |-> 0]
    /\ reachable = FALSE
    /\ notifiedOnce = FALSE
    /\ down = [p \in Peers |-> <<>>]
    /\ fate = [t \in Texts |-> "new"]

=============================================================================
