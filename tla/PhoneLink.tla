------------------------------ MODULE PhoneLink ------------------------------
(***************************************************************************)
(* SessionManager and the phones it talks to over Bluetooth.               *)
(*                                                                         *)
(* The phones are external to the repository.  What is modelled of them is *)
(* what the code relies on: a phone that has heard an ANNOUNCE starts the  *)
(* handshake, may send its first message again or start over, finishes     *)
(* when the answer fits, drops its session on LEAVE, and numbers nothing:  *)
(* what it sends and hears may be lost, and over two paths reordered.      *)
(***************************************************************************)
EXTENDS SessionManager

CONSTANTS
    May,          \* which of Happenings may happen
    MaxInstalls,  \* bound on the Noise keys of a phone
    MaxInFlight   \* bound on the packets under way to or from a phone

(* stale: a phone has a session from before the daemon was restarted;      *)
(* unannounced: a phone starts a handshake before it announces itself.     *)
Happenings ==
    {"loseUp", "loseDown", "reorder", "stale", "unannounced", "reannounce", "renew", "retry",
     "sync", "leave", "silence", "cooldown", "queueAges", "sessionAges", "nick", "periodic",
     "cancel", "unsubscribe", "chat"}

ASSUME LinkAssumption ==
    /\ May \subseteq Happenings
    /\ MaxInstalls \in Nat \ {0} /\ MaxInFlight \in Nat

VARIABLES
    phone,    \* per phone: state of its handshake, its keys, whether it knows the Pi
    install,  \* per phone: its Noise key
    up,       \* packets on their way to the Pi
    heard,    \* texts decrypted, in order
    posted,   \* letters sent
    derived,  \* the key pairs each phone has finished a handshake with
    ordered   \* texts in the order of their send commands

phoneVars == <<phone, install, heard, posted, derived>>
vars == <<smVars, phoneVars, up, ordered>>

NewPhone == [st |-> "idle", ei |-> None, er |-> None, knows |-> FALSE, introduced |-> FALSE]

(* A phone that has not noticed that the daemon was restarted.             *)
StalePhone == [st |-> "up", ei |-> 1, er |-> 2, knows |-> TRUE, introduced |-> TRUE]

Dropped(ph) == [ph EXCEPT !.st = "idle", !.ei = None, !.er = None]

Hello(p) == [type |-> "announce", pub |-> install[p]]
Goodbye  == [type |-> "leave"]

Send(p, pkts) == up' = [up EXCEPT ![p] = @ \o pkts]

Room(q) == Len(q) < MaxInFlight

-----------------------------------------------------------------------------
(* The phones.                                                             *)

PhoneAnnounce(p) ==
    /\ Room(up[p])
    /\ phone[p].introduced => "reannounce" \in May
    /\ phone' = [phone EXCEPT ![p].introduced = TRUE]
    /\ Send(p, <<Hello(p)>>)
    /\ UNCHANGED <<smVars, install, heard, posted, derived, ordered>>

(* A first handshake, one started over, or one to renew an old session.    *)
PhoneStart(p) ==
    /\ Room(up[p])
    /\ phone[p].knows
    /\ ~phone[p].introduced => "unannounced" \in May
    /\ phone[p].st = "idle" \/ "renew" \in May
    /\ NextKey <= MaxEphemerals
    /\ fresh' = NextKey
    /\ phone' = [phone EXCEPT ![p].st = "waiting", ![p].ei = NextKey, ![p].er = None]
    /\ Send(p, <<Handshake(Msg1(NextKey))>>)
    /\ UNCHANGED <<handshake, registry, queues, link, failCount, down,
                   install, heard, posted, derived, ordered>>

PhoneRetry(p) ==
    /\ "retry" \in May
    /\ Room(up[p])
    /\ phone[p].st = "waiting"
    /\ NextKey <= MaxEphemerals
    /\ Send(p, <<Handshake(Msg1(phone[p].ei))>>)
    /\ UNCHANGED <<smVars, phoneVars, ordered>>

PhoneWrites(p, m) ==
    /\ Room(up[p])
    /\ phone[p].st = "up"
    /\ m \notin posted
    /\ posted' = posted \cup {m}
    /\ Send(p, <<Noise([ei |-> phone[p].ei, er |-> phone[p].er, epoch |-> 0],
                    [type |-> IF m \in Receipts THEN "receipt" ELSE "text", id |-> m])>>)
    /\ UNCHANGED <<smVars, phone, install, heard, derived, ordered>>

PhoneAsks(p) ==
    /\ "sync" \in May
    /\ Room(up[p])
    /\ Send(p, <<[type |-> "sync"]>>)
    /\ UNCHANGED <<smVars, phoneVars, ordered>>

PhoneChats(p) ==
    /\ "chat" \in May
    /\ Room(up[p])
    /\ Send(p, <<CHAT>>)
    /\ UNCHANGED <<smVars, phoneVars, ordered>>

PhoneLeaves(p) ==
    /\ "leave" \in May
    /\ Room(up[p])
    /\ phone[p].st # "idle"
    /\ phone' = [phone EXCEPT ![p] = Dropped(@)]
    /\ Send(p, <<Goodbye>>)
    /\ UNCHANGED <<smVars, install, heard, posted, derived, ordered>>

PhoneReinstalls(p) ==
    /\ install[p] < MaxInstalls
    /\ install' = [install EXCEPT ![p] = @ + 1]
    /\ phone' = [phone EXCEPT ![p] = NewPhone]
    /\ UNCHANGED <<smVars, up, heard, posted, derived, ordered>>

(* What a phone makes of a packet.                                         *)
PhoneHears(p, pkt) ==
    \/ /\ pkt.type = "chat"
       /\ UNCHANGED <<phone, up, heard, derived>>
    \/ /\ pkt.type = "announce"
       /\ phone' = [phone EXCEPT ![p].knows = TRUE]
       /\ UNCHANGED <<up, heard, derived>>
    \/ /\ pkt.type = "leave"
       /\ phone' = [phone EXCEPT ![p] = [Dropped(@) EXCEPT !.knows = FALSE]]
       /\ UNCHANGED <<up, heard, derived>>
    \/ /\ pkt.type = "handshake"
       /\ IF phone[p].st = "waiting" /\ pkt.m.ei = phone[p].ei
          THEN /\ phone' = [phone EXCEPT ![p].st = "up", ![p].er = pkt.m.er]
               /\ derived' = [derived EXCEPT ![p] = @ \cup {<<pkt.m.ei, pkt.m.er>>}]
               /\ Send(p, <<Handshake(Msg3(pkt.m.ei, pkt.m.er))>>)
          ELSE UNCHANGED <<phone, derived, up>>
       /\ UNCHANGED heard
    \/ /\ pkt.type = "noise"
       /\ heard' = [heard EXCEPT ![p] =
             IF /\ phone[p].st = "up" /\ pkt.body.type # "receipt"
                /\ pkt.keys = [ei |-> phone[p].ei, er |-> phone[p].er, epoch |-> 0]
             THEN Append(@, pkt.body.id) ELSE @]
       /\ UNCHANGED <<phone, up, derived>>

-----------------------------------------------------------------------------
(* The link.                                                               *)

Next1(q) == IF "reorder" \in May THEN DOMAIN q ELSE DOMAIN q \cap {1}

(* The Pi takes a packet up only when there is room for its answer.        *)
DeliverUp(p) ==
    \E i \in Next1(up[p]) :
        /\ \A q \in Peers : Room(down[q])
        /\ up' = [up EXCEPT ![p] = RemoveAt(@, i)]
        /\ LET pkt == up[p][i]
           IN  \/ pkt.type = "announce" /\ HandleAnnounce(p, pkt.pub)
               \/ pkt.type = "handshake" /\ HandleNoiseHandshake(p, pkt.m)
               \/ pkt.type = "noise" /\ HandleNoiseEncrypted(p, pkt.keys, pkt.body)
               \/ pkt.type = "sync" /\ HandleRequestSync(p)
               \/ pkt.type = "leave" /\ HandleLeave(p)
               \/ pkt.type = "chat" /\ HandlePublic(p)
        /\ UNCHANGED <<phoneVars, ordered>>

DeliverDown(p) ==
    \E i \in Next1(down[p]) :
        /\ down' = [down EXCEPT ![p] = RemoveAt(@, i)]
        /\ PhoneHears(p, down[p][i])
        /\ UNCHANGED <<handshake, registry, queues, link, rest, install, posted, ordered>>

LoseUp(p) ==
    /\ "loseUp" \in May
    /\ \E i \in DOMAIN up[p] : up' = [up EXCEPT ![p] = RemoveAt(@, i)]
    /\ UNCHANGED <<smVars, phoneVars, ordered>>

LoseDown(p) ==
    /\ "loseDown" \in May
    /\ \E i \in DOMAIN down[p] : down' = [down EXCEPT ![p] = RemoveAt(@, i)]
    /\ UNCHANGED <<handshake, registry, queues, link, rest, phoneVars, up, ordered>>

-----------------------------------------------------------------------------

(* The daemon's own steps; what they send needs room as well.              *)
Commands ==
    /\ \A q \in Peers : Room(down[q])
    /\ \/ /\ \E t \in Texts : (Queue(t) \/ SendNow(t) \/ SendFile(t)) /\ ordered' = Append(ordered, t)
          /\ UNCHANGED <<phoneVars, up>>
       \/ /\ \/ "nick" \in May /\ SetNick
             \/ "periodic" \in May /\ PeriodicAnnounce
             \/ "chat" \in May /\ Broadcast
             \/ Subscribe
          /\ UNCHANGED <<phoneVars, up, ordered>>

Clock ==
    /\ \/ PeerTimeout
       \/ \E p \in Peers : \/ "silence" \in May /\ Silence(p)
                           \/ "cooldown" \in May /\ CooldownEnds(p)
                           \/ "queueAges" \in May /\ QueueAges(p)
                           \/ "sessionAges" \in May /\ SessionAges(p)
                           \/ "cancel" \in May /\ CancelPendingSends(p)
       \/ "unsubscribe" \in May /\ Unsubscribe
    /\ UNCHANGED <<phoneVars, up, ordered>>

Phones ==
    \E p \in Peers :
        \/ PhoneAnnounce(p) \/ PhoneStart(p) \/ PhoneRetry(p) \/ PhoneAsks(p)
        \/ PhoneChats(p) \/ PhoneLeaves(p) \/ PhoneReinstalls(p)
        \/ \E m \in Letters : PhoneWrites(p, m)

Link == \E p \in Peers : DeliverUp(p) \/ DeliverDown(p) \/ LoseUp(p) \/ LoseDown(p)

Init ==
    /\ SMInit
    /\ phone \in [Peers -> {NewPhone} \cup IF "stale" \in May THEN {StalePhone} ELSE {}]
    /\ fresh = 2
    /\ install = [p \in Peers |-> 1]
    /\ up = [p \in Peers |-> <<>>]
    /\ heard = [p \in Peers |-> <<>>]
    /\ posted = {}
    /\ derived = [p \in Peers |-> IF phone[p] = StalePhone THEN {<<1, 2>>} ELSE {}]
    /\ ordered = <<>>

Next == Commands \/ Clock \/ Phones \/ Link

Spec == Init /\ [][Next]_vars

(* The event loop gets to every packet and timer; a phone that is in range *)
(* subscribes, announces itself, answers what it hears and tries again.    *)
Fairness ==
    /\ WF_vars(Subscribe /\ UNCHANGED <<phoneVars, up, ordered>>)
    /\ SF_vars(PeriodicAnnounce /\ (\A q \in Peers : Room(down[q])) /\ UNCHANGED <<phoneVars, up, ordered>>)
    /\ \A p \in Peers :
          /\ WF_vars(DeliverUp(p)) /\ WF_vars(DeliverDown(p))
          /\ WF_vars(~phone[p].introduced /\ PhoneAnnounce(p))
          /\ SF_vars(phone[p].st = "idle" /\ PhoneStart(p))
          /\ SF_vars(PhoneRetry(p))

FairSpec == Spec /\ Fairness

-----------------------------------------------------------------------------
(* Properties.                                                             *)

(* Both ends of a session have the same keys.                              *)
Shared(p) ==
    /\ phone[p].st = "up" /\ Established(sessions[p])
    /\ sessions[p].ei = phone[p].ei /\ sessions[p].er = phone[p].er

(* What the packets under way are made of.                                 *)
KeyOrNone == Ephemeral \cup {None}

Messages == [kind : {"msg1", "msg2", "msg3"}, ei : KeyOrNone, er : KeyOrNone]

PacketKeys == [ei : KeyOrNone, er : KeyOrNone, epoch : Nat]

UpPackets ==
    [type : {"announce"}, pub : 1 .. MaxInstalls] \cup [type : {"leave", "sync", "chat"}]
        \cup [type : {"handshake"}, m : Messages]
        \cup [type : {"noise"}, keys : PacketKeys, body : [type : {"text", "receipt"}, id : Letters]]

DownPackets ==
    [type : {"announce", "leave", "chat"}] \cup [type : {"handshake"}, m : Messages]
        \cup [type : {"noise"}, keys : PacketKeys, body : [type : {"text", "file"}, id : Texts]]
        \cup [type : {"noise"}, keys : PacketKeys, body : [type : {"receipt"}, id : Letters]]

PhoneType ==
    [st : {"idle", "waiting", "up"}, ei : KeyOrNone, er : KeyOrNone,
     knows : BOOLEAN, introduced : BOOLEAN]

TypeOK ==
    /\ sessions \in [Peers -> SessionType \cup {None}]
    /\ peers \subseteq Peers /\ announced \subseteq Peers
    /\ peerNoisePub \in [Peers -> 1 .. MaxInstalls \cup {None}]
    /\ lastMsg1 \in [Peers -> KeyOrNone]
    /\ pendingMsg2 \in [Peers -> Messages \cup {None}]
    /\ pendingSends \in [Peers -> Seq([text : Texts, stale : BOOLEAN])]
    /\ lastSeen \in [Peers -> {"never", "recent", "silent"}]
    /\ failCount \in [Peers -> 0 .. FailLimit - 1]
    /\ fate \in [Texts -> {"new", "queued", "sent", "refused", "expired", "left", "timedOut",
                           "cancelled", "crashed"}]
    /\ reachable \in BOOLEAN /\ notifiedOnce \in BOOLEAN
    /\ fresh \in Nat
    /\ down \in [Peers -> Seq(DownPackets)] /\ up \in [Peers -> Seq(UpPackets)]
    /\ phone \in [Peers -> PhoneType] /\ install \in [Peers -> 1 .. MaxInstalls]
    /\ heard \in [Peers -> Seq(Texts)] /\ posted \subseteq Letters
    /\ derived \in [Peers -> SUBSET (KeyOrNone \X KeyOrNone)]
    /\ ordered \in Seq(Texts)

(* An established session has the keys of a handshake its phone finished:  *)
(* no mix of an old first message, a cached answer and a late third        *)
(* message makes one that only the Pi has.                                 *)
Agreement ==
    \A p \in Peers :
        Established(sessions[p]) => <<sessions[p].ei, sessions[p].er>> \in derived[p]

(* On a link that keeps order, a session both ends share lasts until the   *)
(* phone gives it up or has been silent too long: no retry, duplicate or   *)
(* announcement of the phone's, and nothing another phone does, makes the  *)
(* Pi drop it.  It speaks of phones with one Noise key and of sessions not *)
(* used so long that an end renews its keys.                               *)
SharedKept ==
    [][\A p \in Peers : Shared(p) => \/ Shared(p)' \/ phone[p]' # phone[p]
                                     \/ lastSeen[p]' = "never"]_vars

(* send echoes a text to the client and gives it to one peer: it is heard  *)
(* only by that peer, at most once, and in the order of the commands,      *)
(* whether it was queued first or not.  It holds on a link that keeps      *)
(* order, for a phone that stays subscribed.                               *)
InOrder ==
    \A p \in Peers : \A i, j \in DOMAIN heard[p] :
        i < j => \E k, l \in DOMAIN ordered :
                    k < l /\ ordered[k] = heard[p][i] /\ ordered[l] = heard[p][j]

(* A text is queued at most once, for its peer, and is in the queue for as *)
(* long as its fate is open; what was heard had been sent.                 *)
QueueExact ==
    /\ \A p \in Peers : TextsIn(pendingSends[p]) = {t \in Texts : To[t] = p /\ fate[t] = "queued"}
    /\ \A p \in Peers : \A i, j \in DOMAIN pendingSends[p] :
          pendingSends[p][i].text = pendingSends[p][j].text => i = j
    /\ \A p \in Peers : \A i \in DOMAIN heard[p] : fate[heard[p][i]] = "sent"

(* The daemon and its phones implement MessageService: the fates a text    *)
(* can have apart from being sent are ways of being dropped.               *)
Status ==
    [t \in Texts |-> IF fate[t] \in {"expired", "left", "timedOut", "cancelled", "crashed"}
                     THEN "dropped" ELSE fate[t]]

Service == INSTANCE MessageService WITH status <- Status

(* No text is answered for twice, queued twice, sent after it was dropped, *)
(* or heard by a phone that it is not for, before it was sent or again.    *)
ServiceKept == Service!Spec

(* Once the phone is back, a queued text is sent, or is dropped, within a  *)
(* bounded number of handshakes.                                           *)
QueuedIsSettled ==
    \A t \in Texts : fate[t] = "queued" ~> fate[t] # "queued" \/ fresh + 2 > MaxEphemerals

=============================================================================
