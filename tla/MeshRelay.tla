----------------------------- MODULE MeshRelay -----------------------------
(***************************************************************************)
(* A mesh of daemons that pass on each other's packets: _dispatch in       *)
(* server/daemon.py with its deduplication, and RelayEngine in             *)
(* server/bitchatd/mesh/relay_engine.py with its own.                      *)
(*                                                                         *)
(* A packet is a name; Info says what its header holds.  What the session  *)
(* manager makes of a packet is abstracted to a count of how often it got  *)
(* it, and reassembly to the set of fragments held.                        *)
(***************************************************************************)
EXTENDS Integers, Sequences, SequencesExt, FiniteSets

CONSTANTS
    None,
    Phone,         \* a phone next to some of the daemons
    Nodes,         \* the daemons
    Links,         \* who hears whom: a set of <<from, to>>
    Paths,         \* the BLE roles a packet reaches a neighbour by
    Packets,       \* names of packets, fragments included
    Info,          \* sender, type, stamp, recipient, whole packet of a fragment
    Heard,         \* the daemons within reach of a packet's sender
    Knows,         \* the <<daemon, sender>> whose daemon has a session or heard an announce
    Hellos,        \* the bare first messages of a handshake
    Looped,        \* the packets whose source route has a hop twice
    Crowded,       \* the daemons that know more than ten peers
    MaxTtl,        \* MESSAGE_TTL_HOPS
    HighTtl,       \* RELAY_HIGH_TTL_THRESHOLD
    DispatchMax,   \* _DISPATCH_DEDUP_MAX
    RelayMax,      \* MAX_PROCESSED_MESSAGES
    Forgets        \* the daemons whose cache entries reach their age

Headers ==
    [sender : {Phone} \cup Nodes, type : {"message", "handshake", "encrypted", "fragment"}, stamp : Nat,
     to : Nodes \cup {None, Phone}, of : Packets \cup {None}]

ASSUME HeaderAssumption ==
    /\ Info \in [Packets -> Headers]
    /\ \A id \in Packets : (Info[id].type = "fragment") <=> (Info[id].of # None)
    /\ None \notin Packets

(* create_fragments copies sender and recipient into every fragment.       *)
ASSUME FragmentAssumption ==
    \A id \in Packets : Info[id].of # None =>
        /\ Info[Info[id].of].sender = Info[id].sender
        /\ Info[Info[id].of].to = Info[id].to
        /\ Info[Info[id].of].of = None

ASSUME TopologyAssumption ==
    /\ Links \subseteq Nodes \X Nodes /\ Phone \notin Nodes /\ Paths # {}
    /\ \A id \in Packets : Heard[id] \subseteq Nodes
    /\ Hellos \subseteq {id \in Packets : Info[id].type = "handshake"}
    /\ Looped \subseteq Packets /\ Crowded \subseteq Nodes
ASSUME BoundAssumption ==
    /\ MaxTtl \in Nat /\ HighTtl \in Nat
    /\ DispatchMax \in Nat \ {0} /\ RelayMax \in Nat \ {0}
    /\ Forgets \subseteq Nodes

VARIABLES
    sent,         \* the packets that were sent
    air,          \* copies on their way to each daemon
    dispatched,   \* _seen_dispatch, oldest first, without what is too old
    relayed,      \* RelayEngine._seen, likewise
    tasks,        \* handle_relay tasks that have not run yet
    gathered,     \* fragments held by the FragmentManager
    handled,      \* how often the session manager got a packet
    forwarded,    \* how often a packet was broadcast again
    forgotten     \* the entries each daemon's two caches no longer hold

counts == <<handled, forwarded, forgotten>>
vars == <<sent, air, dispatched, relayed, tasks, gathered, counts>>

(* Both counts stop at two.                                                *)
More(n) == IF n < 2 THEN n + 1 ELSE n

Wholes == {id \in Packets : Info[id].of = None}
Parts(w) == {id \in Packets : Info[id].of = w}

-----------------------------------------------------------------------------
(* Deduplication.                                                          *)

IsNoise(id) == Info[id].type \in {"handshake", "encrypted"}

(* Mutant: every packet is told by its timestamp.                          *)
DispatchKeyStamp(id) == <<Info[id].sender, Info[id].type, Info[id].stamp>>

(* _dispatch_dedup_key: a Noise packet is told by its ciphertext.          *)
DispatchKey(id) ==
    IF IsNoise(id)
    THEN <<Info[id].sender, Info[id].type, id>>
    ELSE <<Info[id].sender, Info[id].type, Info[id].stamp>>

(* Mutant: the hop count is part of the key.                               *)
PacketKeyHop(id, ttl) == <<Info[id].sender, Info[id].type, Info[id].stamp, ttl>>

(* _packet_key of what is about to be sent on.                             *)
PacketKey(id, ttl) == <<Info[id].sender, Info[id].type, Info[id].stamp>>

Remembers(q, k) == \E i \in DOMAIN q : q[i] = k

(* Mutant: a full cache takes nothing new.                                 *)
RememberFirst(q, k, max) == IF Len(q) = max THEN q ELSE Append(q, k)

(* A new entry; the oldest one goes when there are too many.               *)
Remember(q, k, max) == LET r == Append(q, k) IN IF Len(r) > max THEN Tail(r) ELSE r

-----------------------------------------------------------------------------
(* _dispatch                                                               *)

Broadcast(id) == Info[id].to = None

ToMe(n, id) == Info[id].to = n

(* A first handshake message is taken whoever it is for, another Noise     *)
(* packet when the sender is known.                                        *)
IsForMe(n, id) ==
    \/ Broadcast(id) \/ ToMe(n, id)
    \/ id \in Hellos
    \/ IsNoise(id) /\ <<n, Info[id].sender>> \in Knows

Duplicate(n, id) == Remembers(dispatched[n], DispatchKey(id))

(* What a daemon does with a packet: remember it, hand it to the session   *)
(* manager, schedule its relay.                                            *)
Process(n, id) ==
    LET q == Remember(dispatched[n], DispatchKey(id), DispatchMax)
    IN  IF Duplicate(n, id)
        THEN UNCHANGED <<dispatched, handled, forgotten>>
        ELSE /\ dispatched' = [dispatched EXCEPT ![n] = q]
             /\ forgotten' = [forgotten EXCEPT ![n].dispatch = @ \cup (ToSet(dispatched[n]) \ ToSet(q))]
             /\ handled' = IF IsForMe(n, id) THEN [handled EXCEPT ![n][id] = More(@)] ELSE handled

(* Mutant: what a daemon has a use for it keeps to itself.                 *)
RelayableElsewhere(n, id, ttl) ==
    IF Duplicate(n, id) \/ IsForMe(n, id) THEN <<>> ELSE <<[id |-> id, ttl |-> ttl]>>

(* The relay that is scheduled for what was not dropped.                   *)
Relayable(n, id, ttl) ==
    IF Duplicate(n, id) \/ ToMe(n, id) THEN <<>> ELSE <<[id |-> id, ttl |-> ttl]>>

DispatchPacket(n, id, ttl) ==
    /\ Info[id].type # "fragment"
    /\ Process(n, id)
    /\ tasks' = [tasks EXCEPT ![n] = @ \o Relayable(n, id, ttl)]
    /\ UNCHANGED gathered

(* A fragment is never a duplicate; the last one of a packet dispatches    *)
(* the packet itself, with no hops left.                                   *)
Completes(n, id) == Parts(Info[id].of) \subseteq gathered[n] \cup {id}

DispatchFragment(n, id, ttl) ==
    LET whole == Info[id].of
        itself == IF ToMe(n, id) THEN <<>> ELSE <<[id |-> id, ttl |-> ttl]>>
    IN  /\ Info[id].type = "fragment"
        /\ IF Completes(n, id)
           THEN /\ gathered' = [gathered EXCEPT ![n] = @ \ Parts(whole)]
                /\ Process(n, whole)
                /\ tasks' = [tasks EXCEPT ![n] = @ \o Relayable(n, whole, 0) \o itself]
           ELSE /\ gathered' = [gathered EXCEPT ![n] = @ \cup {id}]
                /\ tasks' = [tasks EXCEPT ![n] = @ \o itself]
                /\ UNCHANGED <<dispatched, handled, forgotten>>

(* A daemon's own packet comes back to it.                                 *)
DropOwn(n, id) ==
    /\ Info[id].sender = n
    /\ UNCHANGED <<dispatched, handled, forgotten, tasks, gathered>>

Receive(n) ==
    \E c \in air[n] :
        /\ air' = [air EXCEPT ![n] = @ \ {c}]
        /\ \/ DropOwn(n, c.id)
           \/ /\ Info[c.id].sender # n
              /\ DispatchPacket(n, c.id, c.ttl) \/ DispatchFragment(n, c.id, c.ttl)
        /\ UNCHANGED <<sent, relayed, forwarded>>

-----------------------------------------------------------------------------
(* handle_relay                                                            *)

Copies(id, ttl, from) == {[id |-> id, ttl |-> ttl, from |-> from, path |-> p] : p \in Paths}

(* Mutant: the hop count stays.                                            *)
LessHop(ttl) == ttl

OneHopLess(ttl) == ttl - 1

(* _should_relay: below the threshold, in a crowd, it is up to chance.     *)
Sure(n, ttl) == ttl >= HighTtl \/ n \notin Crowded

(* Mutant: the last hop is not used.                                       *)
SpentEarly(ttl) == ttl <= 1

Spent(ttl) == ttl = 0

Forward(n, id, ttl) ==
    /\ air' = [m \in Nodes |-> IF <<n, m>> \in Links THEN air[m] \cup Copies(id, ttl, n) ELSE air[m]]
    /\ forwarded' = [forwarded EXCEPT ![n][id] = More(@)]

HandleRelay(n) ==
    /\ tasks[n] # <<>>
    /\ tasks' = [tasks EXCEPT ![n] = Tail(@)]
    /\ LET id == Head(tasks[n]).id
           ttl == OneHopLess(Head(tasks[n]).ttl)
           key == PacketKey(id, ttl)
       IN  IF Spent(Head(tasks[n]).ttl) \/ Remembers(relayed[n], key)
           THEN UNCHANGED <<air, relayed, forwarded, forgotten>>
           ELSE /\ relayed' = [relayed EXCEPT ![n] = Remember(@, key, RelayMax)]
                /\ forgotten' = [forgotten EXCEPT ![n].relay =
                                    @ \cup (ToSet(relayed[n]) \ ToSet(relayed'[n]))]
                /\ \/ id \notin Looped /\ Forward(n, id, ttl)
                   \/ /\ id \in Looped \/ ~Sure(n, ttl)
                      /\ UNCHANGED <<air, forwarded>>
    /\ UNCHANGED <<sent, dispatched, gathered, handled>>

-----------------------------------------------------------------------------

(* A phone, or a daemon, sends a packet of its own.                        *)
Originate(id) ==
    /\ id \notin sent
    /\ Info[id].type = "fragment" \/ Parts(id) = {}
    /\ sent' = sent \cup {id}
    /\ air' = [m \in Nodes |->
                 IF m \in Heard[id] THEN air[m] \cup Copies(id, MaxTtl, Info[id].sender) ELSE air[m]]
    /\ UNCHANGED <<dispatched, relayed, tasks, gathered, counts>>

(* The oldest entry of a cache has reached its age.                        *)
Ages(n) ==
    /\ n \in Forgets
    /\ \/ /\ dispatched[n] # <<>>
          /\ dispatched' = [dispatched EXCEPT ![n] = Tail(@)]
          /\ forgotten' = [forgotten EXCEPT ![n].dispatch = @ \cup {Head(dispatched[n])}]
          /\ UNCHANGED relayed
       \/ /\ relayed[n] # <<>>
          /\ relayed' = [relayed EXCEPT ![n] = Tail(@)]
          /\ forgotten' = [forgotten EXCEPT ![n].relay = @ \cup {Head(relayed[n])}]
          /\ UNCHANGED dispatched
    /\ UNCHANGED <<sent, air, tasks, gathered, handled, forwarded>>

Init ==
    /\ sent = {}
    /\ air = [n \in Nodes |-> {}]
    /\ dispatched = [n \in Nodes |-> <<>>]
    /\ relayed = [n \in Nodes |-> <<>>]
    /\ tasks = [n \in Nodes |-> <<>>]
    /\ gathered = [n \in Nodes |-> {}]
    /\ handled = [n \in Nodes |-> [id \in Packets |-> 0]]
    /\ forwarded = [n \in Nodes |-> [id \in Packets |-> 0]]
    /\ forgotten = [n \in Nodes |-> [dispatch |-> {}, relay |-> {}]]

Next ==
    \/ \E id \in Packets : Originate(id)
    \/ \E n \in Nodes : Receive(n) \/ HandleRelay(n) \/ Ages(n)

Spec == Init /\ [][Next]_vars

(* The event loops run every callback and task, and copies arrive.  Senders *)
(* send or do not, and nothing need ever age.                              *)
FairSpec == Spec /\ \A n \in Nodes : WF_vars(Receive(n)) /\ WF_vars(HandleRelay(n))

-----------------------------------------------------------------------------
(* Properties.                                                             *)

Copy == [id : Packets, ttl : 0 .. MaxTtl, from : Nodes \cup {Phone}, path : Paths]
Task == [id : Packets, ttl : 0 .. MaxTtl]

TypeOK ==
    /\ sent \subseteq Packets
    /\ \A n \in Nodes :
          /\ air[n] \subseteq Copy
          /\ Len(dispatched[n]) <= DispatchMax /\ IsInjective(dispatched[n])
          /\ Len(relayed[n]) <= RelayMax /\ IsInjective(relayed[n])
          /\ tasks[n] \in Seq(Task)
          /\ gathered[n] \subseteq {id \in Packets : Info[id].type = "fragment"}
          /\ \A id \in Packets : handled[n][id] \in 0 .. 2 /\ forwarded[n][id] \in 0 .. 2

(* For as long as a daemon remembers a packet it does not give it to the   *)
(* session manager again, by whatever path, role or neighbour, whole or in *)
(* fragments, another copy arrives.                                        *)
HandledOnce ==
    \A n \in Nodes : \A id \in Packets :
        handled[n][id] > 1 => DispatchKey(id) \in forgotten[n].dispatch

(* CHANGELOG: the cache prevents loops.  A daemon broadcasts a packet      *)
(* again at most once, and its own never, for as long as it remembers it.  *)
RelayedOnce ==
    \A n \in Nodes : \A id \in Packets :
        /\ forwarded[n][id] > 1 => PacketKey(id, 0) \in forgotten[n].relay
        /\ Info[id].sender = n => forwarded[n][id] = 0

(* Nothing is under way.                                                   *)
Quiet == \A n \in Nodes : air[n] = {} /\ tasks[n] = <<>>

(* A packet was sent, or every fragment of it.                             *)
Sent(id) == id \in sent \/ (Parts(id) # {} /\ Parts(id) \subseteq sent)

(* Every piece of a packet comes from next door.                           *)
Near(n, id) == \A p \in IF Parts(id) = {} THEN {id} ELSE Parts(id) : n \in Heard[p]

(* Its sender gave no other packet of the type the same millisecond.       *)
Alone(id) == \A j \in Wholes : PacketKey(j, 0) = PacketKey(id, 0) => j = id

(* README: the daemon relays mesh traffic.  When the flood is over, every  *)
(* packet that was sent has been with the session manager of everyone it   *)
(* is for.  Of several Noise packets of one millisecond that is so next to *)
(* their sender only: they are handled each, but relayed as one.  The hops *)
(* suffice in the meshes of the runs, and FloodReachesAll of               *)
(* MeshRelayProofs says when they do in others.                            *)
FloodReaches ==
    Quiet => \A id \in Wholes \ Looped, n \in Nodes :
                /\ Sent(id) /\ IsForMe(n, id) /\ Info[id].sender # n
                /\ Alone(id) \/ (IsNoise(id) /\ Near(n, id))
                => handled[n][id] > 0

(* BitChatPi_Architecture.md:113: a packet with hops enough is always       *)
(* relayed.  The code takes the fragments of a packet, which carry its     *)
(* timestamp, for one packet and relays the first of them only.            *)
HighTtlAlwaysRelayed ==
    Quiet => \A id \in sent \ Looped : \A n \in Heard[id] :
                MaxTtl > HighTtl /\ ~ToMe(n, id) => forwarded[n][id] > 0

(* The flood ends even if the caches forget everything all the time.       *)
FloodEnds == <>[]Quiet

=============================================================================
