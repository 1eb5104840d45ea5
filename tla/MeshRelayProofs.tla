--------------------------- MODULE MeshRelayProofs ---------------------------
(***************************************************************************)
(* What the two deduplication caches of a daemon guarantee, for every mesh, *)
(* all traffic and every capacity of the caches.                           *)
(***************************************************************************)
EXTENDS MeshRelay, TLAPS, FiniteSetTheorems

(* What is left when the oldest entry goes.                                *)
LEMMA TailFacts ==
    ASSUME NEW S, NEW q \in Seq(S), q # <<>>
    PROVE  /\ Tail(q) \in Seq(S)
           /\ Len(Tail(q)) = Len(q) - 1
           /\ Head(q) \in S
           /\ ToSet(q) \subseteq ToSet(Tail(q)) \cup {Head(q)}
           /\ ToSet(Tail(q)) \subseteq ToSet(q)
           /\ IsInjective(q) => IsInjective(Tail(q))
PROOF
  <1>1. /\ Tail(q) \in Seq(S) /\ Len(Tail(q)) = Len(q) - 1 /\ Head(q) = q[1]
        /\ Len(q) \in Nat \ {0} /\ DOMAIN q = 1 .. Len(q) /\ DOMAIN Tail(q) = 1 .. (Len(q) - 1)
        /\ \A i \in 1 .. (Len(q) - 1) : Tail(q)[i] = q[i + 1]
    OBVIOUS
  <1>2. \A i \in 1 .. Len(q) : i = 1 \/ (i - 1 \in DOMAIN Tail(q) /\ Tail(q)[i - 1] = q[i])
    BY <1>1
  <1>3. \A i \in DOMAIN Tail(q) : i + 1 \in DOMAIN q /\ Tail(q)[i] = q[i + 1]
    BY <1>1
  <1>4. ToSet(q) \subseteq ToSet(Tail(q)) \cup {Head(q)}
    <2> SUFFICES ASSUME NEW i \in 1 .. Len(q), q[i] # q[1]
                 PROVE  \E j \in DOMAIN Tail(q) : Tail(q)[j] = q[i]
      BY <1>1 DEF ToSet
    <2>1. i - 1 \in DOMAIN Tail(q) /\ Tail(q)[i - 1] = q[i]
      BY <1>2
    <2> QED BY <2>1
  <1>5. ToSet(Tail(q)) \subseteq ToSet(q)
    BY <1>3 DEF ToSet
  <1>6. IsInjective(q) => IsInjective(Tail(q))
    BY <1>1, <1>3 DEF IsInjective
  <1> QED BY <1>1, <1>4, <1>5, <1>6

(* A cache that has room for one entry holds the newest.                   *)
LEMMA RememberFacts ==
    ASSUME NEW S, NEW q \in Seq(S), NEW k \in S, NEW max \in Nat \ {0}
    PROVE  /\ Remember(q, k, max) \in Seq(S)
           /\ k \in ToSet(Remember(q, k, max))
           /\ ~Remembers(q, k) /\ IsInjective(q) => IsInjective(Remember(q, k, max))
           /\ Len(q) <= max => Len(Remember(q, k, max)) <= max
PROOF
  <1> DEFINE r == Append(q, k)
  <1>1. /\ r \in Seq(S) /\ Len(r) = Len(q) + 1 /\ r[Len(r)] = k /\ Len(q) \in Nat
        /\ DOMAIN r = 1 .. Len(r) /\ DOMAIN q = 1 .. Len(q) /\ r # <<>>
        /\ \A i \in 1 .. Len(q) : r[i] = q[i]
    OBVIOUS
  <1>6. Remember(q, k, max) = IF Len(r) > max THEN Tail(r) ELSE r
    BY DEF Remember
  <1> HIDE DEF r
  <1>2. ~Remembers(q, k) /\ IsInjective(q) => IsInjective(r)
    <2> SUFFICES ASSUME ~Remembers(q, k), IsInjective(q), NEW i \in DOMAIN r, NEW j \in DOMAIN r, r[i] = r[j]
                 PROVE  i = j
      BY DEF IsInjective
    <2>1. CASE i = Len(r) /\ j # Len(r)
      BY <2>1, <1>1 DEF Remembers
    <2>2. CASE j = Len(r) /\ i # Len(r)
      BY <2>2, <1>1 DEF Remembers
    <2>3. CASE i # Len(r) /\ j # Len(r)
      BY <2>3, <1>1 DEF IsInjective
    <2> QED BY <2>1, <2>2, <2>3
  <1>3. /\ Tail(r) \in Seq(S) /\ Len(Tail(r)) = Len(q)
        /\ IsInjective(r) => IsInjective(Tail(r))
    BY <1>1, TailFacts
  <1>4. k \in ToSet(r)
    BY <1>1 DEF ToSet
  <1>5. Len(r) > max => k \in ToSet(Tail(r))
    <2> HAVE Len(r) > max
    <2>1. Len(r) - 1 \in DOMAIN Tail(r) /\ Tail(r)[Len(r) - 1] = k
      BY <1>1
    <2> QED BY <2>1 DEF ToSet
  <1> QED BY <1>1, <1>2, <1>3, <1>4, <1>5, <1>6

-----------------------------------------------------------------------------
(* The inductive invariant.                                                *)

Keys == {DispatchKey(id) : id \in Packets}
RelayKeys == {PacketKey(id, 0) : id \in Packets}
Fragments == {id \in Packets : Info[id].type = "fragment"}

Typed ==
    /\ sent \subseteq Packets
    /\ air \in [Nodes -> SUBSET Copy]
    /\ dispatched \in [Nodes -> Seq(Keys)]
    /\ relayed \in [Nodes -> Seq(RelayKeys)]
    /\ tasks \in [Nodes -> Seq(Task)]
    /\ gathered \in [Nodes -> SUBSET Fragments]
    /\ handled \in [Nodes -> [Packets -> 0 .. 2]]
    /\ forwarded \in [Nodes -> [Packets -> 0 .. 2]]
    /\ forgotten \in [Nodes -> [dispatch : SUBSET Keys, relay : SUBSET RelayKeys]]

(* A cache is no longer than it may be and holds an entry once.            *)
Cached(q, max) == Len(q) <= max /\ IsInjective(q)

(* What a cache once took it holds or has forgotten.                       *)
Accounted(count, key, q, gone) ==
    /\ count > 0 => key \in ToSet(q) \cup gone
    /\ count > 1 => key \in gone

Dispatches(n) ==
    /\ Cached(dispatched[n], DispatchMax)
    /\ \A id \in Packets :
          Accounted(handled[n][id], DispatchKey(id), dispatched[n], forgotten[n].dispatch)

Relays(n) ==
    /\ Cached(relayed[n], RelayMax)
    /\ \A id \in Packets :
          /\ Accounted(forwarded[n][id], PacketKey(id, 0), relayed[n], forgotten[n].relay)
          /\ Info[id].sender = n => forwarded[n][id] = 0

(* No relay of a packet of its own is ever scheduled.                      *)
Foreign(n) == \A i \in DOMAIN tasks[n] : Info[tasks[n][i].id].sender # n

CacheInv == \A n \in Nodes : Dispatches(n) /\ Relays(n) /\ Foreign(n)

IInv == Typed /\ CacheInv

(* A packet that is not in the cache is taken up in it and counted.        *)
LEMMA AccountedNew ==
    ASSUME NEW S, NEW q \in Seq(S), NEW key \in S, NEW max \in Nat \ {0}, NEW gone,
           NEW count \in 0 .. 2, Accounted(count, key, q, gone), ~Remembers(q, key)
    PROVE  Accounted(More(count), key, Remember(q, key, max),
                     gone \cup (ToSet(q) \ ToSet(Remember(q, key, max))))
PROOF
  <1>1. key \notin ToSet(q)
    BY DEF Remembers, ToSet
  <1>2. key \in ToSet(Remember(q, key, max))
    BY RememberFacts
  <1>3. count > 0 => key \in gone
    BY <1>1 DEF Accounted
  <1>4. More(count) > 1 => count > 0
    BY DEF More
  <1> QED BY <1>2, <1>3, <1>4 DEF Accounted

(* Dispatching a packet keeps the dispatch cache and what is counted by it. *)
LEMMA ProcessStep ==
    ASSUME IInv, NEW n \in Nodes, NEW id \in Packets, Process(n, id)
    PROVE  /\ dispatched' \in [Nodes -> Seq(Keys)]
           /\ handled' \in [Nodes -> [Packets -> 0 .. 2]]
           /\ forgotten' \in [Nodes -> [dispatch : SUBSET Keys, relay : SUBSET RelayKeys]]
           /\ \A m \in Nodes : Dispatches(m)' /\ forgotten'[m].relay = forgotten[m].relay
PROOF
  <1> USE DEF IInv, Typed, CacheInv
  <1>1. CASE Duplicate(n, id)
    BY <1>1 DEF Process, Dispatches
  <1>2. CASE ~Duplicate(n, id)
    <2> DEFINE k == DispatchKey(id)
               q == dispatched[n]
               r == Remember(q, k, DispatchMax)
               gone == forgotten[n].dispatch
               more == gone \cup (ToSet(q) \ ToSet(r))
    <2>1. /\ dispatched' = [dispatched EXCEPT ![n] = r]
          /\ forgotten' = [forgotten EXCEPT ![n].dispatch = more]
          /\ handled' = IF IsForMe(n, id) THEN [handled EXCEPT ![n][id] = More(@)] ELSE handled
      BY <1>2 DEF Process
    <2>2. k \in Keys /\ q \in Seq(Keys) /\ ~Remembers(q, k) /\ DispatchMax \in Nat \ {0}
      BY <1>2, BoundAssumption DEF Keys, Duplicate
    <2>3. r \in Seq(Keys) /\ k \in ToSet(r) /\ Cached(r, DispatchMax)
      BY <2>2, RememberFacts DEF Cached, Dispatches
    <2>4. ToSet(q) \subseteq Keys
      BY <2>2 DEF ToSet
    <2>5. more \in SUBSET Keys
      BY <2>4
    <2>6. \A c \in 0 .. 2 : More(c) \in 0 .. 2
      BY DEF More
    <2> HIDE DEF r, more
    <2>7. /\ dispatched' \in [Nodes -> Seq(Keys)] /\ handled' \in [Nodes -> [Packets -> 0 .. 2]]
          /\ forgotten' \in [Nodes -> [dispatch : SUBSET Keys, relay : SUBSET RelayKeys]]
          /\ \A m \in Nodes : forgotten'[m].relay = forgotten[m].relay
      BY <2>1, <2>3, <2>5, <2>6
    <2>8. ASSUME NEW m \in Nodes, m # n
          PROVE  Dispatches(m)'
      BY <2>1, <2>8 DEF Dispatches
    <2>9. Dispatches(n)'
      <3>1. dispatched'[n] = r /\ forgotten'[n].dispatch = more
        BY <2>1
      <3>2. ASSUME NEW j \in Packets
            PROVE  Accounted(handled'[n][j], DispatchKey(j), r, more)
        <4>1. Accounted(handled[n][j], DispatchKey(j), q, gone) /\ handled[n][j] \in 0 .. 2
          BY DEF Dispatches
        <4>2. CASE handled'[n][j] = handled[n][j]
          <5>1. ToSet(q) \subseteq ToSet(r) \cup more /\ gone \subseteq more
            BY DEF more
          <5> QED BY <4>1, <4>2, <5>1 DEF Accounted
        <4>3. CASE handled'[n][j] # handled[n][j]
          <5>1. j = id /\ handled'[n][j] = More(handled[n][j])
            BY <2>1, <4>3
          <5>2. Accounted(handled[n][j], k, q, gone)
            BY <4>1, <5>1
          <5>3. Accounted(More(handled[n][j]), k, Remember(q, k, DispatchMax),
                          gone \cup (ToSet(q) \ ToSet(Remember(q, k, DispatchMax))))
            BY <4>1, <5>2, <2>2, AccountedNew
          <5>4. Accounted(More(handled[n][j]), k, r, more)
            BY <5>3 DEF r, more
          <5> QED BY <5>1, <5>4
        <4> QED BY <4>2, <4>3
      <3> QED BY <3>1, <3>2, <2>3 DEF Dispatches
    <2> QED BY <2>7, <2>8, <2>9
  <1> QED BY <1>1, <1>2

(* What is scheduled after what was scheduled already.                     *)
LEMMA ForeignAppend ==
    ASSUME NEW n, NEW q \in Seq(Task), NEW t \in Seq(Task),
           \A i \in DOMAIN q : Info[q[i].id].sender # n,
           \A i \in DOMAIN t : Info[t[i].id].sender # n
    PROVE  q \o t \in Seq(Task) /\ \A i \in DOMAIN (q \o t) : Info[(q \o t)[i].id].sender # n
PROOF
  <1>1. /\ q \o t \in Seq(Task) /\ Len(q) \in Nat /\ Len(t) \in Nat
        /\ DOMAIN (q \o t) = 1 .. (Len(q) + Len(t)) /\ DOMAIN q = 1 .. Len(q) /\ DOMAIN t = 1 .. Len(t)
        /\ \A i \in 1 .. (Len(q) + Len(t)) :
              (q \o t)[i] = IF i <= Len(q) THEN q[i] ELSE t[i - Len(q)]
    OBVIOUS
  <1>2. ASSUME NEW i \in 1 .. (Len(q) + Len(t))
        PROVE  Info[(q \o t)[i].id].sender # n
    <2>1. CASE i <= Len(q)
      BY <1>1, <2>1
    <2>2. CASE ~(i <= Len(q))
      <3>1. i - Len(q) \in DOMAIN t
        BY <1>1, <2>2
      <3> QED BY <1>1, <2>2, <3>1
    <2> QED BY <2>1, <2>2
  <1> QED BY <1>1, <1>2

(* What is scheduled for a packet that is not a daemon's own is not its    *)
(* own.                                                                    *)
LEMMA ForeignStep ==
    ASSUME IInv, NEW n \in Nodes, NEW t \in Seq(Task),
           \A i \in DOMAIN t : Info[t[i].id].sender # n,
           tasks' = [tasks EXCEPT ![n] = @ \o t]
    PROVE  tasks' \in [Nodes -> Seq(Task)] /\ \A m \in Nodes : Foreign(m)'
PROOF
  <1>1. tasks[n] \in Seq(Task) /\ \A i \in DOMAIN tasks[n] : Info[tasks[n][i].id].sender # n
    BY DEF IInv, Typed, CacheInv, Foreign
  <1>2. /\ tasks[n] \o t \in Seq(Task)
        /\ \A i \in DOMAIN (tasks[n] \o t) : Info[(tasks[n] \o t)[i].id].sender # n
    BY <1>1, ForeignAppend
  <1> DEFINE u == tasks[n] \o t
  <1>3. u \in Seq(Task) /\ \A i \in DOMAIN u : Info[u[i].id].sender # n
    BY <1>2
  <1>4. tasks' = [tasks EXCEPT ![n] = u]
    OBVIOUS
  <1> HIDE DEF u
  <1> QED BY <1>3, <1>4 DEF IInv, Typed, CacheInv, Foreign

(* Dispatching leaves the relay cache alone.                               *)
LEMMA RelaysSame ==
    ASSUME IInv, UNCHANGED <<relayed, forwarded>>,
           \A m \in Nodes : forgotten'[m].relay = forgotten[m].relay
    PROVE  \A m \in Nodes : Relays(m)'
  BY DEF IInv, CacheInv, Relays

LEMMA DispatchStep ==
    ASSUME IInv, NEW n \in Nodes, NEW id \in Packets, NEW ttl \in 0 .. MaxTtl,
           Info[id].sender # n,
           DispatchPacket(n, id, ttl) \/ DispatchFragment(n, id, ttl),
           UNCHANGED <<sent, relayed, forwarded>>, air' \in [Nodes -> SUBSET Copy]
    PROVE  IInv'
PROOF
  <1> USE DEF IInv
  <1> DEFINE itself == IF ToMe(n, id) THEN <<>> ELSE <<[id |-> id, ttl |-> ttl]>>
  <1>a. 0 \in 0 .. MaxTtl
    BY BoundAssumption
  <1>b. ASSUME NEW j \in Packets, NEW h \in 0 .. MaxTtl, Info[j].sender # n
        PROVE  /\ <<[id |-> j, ttl |-> h]>> \in Seq(Task)
               /\ \A i \in DOMAIN <<[id |-> j, ttl |-> h]>> : Info[<<[id |-> j, ttl |-> h]>>[i].id].sender # n
               /\ Relayable(n, j, h) \in Seq(Task)
               /\ \A i \in DOMAIN Relayable(n, j, h) : Info[Relayable(n, j, h)[i].id].sender # n
    <2> DEFINE x == [id |-> j, ttl |-> h]
    <2>1. x \in Task /\ x.id = j
      BY DEF Task
    <2> HIDE DEF x
    <2>2. <<x>> \in Seq(Task) /\ \A i \in DOMAIN <<x>> : i = 1 /\ <<x>>[i] = x
      BY <2>1
    <2>3. Relayable(n, j, h) \in {<<>>, <<x>>}
      BY DEF Relayable, x
    <2>4. <<>> \in Seq(Task) /\ DOMAIN <<>> = {}
      OBVIOUS
    <2>5. \A i \in DOMAIN <<x>> : Info[<<x>>[i].id].sender # n
      BY <1>b, <2>1, <2>2
    <2>6. CASE Relayable(n, j, h) = <<>>
      BY <2>2, <2>4, <2>5, <2>6 DEF x
    <2>7. CASE Relayable(n, j, h) = <<x>>
      BY <2>2, <2>5, <2>7 DEF x
    <2> QED BY <2>3, <2>6, <2>7
  <1>c. itself \in Seq(Task) /\ \A i \in DOMAIN itself : Info[itself[i].id].sender # n
    <2>1. CASE ToMe(n, id)
      BY <2>1
    <2>2. CASE ~ToMe(n, id)
      BY <2>2, <1>b
    <2> QED BY <2>1, <2>2
  <1> HIDE DEF itself
  <1>1. CASE DispatchPacket(n, id, ttl)
    <2>1. /\ Process(n, id) /\ UNCHANGED gathered
          /\ tasks' = [tasks EXCEPT ![n] = @ \o Relayable(n, id, ttl)]
      BY <1>1 DEF DispatchPacket
    <2>2. tasks' \in [Nodes -> Seq(Task)] /\ \A m \in Nodes : Foreign(m)'
      BY <2>1, <1>b, ForeignStep
    <2>3. /\ dispatched' \in [Nodes -> Seq(Keys)]
          /\ handled' \in [Nodes -> [Packets -> 0 .. 2]]
          /\ forgotten' \in [Nodes -> [dispatch : SUBSET Keys, relay : SUBSET RelayKeys]]
          /\ \A m \in Nodes : Dispatches(m)' /\ forgotten'[m].relay = forgotten[m].relay
      BY <2>1, ProcessStep
    <2>4. \A m \in Nodes : Relays(m)'
      BY <2>3, RelaysSame
    <2> QED BY <2>1, <2>2, <2>3, <2>4 DEF Typed, CacheInv
  <1>2. CASE DispatchFragment(n, id, ttl)
    <2> DEFINE whole == Info[id].of
    <2>1. Info[id].type = "fragment" /\ id \in Fragments
      BY <1>2 DEF DispatchFragment, Fragments
    <2>2. whole \in Packets /\ Info[whole].sender # n
      BY <2>1, HeaderAssumption, FragmentAssumption DEF Headers
    <2>3. CASE Completes(n, id)
      <3>1. /\ gathered' = [gathered EXCEPT ![n] = @ \ Parts(whole)]
            /\ Process(n, whole)
            /\ tasks' = [tasks EXCEPT ![n] = @ \o Relayable(n, whole, 0) \o itself]
        BY <1>2, <2>3 DEF DispatchFragment, itself
      <3>2. /\ Relayable(n, whole, 0) \o itself \in Seq(Task)
            /\ \A i \in DOMAIN (Relayable(n, whole, 0) \o itself) :
                  Info[(Relayable(n, whole, 0) \o itself)[i].id].sender # n
        <4> DEFINE q == Relayable(n, whole, 0)
        <4>1. q \in Seq(Task) /\ \A i \in DOMAIN q : Info[q[i].id].sender # n
          BY <1>a, <1>b, <2>2
        <4> HIDE DEF q
        <4>2. q \o itself \in Seq(Task)
              /\ \A i \in DOMAIN (q \o itself) : Info[(q \o itself)[i].id].sender # n
          BY ONLY <1>c, <4>1, ForeignAppend
        <4> QED BY <4>2 DEF q
      <3>3. tasks' = [tasks EXCEPT ![n] = @ \o (Relayable(n, whole, 0) \o itself)]
        <4>1. /\ tasks \in [Nodes -> Seq(Task)] /\ tasks[n] \in Seq(Task)
              /\ Relayable(n, whole, 0) \in Seq(Task) /\ itself \in Seq(Task)
          BY <1>a, <1>b, <1>c, <2>2 DEF Typed
        <4>2. \A p, q, r \in Seq(Task) : (p \o q) \o r = p \o (q \o r)
          OBVIOUS
        <4>3. (tasks[n] \o Relayable(n, whole, 0)) \o itself = tasks[n] \o (Relayable(n, whole, 0) \o itself)
          BY <4>1, <4>2
        <4> QED BY <3>1, <4>3
      <3>4. tasks' \in [Nodes -> Seq(Task)] /\ \A m \in Nodes : Foreign(m)'
        BY <3>2, <3>3, ForeignStep
      <3>5. /\ dispatched' \in [Nodes -> Seq(Keys)]
            /\ handled' \in [Nodes -> [Packets -> 0 .. 2]]
            /\ forgotten' \in [Nodes -> [dispatch : SUBSET Keys, relay : SUBSET RelayKeys]]
            /\ \A m \in Nodes : Dispatches(m)' /\ forgotten'[m].relay = forgotten[m].relay
        BY <3>1, <2>2, ProcessStep
      <3>6. \A m \in Nodes : Relays(m)'
        BY <3>5, RelaysSame
      <3>7. gathered' \in [Nodes -> SUBSET Fragments]
        BY <3>1 DEF Typed
      <3> QED BY <3>4, <3>5, <3>6, <3>7 DEF Typed, CacheInv
    <2>4. CASE ~Completes(n, id)
      <3>1. /\ gathered' = [gathered EXCEPT ![n] = @ \cup {id}]
            /\ tasks' = [tasks EXCEPT ![n] = @ \o itself]
            /\ UNCHANGED <<dispatched, handled, forgotten>>
        BY <1>2, <2>4 DEF DispatchFragment, itself
      <3>2. tasks' \in [Nodes -> Seq(Task)] /\ \A m \in Nodes : Foreign(m)'
        BY <3>1, <1>c, ForeignStep
      <3>3. \A m \in Nodes : Relays(m)'
        BY <3>1, RelaysSame
      <3>4. \A m \in Nodes : Dispatches(m)'
        BY <3>1 DEF CacheInv, Dispatches
      <3>5. gathered' \in [Nodes -> SUBSET Fragments]
        BY <3>1, <2>1 DEF Typed
      <3> QED BY <3>1, <3>2, <3>3, <3>4, <3>5 DEF Typed, CacheInv
    <2> QED BY <2>3, <2>4
  <1> QED BY <1>1, <1>2

LEMMA ReceiveStep ==
    ASSUME IInv, NEW n \in Nodes, Receive(n)
    PROVE  IInv'
PROOF
  <1>1. PICK c \in air[n] :
          /\ air' = [air EXCEPT ![n] = @ \ {c}]
          /\ \/ DropOwn(n, c.id)
             \/ /\ Info[c.id].sender # n
                /\ DispatchPacket(n, c.id, c.ttl) \/ DispatchFragment(n, c.id, c.ttl)
          /\ UNCHANGED <<sent, relayed, forwarded>>
    BY DEF Receive
  <1>2. c.id \in Packets /\ c.ttl \in 0 .. MaxTtl
    BY DEF IInv, Typed, Copy
  <1>3. air' \in [Nodes -> SUBSET Copy]
    BY <1>1 DEF IInv, Typed
  <1>4. CASE DropOwn(n, c.id)
    <2>1. UNCHANGED <<sent, dispatched, relayed, tasks, gathered, handled, forwarded, forgotten>>
      BY <1>1, <1>4 DEF DropOwn
    <2>2. \A m \in Nodes : Dispatches(m)' /\ Relays(m)' /\ Foreign(m)'
      BY <2>1 DEF IInv, CacheInv, Dispatches, Relays, Foreign
    <2> QED BY <2>1, <2>2, <1>3 DEF IInv, Typed, CacheInv
  <1>5. CASE /\ Info[c.id].sender # n
             /\ DispatchPacket(n, c.id, c.ttl) \/ DispatchFragment(n, c.id, c.ttl)
    BY <1>1, <1>2, <1>3, <1>5, DispatchStep
  <1> QED BY <1>1, <1>4, <1>5

(* A relay task that is not spent and not seen yet is noted and forwarded  *)
(* at most once.                                                           *)
LEMMA HandleRelayStep ==
    ASSUME IInv, NEW n \in Nodes, HandleRelay(n)
    PROVE  IInv'
PROOF
  <1> USE DEF IInv
  <1> DEFINE id == Head(tasks[n]).id
             ttl == OneHopLess(Head(tasks[n]).ttl)
             key == PacketKey(id, ttl)
             q == relayed[n]
             r == Remember(q, key, RelayMax)
             gone == forgotten[n].relay
             more == gone \cup (ToSet(q) \ ToSet(r))
  <1>1. tasks[n] \in Seq(Task) /\ tasks[n] # <<>> /\ tasks' = [tasks EXCEPT ![n] = Tail(@)]
    BY DEF HandleRelay, Typed
  <1>2. /\ Tail(tasks[n]) \in Seq(Task) /\ Head(tasks[n]) \in Task
        /\ \A i \in DOMAIN Tail(tasks[n]) : i + 1 \in DOMAIN tasks[n] /\ Tail(tasks[n])[i] = tasks[n][i + 1]
        /\ 1 \in DOMAIN tasks[n] /\ Head(tasks[n]) = tasks[n][1]
    BY <1>1
  <1>3. id \in Packets /\ Info[id].sender # n
    BY <1>2 DEF Task, CacheInv, Foreign
  <1>4. tasks' \in [Nodes -> Seq(Task)] /\ \A m \in Nodes : Foreign(m)'
    <2>1. tasks' \in [Nodes -> Seq(Task)]
      BY <1>1, <1>2 DEF Typed
    <2>2. ASSUME NEW m \in Nodes
          PROVE  Foreign(m)'
      <3>1. CASE m = n
        BY <1>1, <1>2, <3>1 DEF Foreign, CacheInv, Typed
      <3>2. CASE m # n
        BY <1>1, <3>2 DEF Foreign, CacheInv, Typed
      <3> QED BY <3>1, <3>2
    <2> QED BY <2>1, <2>2
  <1>5. UNCHANGED <<sent, dispatched, gathered, handled>>
    BY DEF HandleRelay
  <1>6. CASE Spent(Head(tasks[n]).ttl) \/ Remembers(relayed[n], key)
    <2>1. UNCHANGED <<air, relayed, forwarded, forgotten>>
      BY <1>6 DEF HandleRelay
    <2>2. \A m \in Nodes : Dispatches(m)' /\ Relays(m)'
      BY <1>5, <2>1 DEF CacheInv, Dispatches, Relays
    <2> QED BY <1>4, <1>5, <2>1, <2>2 DEF Typed, CacheInv
  <1>7. CASE ~(Spent(Head(tasks[n]).ttl) \/ Remembers(relayed[n], key))
    <2>1. /\ relayed' = [relayed EXCEPT ![n] = r]
          /\ forgotten' = [forgotten EXCEPT ![n].relay = gone \cup (ToSet(q) \ ToSet(relayed'[n]))]
          /\ \/ id \notin Looped /\ Forward(n, id, ttl)
             \/ UNCHANGED <<air, forwarded>>
      BY <1>7 DEF HandleRelay
    <2>2. key \in RelayKeys /\ q \in Seq(RelayKeys) /\ ~Remembers(q, key) /\ RelayMax \in Nat \ {0}
      BY <1>3, <1>7, BoundAssumption DEF RelayKeys, PacketKey, Typed
    <2>3. r \in Seq(RelayKeys) /\ Cached(r, RelayMax)
      BY <2>2, RememberFacts DEF Cached, CacheInv, Relays
    <2>4. more \in SUBSET RelayKeys
      <3>1. ToSet(q) \subseteq RelayKeys
        BY <2>2 DEF ToSet
      <3> QED BY <3>1 DEF Typed
    <2>5. ttl \in 0 .. MaxTtl
      <3>1. Head(tasks[n]).ttl \in 0 .. MaxTtl /\ Head(tasks[n]).ttl # 0 /\ MaxTtl \in Nat
        BY <1>2, <1>7, BoundAssumption DEF Task, Spent
      <3> QED BY <3>1 DEF OneHopLess
    <2> HIDE DEF r, key, ttl, id
    <2>6. relayed'[n] = r
      BY <2>1 DEF Typed
    <2>7. forgotten' = [forgotten EXCEPT ![n].relay = more]
      BY <2>1, <2>6
    <2> HIDE DEF more
    <2>8. /\ relayed' \in [Nodes -> Seq(RelayKeys)]
          /\ forgotten' \in [Nodes -> [dispatch : SUBSET Keys, relay : SUBSET RelayKeys]]
          /\ \A m \in Nodes : forgotten'[m].dispatch = forgotten[m].dispatch
          /\ \A m \in Nodes : m # n => relayed'[m] = relayed[m] /\ forgotten'[m] = forgotten[m]
          /\ forgotten'[n].relay = more
      <3>1. relayed' = [relayed EXCEPT ![n] = r] /\ r \in Seq(RelayKeys) /\ relayed \in [Nodes -> Seq(RelayKeys)]
        BY <2>1, <2>3 DEF Typed
      <3>2. /\ relayed' \in [Nodes -> Seq(RelayKeys)]
            /\ \A m \in Nodes : m # n => relayed'[m] = relayed[m]
        BY <3>1
      <3>3. /\ forgotten' = [forgotten EXCEPT ![n].relay = more] /\ more \in SUBSET RelayKeys
            /\ forgotten \in [Nodes -> [dispatch : SUBSET Keys, relay : SUBSET RelayKeys]]
        BY <2>4, <2>7 DEF Typed
      <3>4. /\ forgotten' \in [Nodes -> [dispatch : SUBSET Keys, relay : SUBSET RelayKeys]]
            /\ \A m \in Nodes : m # n => forgotten'[m] = forgotten[m]
            /\ forgotten'[n].relay = more /\ forgotten'[n].dispatch = forgotten[n].dispatch
        BY <3>3
      <3> QED BY <3>2, <3>4
    <2>9. /\ air' \in [Nodes -> SUBSET Copy]
          /\ forwarded' = forwarded \/ forwarded' = [forwarded EXCEPT ![n][id] = More(@)]
      <3>1. CASE UNCHANGED <<air, forwarded>>
        BY <3>1 DEF Typed
      <3>2. CASE Forward(n, id, ttl)
        <4>1. Copies(id, ttl, n) \subseteq Copy
          BY <1>3, <2>5 DEF Copies, Copy
        <4> QED BY <3>2, <4>1 DEF Forward, Typed
      <3> QED BY <2>1, <3>1, <3>2
    <2>10. forwarded' \in [Nodes -> [Packets -> 0 .. 2]]
      <3>1. \A c \in 0 .. 2 : More(c) \in 0 .. 2
        BY DEF More
      <3>2. forwarded \in [Nodes -> [Packets -> 0 .. 2]] /\ id \in Packets
        BY <1>3 DEF Typed
      <3>3. CASE forwarded' = forwarded
        BY <3>2, <3>3
      <3>4. CASE forwarded' = [forwarded EXCEPT ![n][id] = More(@)]
        BY <3>1, <3>2, <3>4
      <3> QED BY <2>9, <3>3, <3>4
    <2>11. \A m \in Nodes : Dispatches(m)'
      BY <1>5, <2>8 DEF CacheInv, Dispatches
    <2>12. ASSUME NEW m \in Nodes, m # n
           PROVE  Relays(m)'
      <3>1. forwarded'[m] = forwarded[m]
        BY <2>9, <2>12 DEF Typed
      <3> QED BY <2>8, <2>12, <3>1 DEF CacheInv, Relays
    <2>13. Relays(n)'
      <3>1. ASSUME NEW j \in Packets
            PROVE  /\ Accounted(forwarded'[n][j], PacketKey(j, 0), r, more)
                   /\ Info[j].sender = n => forwarded'[n][j] = 0
        <4>1. /\ Accounted(forwarded[n][j], PacketKey(j, 0), q, gone) /\ forwarded[n][j] \in 0 .. 2
              /\ Info[j].sender = n => forwarded[n][j] = 0
          BY DEF CacheInv, Relays, Typed
        <4>2. CASE forwarded'[n][j] = forwarded[n][j]
          <5>1. ToSet(q) \subseteq ToSet(r) \cup more /\ gone \subseteq more
            BY DEF more
          <5> QED BY <4>1, <4>2, <5>1 DEF Accounted
        <4>3. CASE forwarded'[n][j] # forwarded[n][j]
          <5>1. j = id /\ forwarded'[n][j] = More(forwarded[n][j])
            BY <2>9, <4>3 DEF Typed
          <5>2. PacketKey(j, 0) = key
            BY <5>1 DEF key, PacketKey
          <5>3. Accounted(forwarded[n][j], key, q, gone)
            BY <4>1, <5>2
          <5>4. Accounted(More(forwarded[n][j]), key, Remember(q, key, RelayMax),
                          gone \cup (ToSet(q) \ ToSet(Remember(q, key, RelayMax))))
            BY <4>1, <5>3, <2>2, AccountedNew
          <5>5. Accounted(More(forwarded[n][j]), key, r, more)
            BY <5>4 DEF r, more
          <5> QED BY <1>3, <5>1, <5>2, <5>5
        <4> QED BY <4>2, <4>3
      <3> QED BY <2>3, <2>6, <2>8, <3>1 DEF Relays
    <2> QED BY <1>4, <1>5, <2>8, <2>9, <2>10, <2>11, <2>12, <2>13 DEF Typed, CacheInv
  <1> QED BY <1>6, <1>7

LEMMA OriginateStep ==
    ASSUME IInv, NEW id \in Packets, Originate(id)
    PROVE  IInv'
PROOF
  <1>1. /\ sent' = sent \cup {id}
        /\ air' = [m \in Nodes |->
                     IF m \in Heard[id] THEN air[m] \cup Copies(id, MaxTtl, Info[id].sender) ELSE air[m]]
        /\ UNCHANGED <<dispatched, relayed, tasks, gathered, handled, forwarded, forgotten>>
    BY DEF Originate, counts
  <1>2. Copies(id, MaxTtl, Info[id].sender) \subseteq Copy
    <2>1. Info[id].sender \in Nodes \cup {Phone} /\ MaxTtl \in 0 .. MaxTtl
      BY HeaderAssumption, BoundAssumption DEF Headers
    <2> QED BY <2>1 DEF Copies, Copy
  <1>3. air' \in [Nodes -> SUBSET Copy]
    BY <1>1, <1>2 DEF IInv, Typed
  <1>4. \A m \in Nodes : Dispatches(m)' /\ Relays(m)' /\ Foreign(m)'
    BY <1>1 DEF IInv, CacheInv, Dispatches, Relays, Foreign
  <1> QED BY <1>1, <1>3, <1>4 DEF IInv, Typed, CacheInv

(* An entry that is too old is forgotten.                                  *)
LEMMA AgesStep ==
    ASSUME IInv, NEW n \in Nodes, Ages(n)
    PROVE  IInv'
PROOF
  <1> USE DEF IInv
  <1>1. UNCHANGED <<sent, air, tasks, gathered, handled, forwarded>>
    BY DEF Ages
  <1>2. \A m \in Nodes : Foreign(m)'
    BY <1>1 DEF CacheInv, Foreign
  <1>3. CASE /\ dispatched[n] # <<>>
             /\ dispatched' = [dispatched EXCEPT ![n] = Tail(@)]
             /\ forgotten' = [forgotten EXCEPT ![n].dispatch = @ \cup {Head(dispatched[n])}]
             /\ UNCHANGED relayed
    <2> DEFINE q == dispatched[n]
               r == Tail(q)
               gone == forgotten[n].dispatch
               more == gone \cup {Head(q)}
    <2>1. /\ r \in Seq(Keys) /\ Len(r) = Len(q) - 1 /\ Head(q) \in Keys /\ q \in Seq(Keys)
          /\ ToSet(q) \subseteq ToSet(r) \cup more
          /\ IsInjective(q) => IsInjective(r)
      BY <1>3, TailFacts DEF Typed
    <2>2. /\ dispatched' = [dispatched EXCEPT ![n] = r]
          /\ forgotten' = [forgotten EXCEPT ![n].dispatch = more]
          /\ more \in SUBSET Keys
      BY <1>3, <2>1 DEF Typed
    <2>3. gone \subseteq more
      OBVIOUS
    <2>4. Cached(r, DispatchMax)
      BY <2>1, BoundAssumption DEF Cached, CacheInv, Dispatches
    <2> HIDE DEF r, more
    <2>5. dispatched' \in [Nodes -> Seq(Keys)] /\ \A m \in Nodes : m # n => dispatched'[m] = dispatched[m]
      BY <2>1, <2>2 DEF Typed
    <2>6. /\ forgotten' \in [Nodes -> [dispatch : SUBSET Keys, relay : SUBSET RelayKeys]]
          /\ \A m \in Nodes : forgotten'[m].relay = forgotten[m].relay
          /\ \A m \in Nodes : m # n => forgotten'[m] = forgotten[m]
          /\ forgotten'[n].dispatch = more
      BY <2>2 DEF Typed
    <2>7. dispatched'[n] = r
      BY <2>2 DEF Typed
    <2>8. \A j \in Packets : Accounted(handled'[n][j], DispatchKey(j), r, more)
      BY <1>1, <2>1, <2>3 DEF CacheInv, Dispatches, Accounted
    <2>9. Dispatches(n)'
      BY <2>4, <2>6, <2>7, <2>8 DEF Dispatches
    <2>10. \A m \in Nodes : m # n => Dispatches(m)'
      BY <1>1, <2>5, <2>6 DEF CacheInv, Dispatches
    <2>11. \A m \in Nodes : Relays(m)'
      BY <1>1, <1>3, <2>6, RelaysSame
    <2> QED BY <1>1, <1>2, <1>3, <2>5, <2>6, <2>9, <2>10, <2>11 DEF Typed, CacheInv
  <1>4. CASE /\ relayed[n] # <<>>
             /\ relayed' = [relayed EXCEPT ![n] = Tail(@)]
             /\ forgotten' = [forgotten EXCEPT ![n].relay = @ \cup {Head(relayed[n])}]
             /\ UNCHANGED dispatched
    <2> DEFINE q == relayed[n]
               r == Tail(q)
               gone == forgotten[n].relay
               more == gone \cup {Head(q)}
    <2>1. /\ r \in Seq(RelayKeys) /\ Len(r) = Len(q) - 1 /\ Head(q) \in RelayKeys /\ q \in Seq(RelayKeys)
          /\ ToSet(q) \subseteq ToSet(r) \cup more
          /\ IsInjective(q) => IsInjective(r)
      BY <1>4, TailFacts DEF Typed
    <2>2. /\ relayed' = [relayed EXCEPT ![n] = r]
          /\ forgotten' = [forgotten EXCEPT ![n].relay = more]
          /\ more \in SUBSET RelayKeys
      BY <1>4, <2>1 DEF Typed
    <2>3. gone \subseteq more
      OBVIOUS
    <2>4. Cached(r, RelayMax)
      BY <2>1, BoundAssumption DEF Cached, CacheInv, Relays
    <2> HIDE DEF r, more
    <2>5. relayed' \in [Nodes -> Seq(RelayKeys)] /\ \A m \in Nodes : m # n => relayed'[m] = relayed[m]
      BY <2>1, <2>2 DEF Typed
    <2>6. /\ forgotten' \in [Nodes -> [dispatch : SUBSET Keys, relay : SUBSET RelayKeys]]
          /\ \A m \in Nodes : forgotten'[m].dispatch = forgotten[m].dispatch
          /\ \A m \in Nodes : m # n => forgotten'[m] = forgotten[m]
          /\ forgotten'[n].relay = more
      BY <2>2 DEF Typed
    <2>7. relayed'[n] = r
      BY <2>2 DEF Typed
    <2>8. \A j \in Packets : Accounted(forwarded'[n][j], PacketKey(j, 0), r, more)
      BY <1>1, <2>1, <2>3 DEF CacheInv, Relays, Accounted
    <2>9. \A j \in Packets : Info[j].sender = n => forwarded'[n][j] = 0
      BY <1>1 DEF CacheInv, Relays
    <2>10. Relays(n)'
      BY <2>4, <2>6, <2>7, <2>8, <2>9 DEF Relays
    <2>11. \A m \in Nodes : m # n => Relays(m)'
      BY <1>1, <2>5, <2>6 DEF CacheInv, Relays
    <2>12. \A m \in Nodes : Dispatches(m)'
      BY <1>1, <1>4, <2>6 DEF CacheInv, Dispatches
    <2> QED BY <1>1, <1>2, <1>4, <2>5, <2>6, <2>10, <2>11, <2>12 DEF Typed, CacheInv
  <1> QED BY <1>3, <1>4 DEF Ages

LEMMA InitIInv == Init => IInv
PROOF
  <1> SUFFICES ASSUME Init
               PROVE  IInv
    OBVIOUS
  <1>1. /\ <<>> \in Seq(Keys) /\ <<>> \in Seq(RelayKeys) /\ <<>> \in Seq(Task)
        /\ Len(<<>>) = 0 /\ DOMAIN <<>> = {}
    OBVIOUS
  <1>2. Typed
    BY <1>1 DEF Init, Typed
  <1>3. IsInjective(<<>>)
    BY <1>1 DEF IsInjective
  <1>4. \A n \in Nodes : Dispatches(n) /\ Relays(n) /\ Foreign(n)
    BY <1>1, <1>3, BoundAssumption DEF Init, Dispatches, Relays, Foreign, Cached, Accounted
  <1> QED BY <1>2, <1>4 DEF IInv, CacheInv

LEMMA NextIInv == IInv /\ [Next]_vars => IInv'
PROOF
  <1> SUFFICES ASSUME IInv, [Next]_vars
               PROVE  IInv'
    OBVIOUS
  <1>1. CASE \E id \in Packets : Originate(id)
    BY <1>1, OriginateStep
  <1>2. CASE \E n \in Nodes : Receive(n)
    BY <1>2, ReceiveStep
  <1>3. CASE \E n \in Nodes : HandleRelay(n)
    BY <1>3, HandleRelayStep
  <1>4. CASE \E n \in Nodes : Ages(n)
    BY <1>4, AgesStep
  <1>5. CASE UNCHANGED vars
    BY <1>5 DEF vars, counts, IInv, Typed, CacheInv, Dispatches, Relays, Foreign
  <1> QED BY <1>1, <1>2, <1>3, <1>4, <1>5 DEF Next

-----------------------------------------------------------------------------

(* The caches never hold an entry twice nor more than they may: the        *)
(* eviction at the end of _is_dispatch_duplicate and _mark_seen suffices.  *)
THEOREM CachesBounded == Spec => []TypeOK
PROOF
  <1>1. IInv => TypeOK
    BY DEF IInv, Typed, CacheInv, Dispatches, Relays, Cached, TypeOK, Fragments
  <1> QED BY <1>1, InitIInv, NextIInv, PTL DEF Spec

(* A packet comes to the session manager a second time only after the      *)
(* dispatch cache has lost it, to its age or to newer packets.             *)
THEOREM EachHandledOnce == Spec => []HandledOnce
PROOF
  <1>1. IInv => HandledOnce
    BY DEF IInv, CacheInv, Dispatches, Accounted, HandledOnce
  <1> QED BY <1>1, InitIInv, NextIInv, PTL DEF Spec

(* A packet is broadcast a second time only after the relay cache has lost *)
(* it, and a daemon never broadcasts its own packets again.                *)
THEOREM EachRelayedOnce == Spec => []RelayedOnce
PROOF
  <1>1. IInv => RelayedOnce
    BY DEF IInv, CacheInv, Relays, Accounted, RelayedOnce
  <1> QED BY <1>1, InitIInv, NextIInv, PTL DEF Spec

-----------------------------------------------------------------------------
(* What a flood reaches.                                                   *)

(* The packets that go in one piece, whose route the relay accepts,        *)
(* and share their millisecond with no other of the type.                  *)
Lone == {id \in Wholes \ Looped : Parts(id) = {} /\ Alone(id)}

(* The dispatch cache tells the packet from every other.                   *)
Distinct(id) == \A j \in Wholes : DispatchKey(j) = DispatchKey(id) => j = id

(* The daemons that have taken a packet up to broadcast it again.          *)
Relayers(id) == {n \in Nodes : PacketKey(id, 0) \in ToSet(relayed[n])}

(* A daemon that broadcasts a packet again whatever the dice say.          *)
Steady(n, id) == Info[id].sender # n /\ ~ToMe(n, id) /\ n \notin Crowded

(* A set of daemons no broadcast of a packet leads out of.                 *)
Covers(id, S) ==
    /\ Heard[id] \subseteq S
    /\ \A n \in S, k \in Nodes : Steady(n, id) /\ <<n, k>> \in Links => k \in S

(* A chain of steady daemons leads from the sender to a daemon.            *)
InReach(id, n) == \A S \in SUBSET Nodes : Covers(id, S) => n \in S

(* Whoever a packet is for is in its reach, of a packet in fragments next  *)
(* to its sender: of a train of fragments only the first is relayed.       *)
Connected ==
    \A id \in Wholes \ Looped, n \in Nodes :
        Alone(id) /\ IsForMe(n, id) /\ Info[id].sender # n =>
            /\ Parts(id) = {} => InReach(id, n)
            /\ \A p \in Parts(id) : n \in Heard[p]

(* A copy that went through every daemon still has a hop left.             *)
HopsSuffice == IsFiniteSet(Nodes) /\ Cardinality(Nodes) <= MaxTtl

(* No relay cache has lost such a packet that goes in one piece.           *)
NoneLost == \A n \in Nodes, id \in Lone : PacketKey(id, 0) \notin forgotten[n].relay

Held(n, id) == DispatchKey(id) \in ToSet(dispatched[n])

Handed(n, id) == IsForMe(n, id) => handled[n][id] > 0

Waits(n, id) == \E t \in ToSet(tasks[n]) : t.id = id

Flies(n, id) == \E c \in air[n] : c.id = id

(* A daemon has seen to the relay of a packet.                             *)
Got(n, id) == ToMe(n, id) \/ Waits(n, id) \/ n \in Relayers(id)

Reached(n, id) == Info[id].sender = n \/ (Got(n, id) /\ Handed(n, id))

OnItsWay(n, id) == Flies(n, id) \/ Reached(n, id)

(* No more hops are gone than daemons have relayed the packet.             *)
Fresh(h, id) == h.id = id => h.ttl + Cardinality(Relayers(id)) >= MaxTtl

HopsLeft(id) == \A n \in Nodes : \A h \in air[n] \cup ToSet(tasks[n]) : Fresh(h, id)

(* The packet is on its way to everyone who hears the sender or a relayer. *)
Flows(id) ==
    /\ id \in sent => \A k \in Heard[id] : OnItsWay(k, id)
    /\ \A n \in Relayers(id) \ Crowded, k \in Nodes : <<n, k>> \in Links => OnItsWay(k, id)

HandedInv == \A n \in Nodes, id \in Wholes : Distinct(id) /\ Held(n, id) => Handed(n, id)

LoneInv(id) == HopsLeft(id) /\ Flows(id) /\ \A n \in Nodes : Held(n, id) => Got(n, id)

(* A fragment that was sent is on its way, held or has done its work.      *)
Arrives(n, w, p) == Flies(n, p) \/ p \in gathered[n] \/ handled[n][w] > 0

TrainInv(n, w) ==
    /\ w \notin sent
    /\ ~(Parts(w) \subseteq gathered[n])
    /\ IsForMe(n, w) /\ Info[w].sender # n =>
          \A p \in Parts(w) \cap sent : n \in Heard[p] => Arrives(n, w, p)

(* Next to its sender, a packet that was sent is on its way or handed on.  *)
NearInv(n, id) ==
    id \in sent /\ n \in Heard[id] /\ Info[id].sender # n => Flies(n, id) \/ Handed(n, id)

FloodInv ==
    /\ HandedInv
    /\ \A id \in Lone : LoneInv(id)
    /\ \A n \in Nodes, id \in Wholes : Distinct(id) => NearInv(n, id)
    /\ \A n \in Nodes, w \in Wholes : Parts(w) # {} /\ Distinct(w) => TrainInv(n, w)

-----------------------------------------------------------------------------
LEMMA LoneFacts ==
    ASSUME NEW id \in Lone
    PROVE  /\ id \in Packets /\ id \in Wholes /\ id \notin Looped /\ Parts(id) = {} /\ Alone(id)
           /\ Info[id].type # "fragment"
  BY HeaderAssumption DEF Lone, Wholes

(* The keys tell the packet apart: of the relay cache only when its sender *)
(* gave its millisecond to no other, of the dispatch cache also when it is *)
(* of the Noise kind.                                                      *)
LEMMA DispatchApart ==
    ASSUME NEW i \in Wholes, Alone(i) \/ IsNoise(i)
    PROVE  Distinct(i)
PROOF
  <1> SUFFICES ASSUME NEW j \in Wholes, DispatchKey(j) = DispatchKey(i)
               PROVE  j = i
    BY DEF Distinct
  <1>1. Info[i].type = Info[j].type
    BY DEF DispatchKey
  <1>2. CASE IsNoise(i)
    BY <1>1, <1>2 DEF DispatchKey, IsNoise
  <1>3. CASE ~IsNoise(i)
    BY <1>1, <1>3 DEF DispatchKey, IsNoise, PacketKey, Alone
  <1> QED BY <1>2, <1>3

LEMMA RelayApart ==
    ASSUME NEW id \in Lone, NEW j \in Packets, NEW h, PacketKey(id, 0) = PacketKey(j, h)
    PROVE  j = id
PROOF
  <1>1. Info[j].type # "fragment"
    BY LoneFacts DEF PacketKey
  <1>2. j \in Wholes
    BY <1>1, HeaderAssumption DEF Wholes
  <1>3. PacketKey(j, 0) = PacketKey(id, 0)
    BY DEF PacketKey
  <1> QED BY <1>2, <1>3, LoneFacts DEF Alone

LEMMA ConcatSet ==
    ASSUME NEW S, NEW q \in Seq(S), NEW r \in Seq(S)
    PROVE  ToSet(q \o r) = ToSet(q) \cup ToSet(r)
PROOF
  <1>1. /\ Len(q) \in Nat /\ Len(r) \in Nat
        /\ DOMAIN (q \o r) = 1 .. (Len(q) + Len(r)) /\ DOMAIN q = 1 .. Len(q) /\ DOMAIN r = 1 .. Len(r)
        /\ \A i \in 1 .. (Len(q) + Len(r)) : (q \o r)[i] = IF i <= Len(q) THEN q[i] ELSE r[i - Len(q)]
    OBVIOUS
  <1>2. ASSUME NEW i \in DOMAIN (q \o r)
        PROVE  (q \o r)[i] \in ToSet(q) \cup ToSet(r)
    <2>1. CASE i <= Len(q)
      BY <1>1, <2>1 DEF ToSet
    <2>2. CASE ~(i <= Len(q))
      <3>1. i - Len(q) \in DOMAIN r
        BY <1>1, <2>2
      <3> QED BY <1>1, <2>2, <3>1 DEF ToSet
    <2> QED BY <2>1, <2>2
  <1>3. ASSUME NEW i \in DOMAIN q
        PROVE  \E k \in DOMAIN (q \o r) : (q \o r)[k] = q[i]
    BY <1>1
  <1>4. ASSUME NEW i \in DOMAIN r
        PROVE  \E k \in DOMAIN (q \o r) : (q \o r)[k] = r[i]
    <2>1. i + Len(q) \in DOMAIN (q \o r) /\ (q \o r)[i + Len(q)] = r[i]
      BY <1>1
    <2> QED BY <2>1
  <1> QED BY <1>2, <1>3, <1>4 DEF ToSet

(* What a cache holds after a new entry.                                   *)
LEMMA RememberSet ==
    ASSUME NEW S, NEW q \in Seq(S), NEW k \in S, NEW max \in Nat \ {0}
    PROVE  ToSet(Remember(q, k, max)) \subseteq ToSet(q) \cup {k}
PROOF
  <1> DEFINE r == Append(q, k)
  <1>1. /\ r \in Seq(S) /\ Len(r) = Len(q) + 1 /\ r[Len(r)] = k /\ Len(q) \in Nat
        /\ DOMAIN r = 1 .. Len(r) /\ DOMAIN q = 1 .. Len(q) /\ r # <<>>
        /\ \A i \in 1 .. Len(q) : r[i] = q[i]
    OBVIOUS
  <1>2. Remember(q, k, max) = IF Len(r) > max THEN Tail(r) ELSE r
    BY DEF Remember
  <1> HIDE DEF r
  <1>3. ToSet(r) \subseteq ToSet(q) \cup {k}
    <2> SUFFICES ASSUME NEW i \in DOMAIN r
                 PROVE  r[i] \in ToSet(q) \cup {k}
      BY DEF ToSet
    <2>1. CASE i = Len(r)
      BY <1>1, <2>1
    <2>2. CASE i # Len(r)
      BY <1>1, <2>2 DEF ToSet
    <2> QED BY <2>1, <2>2
  <1>4. ToSet(Tail(r)) \subseteq ToSet(r)
    BY <1>1, TailFacts
  <1> QED BY <1>2, <1>3, <1>4

(* What is left of the scheduled relays when the oldest has run.           *)
LEMMA HeadOrTail ==
    ASSUME NEW S, NEW q \in Seq(S), q # <<>>
    PROVE  ToSet(q) = ToSet(Tail(q)) \cup {Head(q)}
PROOF
  <1>1. Head(q) = q[1] /\ 1 \in DOMAIN q
    OBVIOUS
  <1>2. Head(q) \in ToSet(q)
    BY <1>1 DEF ToSet
  <1> QED BY <1>2, TailFacts

LEMMA RelayersFinite ==
    ASSUME HopsSuffice, NEW id
    PROVE  /\ IsFiniteSet(Relayers(id)) /\ Cardinality(Relayers(id)) \in Nat
           /\ Cardinality(Relayers(id)) >= MaxTtl => Relayers(id) = Nodes
PROOF
  <1>1. Relayers(id) \in SUBSET Nodes
    BY DEF Relayers
  <1>2. /\ IsFiniteSet(Relayers(id)) /\ Cardinality(Relayers(id)) <= Cardinality(Nodes)
        /\ Cardinality(Nodes) = Cardinality(Relayers(id)) => Nodes = Relayers(id)
    BY <1>1, FS_Subset DEF HopsSuffice
  <1>3. Cardinality(Relayers(id)) \in Nat /\ Cardinality(Nodes) \in Nat /\ MaxTtl \in Nat
    BY <1>2, FS_CardinalityType, BoundAssumption DEF HopsSuffice
  <1> QED BY <1>2, <1>3 DEF HopsSuffice

LEMMA ProcessFlood ==
    ASSUME IInv, HandedInv, NEW n \in Nodes, NEW id \in Wholes, Process(n, id)
    PROVE  /\ \A m \in Nodes, j \in Packets : handled[m][j] > 0 => handled'[m][j] > 0
           /\ HandedInv' /\ (Distinct(id) => Handed(n, id)')
           /\ \A m \in Nodes, j \in Wholes : Distinct(j) /\ Held(m, j)' => Held(m, j) \/ (m = n /\ j = id)
           /\ Duplicate(n, id) => Held(n, id)
PROOF
  <1> USE DEF IInv, Typed
  <1>a. id \in Packets
    BY DEF Wholes
  <1>b. \A c \in 0 .. 2 : More(c) > 0
    BY DEF More
  <1>1. Duplicate(n, id) => Held(n, id)
    BY DEF Duplicate, Remembers, Held, ToSet
  <1>2. CASE Duplicate(n, id)
    <2>1. UNCHANGED <<dispatched, handled, forgotten>>
      BY <1>2 DEF Process
    <2>2. HandedInv' /\ \A m \in Nodes, j \in Packets : (Held(m, j)' <=> Held(m, j)) /\ (Handed(m, j)' <=> Handed(m, j))
      BY <2>1 DEF HandedInv, Held, Handed
    <2>3. Distinct(id) => Handed(n, id)
      BY <1>1, <1>2 DEF HandedInv
    <2> QED BY <1>1, <1>a, <2>1, <2>2, <2>3 DEF Wholes
  <1>3. CASE ~Duplicate(n, id)
    <2> DEFINE q == Remember(dispatched[n], DispatchKey(id), DispatchMax)
    <2>1. /\ dispatched' = [dispatched EXCEPT ![n] = q]
          /\ handled' = IF IsForMe(n, id) THEN [handled EXCEPT ![n][id] = More(@)] ELSE handled
      BY <1>3 DEF Process
    <2>2. ToSet(q) \subseteq ToSet(dispatched[n]) \cup {DispatchKey(id)}
      <3>1. DispatchKey(id) \in Keys /\ dispatched[n] \in Seq(Keys) /\ DispatchMax \in Nat \ {0}
        BY <1>a, BoundAssumption DEF Keys
      <3> QED BY <3>1, RememberSet
    <2> HIDE DEF q
    <2>3. \A m \in Nodes, j \in Packets : handled[m][j] > 0 => handled'[m][j] > 0
      BY <2>1, <1>a, <1>b
    <2>4. Handed(n, id)'
      <3> SUFFICES ASSUME IsForMe(n, id) PROVE handled'[n][id] > 0
        BY DEF Handed
      <3>1. handled'[n][id] = More(handled[n][id]) /\ handled[n][id] \in 0 .. 2
        BY <2>1, <1>a
      <3> QED BY <3>1, <1>b
    <2>5. ASSUME NEW m \in Nodes, NEW j \in Wholes, Distinct(j), Held(m, j)'
          PROVE  Held(m, j) \/ (m = n /\ j = id)
      <3>1. CASE m # n
        BY <2>1, <2>5, <3>1 DEF Held
      <3>2. CASE m = n
        <4>1. dispatched'[n] = q
          BY <2>1
        <4>2. DispatchKey(j) \in ToSet(dispatched[n]) \/ DispatchKey(j) = DispatchKey(id)
          BY <2>2, <2>5, <3>2, <4>1 DEF Held
        <4> QED BY <2>5, <3>2, <4>2 DEF Held, Distinct
      <3> QED BY <3>1, <3>2
    <2>6. HandedInv'
      <3> SUFFICES ASSUME NEW m \in Nodes, NEW j \in Wholes, Distinct(j), Held(m, j)'
                   PROVE  Handed(m, j)'
        BY DEF HandedInv
      <3>1. CASE Held(m, j)
        <4>1. j \in Packets /\ Handed(m, j)
          BY <3>1 DEF HandedInv, Wholes
        <4> QED BY <2>3, <4>1 DEF Handed
      <3>2. CASE m = n /\ j = id
        BY <2>4, <3>2
      <3> QED BY <2>5, <3>1, <3>2
    <2> QED BY <1>1, <2>3, <2>4, <2>5, <2>6
  <1> QED BY <1>2, <1>3

(* The relays that wait after some more were scheduled.                    *)
LEMMA Scheduled ==
    ASSUME IInv, NEW n \in Nodes, NEW t \in Seq(Task), tasks' = [tasks EXCEPT ![n] = @ \o t]
    PROVE  /\ ToSet(tasks'[n]) = ToSet(tasks[n]) \cup ToSet(t)
           /\ \A m \in Nodes : m # n => tasks'[m] = tasks[m]
PROOF
  <1>1. tasks[n] \in Seq(Task) /\ tasks'[n] = tasks[n] \o t /\ \A m \in Nodes : m # n => tasks'[m] = tasks[m]
    BY DEF IInv, Typed
  <1>2. ToSet(tasks[n] \o t) = ToSet(tasks[n]) \cup ToSet(t)
    BY <1>1, ConcatSet
  <1> QED BY <1>1, <1>2

LEMMA OneTask ==
    ASSUME NEW id \in Packets, NEW ttl \in 0 .. MaxTtl
    PROVE  /\ <<[id |-> id, ttl |-> ttl]>> \in Seq(Task)
           /\ ToSet(<<[id |-> id, ttl |-> ttl]>>) = {[id |-> id, ttl |-> ttl]}
           /\ <<>> \in Seq(Task) /\ ToSet(<<>>) = {}
PROOF
  <1> DEFINE x == [id |-> id, ttl |-> ttl]
  <1>1. x \in Task
    BY DEF Task
  <1> HIDE DEF x
  <1>2. /\ <<x>> \in Seq(Task) /\ DOMAIN <<x>> = {1} /\ <<x>>[1] = x
        /\ <<>> \in Seq(Task) /\ DOMAIN <<>> = {}
    BY <1>1
  <1>3. ToSet(<<x>>) = {x} /\ ToSet(<<>>) = {}
    BY <1>2 DEF ToSet
  <1> QED BY <1>2, <1>3 DEF x

(* What a daemon makes of a copy: the relays T it schedules, and whom the  *)
(* packet, if it goes in one piece, has reached.                           *)
TakenUp(n, c, T) ==
    /\ ToSet(tasks'[n]) = ToSet(tasks[n]) \cup T
    /\ \A m \in Nodes : m # n => tasks'[m] = tasks[m]
    /\ \A h \in T : h.id \in Lone => h.id = c.id /\ h.ttl = c.ttl
    /\ \A m \in Nodes, j \in Packets : handled[m][j] > 0 => handled'[m][j] > 0
    /\ \A m \in Nodes, j \in Lone : Held(m, j)' => Held(m, j) \/ (m = n /\ j = c.id)
    /\ c.id \in Wholes /\ Distinct(c.id) /\ Info[c.id].sender # n => Handed(n, c.id)'
    /\ c.id \in Lone /\ Info[c.id].sender # n =>
          /\ Handed(n, c.id)'
          /\ ToMe(n, c.id) \/ Held(n, c.id) \/ \E h \in T : h.id = c.id

LEMMA PacketTakenUp ==
    ASSUME IInv, HandedInv, NEW n \in Nodes, NEW c \in air[n],
           Info[c.id].sender # n, DispatchPacket(n, c.id, c.ttl)
    PROVE  HandedInv' /\ \E T : TakenUp(n, c, T)
PROOF
  <1> DEFINE id == c.id
             t == Relayable(n, id, c.ttl)
  <1>1. /\ Process(n, id) /\ Info[id].type # "fragment" /\ tasks' = [tasks EXCEPT ![n] = @ \o t]
    BY DEF DispatchPacket
  <1>2. id \in Packets /\ c.ttl \in 0 .. MaxTtl
    BY DEF IInv, Typed, Copy
  <1>3. id \in Wholes
    BY <1>1, <1>2, HeaderAssumption DEF Wholes
  <1>4. /\ \A m \in Nodes, j \in Packets : handled[m][j] > 0 => handled'[m][j] > 0
        /\ HandedInv' /\ (Distinct(id) => Handed(n, id)')
        /\ \A m \in Nodes, j \in Wholes : Distinct(j) /\ Held(m, j)' => Held(m, j) \/ (m = n /\ j = id)
        /\ Duplicate(n, id) => Held(n, id)
    BY <1>1, <1>3, ProcessFlood
  <1>5. /\ t \in Seq(Task) /\ \A h \in ToSet(t) : h.id = id /\ h.ttl = c.ttl
        /\ ToMe(n, id) \/ Duplicate(n, id) \/ \E h \in ToSet(t) : h.id = id
    <2>1. CASE Duplicate(n, id) \/ ToMe(n, id)
      <3>1. t = <<>>
        BY <2>1 DEF Relayable
      <3> QED BY <1>2, <2>1, <3>1, OneTask
    <2>2. CASE ~(Duplicate(n, id) \/ ToMe(n, id))
      <3>1. t = <<[id |-> id, ttl |-> c.ttl]>>
        BY <2>2 DEF Relayable
      <3> DEFINE x == [id |-> id, ttl |-> c.ttl]
      <3>2. t \in Seq(Task) /\ ToSet(t) = {x}
        BY <1>2, <3>1, OneTask
      <3>3. x.id = id /\ x.ttl = c.ttl
        OBVIOUS
      <3> HIDE DEF t, x
      <3> QED BY <3>2, <3>3
    <2> QED BY <2>1, <2>2
  <1>6. /\ ToSet(tasks'[n]) = ToSet(tasks[n]) \cup ToSet(t)
        /\ \A m \in Nodes : m # n => tasks'[m] = tasks[m]
    BY <1>1, <1>5, Scheduled
  <1>7. \A j \in Lone : j \in Wholes /\ Distinct(j)
    BY LoneFacts, DispatchApart
  <1>8. TakenUp(n, c, ToSet(t))
    BY <1>4, <1>5, <1>6, <1>7 DEF TakenUp
  <1> QED BY <1>4, <1>8

LEMMA FragmentTakenUp ==
    ASSUME IInv, HandedInv, NEW n \in Nodes, NEW c \in air[n],
           Info[c.id].sender # n, DispatchFragment(n, c.id, c.ttl)
    PROVE  HandedInv' /\ \E T : TakenUp(n, c, T)
PROOF
  <1> DEFINE id == c.id
             whole == Info[id].of
             itself == IF ToMe(n, id) THEN <<>> ELSE <<[id |-> id, ttl |-> c.ttl]>>
             t == IF Completes(n, id) THEN Relayable(n, whole, 0) \o itself ELSE itself
  <1>1. id \in Packets /\ c.ttl \in 0 .. MaxTtl /\ 0 \in 0 .. MaxTtl
    BY BoundAssumption DEF IInv, Typed, Copy
  <1>2. /\ whole \in Packets /\ whole \in Wholes /\ id \in Parts(whole)
        /\ id \notin Lone /\ whole \notin Lone /\ id \notin Wholes
    BY <1>1, HeaderAssumption, FragmentAssumption DEF DispatchFragment, Headers, Wholes, Parts, Lone
  <1>3. itself \in Seq(Task) /\ \A h \in ToSet(itself) : h.id = id
    BY <1>1, OneTask
  <1>4. Relayable(n, whole, 0) \in Seq(Task) /\ \A h \in ToSet(Relayable(n, whole, 0)) : h.id = whole
    BY <1>1, <1>2, OneTask DEF Relayable
  <1>5. /\ Relayable(n, whole, 0) \o itself \in Seq(Task)
        /\ ToSet(Relayable(n, whole, 0) \o itself) = ToSet(Relayable(n, whole, 0)) \cup ToSet(itself)
    <2>1. \A q, r \in Seq(Task) : q \o r \in Seq(Task) /\ ToSet(q \o r) = ToSet(q) \cup ToSet(r)
      BY ConcatSet
    <2> HIDE DEF itself
    <2> QED BY <1>3, <1>4, <2>1
  <1>6. t \in Seq(Task) /\ \A h \in ToSet(t) : h.id = id \/ h.id = whole
    BY <1>3, <1>4, <1>5
  <1>7. tasks' = [tasks EXCEPT ![n] = @ \o t]
    <2>1. CASE Completes(n, id)
      <3>1. tasks' = [tasks EXCEPT ![n] = @ \o Relayable(n, whole, 0) \o itself]
        BY <2>1 DEF DispatchFragment
      <3>2. tasks[n] \in Seq(Task) /\ tasks \in [Nodes -> Seq(Task)]
        BY DEF IInv, Typed
      <3>3. \A p, q, r \in Seq(Task) : (p \o q) \o r = p \o (q \o r)
        OBVIOUS
      <3>4. (tasks[n] \o Relayable(n, whole, 0)) \o itself = tasks[n] \o (Relayable(n, whole, 0) \o itself)
        BY <1>3, <1>4, <3>2, <3>3
      <3> QED BY <2>1, <3>1, <3>2, <3>4
    <2>2. CASE ~Completes(n, id)
      BY <2>2 DEF DispatchFragment
    <2> QED BY <2>1, <2>2
  <1> HIDE DEF t, itself
  <1>8. /\ ToSet(tasks'[n]) = ToSet(tasks[n]) \cup ToSet(t)
        /\ \A m \in Nodes : m # n => tasks'[m] = tasks[m]
    BY <1>6, <1>7, Scheduled
  <1>9. /\ \A m \in Nodes, j \in Packets : handled[m][j] > 0 => handled'[m][j] > 0
        /\ HandedInv'
        /\ \A m \in Nodes, j \in Lone : Held(m, j)' => Held(m, j)
    <2>1. CASE Completes(n, id)
      <3>1. Process(n, whole)
        BY <2>1 DEF DispatchFragment
      <3>2. \A j \in Lone : j \in Wholes /\ Distinct(j)
        BY LoneFacts, DispatchApart
      <3> QED BY <1>2, <3>1, <3>2, ProcessFlood
    <2>2. CASE ~Completes(n, id)
      <3>1. UNCHANGED <<dispatched, handled, forgotten>>
        BY <2>2 DEF DispatchFragment
      <3> QED BY <3>1 DEF HandedInv, Held, Handed
    <2> QED BY <2>1, <2>2
  <1>10. TakenUp(n, c, ToSet(t))
    BY <1>2, <1>6, <1>8, <1>9 DEF TakenUp
  <1> QED BY <1>9, <1>10

LEMMA CopyTakenUp ==
    ASSUME IInv, HandedInv, NEW n \in Nodes, NEW c \in air[n],
           \/ DropOwn(n, c.id)
           \/ /\ Info[c.id].sender # n
              /\ DispatchPacket(n, c.id, c.ttl) \/ DispatchFragment(n, c.id, c.ttl)
    PROVE  HandedInv' /\ \E T : TakenUp(n, c, T)
PROOF
  <1>1. CASE DropOwn(n, c.id)
    <2>1. Info[c.id].sender = n /\ UNCHANGED <<dispatched, handled, tasks>>
      BY <1>1 DEF DropOwn
    <2>2. HandedInv'
      BY <2>1 DEF HandedInv, Held, Handed
    <2>3. TakenUp(n, c, {})
      BY <2>1 DEF TakenUp, Held
    <2> QED BY <2>2, <2>3
  <1> QED BY <1>1, PacketTakenUp, FragmentTakenUp

(* A daemon that takes a copy off the air.                                 *)
LEMMA ReceiveLone ==
    ASSUME IInv, HandedInv, NEW id \in Lone, LoneInv(id), NEW n \in Nodes, Receive(n)
    PROVE  LoneInv(id)'
PROOF
  <1>1. PICK c \in air[n] :
           /\ air' = [air EXCEPT ![n] = @ \ {c}]
           /\ \/ DropOwn(n, c.id)
              \/ /\ Info[c.id].sender # n
                 /\ DispatchPacket(n, c.id, c.ttl) \/ DispatchFragment(n, c.id, c.ttl)
           /\ UNCHANGED <<sent, relayed, forwarded>>
    BY DEF Receive
  <1>2. PICK T : TakenUp(n, c, T)
    BY <1>1, CopyTakenUp
  <1>a. id \in Packets
    BY LoneFacts
  <1>3. Relayers(id)' = Relayers(id)
    BY <1>1 DEF Relayers
  <1>4. /\ \A m \in Nodes : air'[m] \subseteq air[m]
        /\ \A m \in Nodes : \A h \in air[m] : h \in air'[m] \/ (m = n /\ h = c)
    BY <1>1 DEF IInv, Typed
  <1>5. \A m \in Nodes : Waits(m, id) => Waits(m, id)'
    BY <1>2 DEF TakenUp, Waits
  <1>6. ASSUME NEW m \in Nodes, Got(m, id)
        PROVE  Got(m, id)'
    BY <1>3, <1>5, <1>6 DEF Got, ToMe
  <1>7. ASSUME NEW m \in Nodes, Reached(m, id)
        PROVE  Reached(m, id)'
    BY <1>2, <1>6, <1>7, <1>a DEF Reached, TakenUp, Handed
  <1>8. ASSUME c.id = id
        PROVE  Reached(n, id)'
    <2>1. CASE Info[id].sender = n
      BY <2>1 DEF Reached
    <2>2. CASE Info[id].sender # n
      <3>1. /\ Handed(n, id)'
            /\ ToMe(n, id) \/ Held(n, id) \/ \E h \in T : h.id = id
        BY <1>2, <1>8, <2>2 DEF TakenUp
      <3>2. CASE \E h \in T : h.id = id
        <4>1. Waits(n, id)'
          BY <1>2, <3>2 DEF TakenUp, Waits
        <4> QED BY <3>1, <4>1 DEF Reached, Got
      <3>3. CASE ToMe(n, id) \/ Held(n, id)
        <4>1. Got(n, id)
          BY <3>3 DEF LoneInv, Got
        <4> QED BY <1>6, <3>1, <4>1 DEF Reached
      <3> QED BY <3>1, <3>2, <3>3
    <2> QED BY <2>1, <2>2
  <1>9. ASSUME NEW m \in Nodes, OnItsWay(m, id)
        PROVE  OnItsWay(m, id)'
    BY <1>4, <1>7, <1>8, <1>9 DEF OnItsWay, Flies
  <1>10. HopsLeft(id)'
    <2> SUFFICES ASSUME NEW m \in Nodes, NEW h \in air'[m] \cup ToSet(tasks'[m]), h.id = id
                 PROVE  h.ttl + Cardinality(Relayers(id)) >= MaxTtl
      BY <1>3 DEF HopsLeft, Fresh
    <2>1. CASE h \in air[m] \cup ToSet(tasks[m])
      BY <2>1 DEF LoneInv, HopsLeft, Fresh
    <2>2. CASE h \notin air[m] \cup ToSet(tasks[m])
      <3>1. h \in T /\ m = n
        BY <1>2, <1>4, <2>2 DEF TakenUp
      <3>2. c.id = id /\ h.ttl = c.ttl
        BY <1>2, <3>1 DEF TakenUp
      <3> QED BY <3>2 DEF LoneInv, HopsLeft, Fresh
    <2> QED BY <2>1, <2>2
  <1>11. Flows(id)'
    <2>1. \A k \in Heard[id] : k \in Nodes
      BY <1>a, TopologyAssumption
    <2> QED BY <1>1, <1>3, <1>9, <2>1 DEF LoneInv, Flows
  <1>12. ASSUME NEW m \in Nodes, Held(m, id)'
         PROVE  Got(m, id)'
    <2>1. CASE Held(m, id)
      BY <1>6, <2>1 DEF LoneInv
    <2>2. CASE m = n /\ id = c.id
      <3>1. CASE Info[id].sender = n
        <4>1. UNCHANGED dispatched
          BY <1>1, <2>2, <3>1 DEF DropOwn
        <4>2. Held(m, id)
          BY <1>12, <4>1 DEF Held
        <4> QED BY <1>6, <4>2 DEF LoneInv
      <3>2. CASE Info[id].sender # n
        BY <1>8, <2>2, <3>2 DEF Reached
      <3> QED BY <3>1, <3>2
    <2> QED BY <1>2, <1>12, <2>1, <2>2 DEF TakenUp
  <1> QED BY <1>10, <1>11, <1>12 DEF LoneInv

(* A daemon that takes a copy off the air keeps its fragments in order.    *)
LEMMA ReceiveTrain ==
    ASSUME IInv, HandedInv, NEW w \in Wholes, Parts(w) # {}, Distinct(w),
           NEW m \in Nodes, TrainInv(m, w), NEW n \in Nodes, Receive(n)
    PROVE  TrainInv(m, w)'
PROOF
  <1>1. PICK c \in air[n] :
           /\ air' = [air EXCEPT ![n] = @ \ {c}]
           /\ \/ DropOwn(n, c.id)
              \/ /\ Info[c.id].sender # n
                 /\ DispatchPacket(n, c.id, c.ttl) \/ DispatchFragment(n, c.id, c.ttl)
           /\ UNCHANGED <<sent, relayed, forwarded>>
    BY DEF Receive
  <1>2. PICK T : TakenUp(n, c, T)
    BY <1>1, CopyTakenUp
  <1>a. w \in Packets /\ Info[w].of = None /\ c.id \in Packets
    BY DEF Wholes, IInv, Typed, Copy
  <1>b. \A p \in Parts(w) : p \in Packets /\ Info[p].of = w /\ Info[p].type = "fragment"
                            /\ Info[p].sender = Info[w].sender
    BY <1>a, HeaderAssumption, FragmentAssumption DEF Parts
  <1>3. handled[m][w] > 0 => handled'[m][w] > 0
    BY <1>2, <1>a DEF TakenUp
  <1>4. \A p \in Packets : Flies(m, p) => Flies(m, p)' \/ (m = n /\ p = c.id)
    BY <1>1 DEF Flies, IInv, Typed
  <1>5. CASE m # n \/ ~DispatchFragment(n, c.id, c.ttl)
    <2>1. gathered'[m] = gathered[m]
      <3>1. CASE DispatchFragment(n, c.id, c.ttl)
        BY <1>5, <3>1 DEF DispatchFragment, IInv, Typed
      <3>2. CASE ~DispatchFragment(n, c.id, c.ttl)
        BY <1>1, <3>2 DEF DropOwn, DispatchPacket
      <3> QED BY <3>1, <3>2
    <2>2. ~(m = n /\ c.id \in Parts(w) /\ Info[w].sender # m)
      <3> SUFFICES ASSUME m = n, c.id \in Parts(w), Info[w].sender # m
                   PROVE  FALSE
        OBVIOUS
      <3>1. Info[c.id].sender # n /\ Info[c.id].type = "fragment"
        BY <1>b
      <3> QED BY <1>1, <1>5, <3>1 DEF DropOwn, DispatchPacket
    <2>3. ASSUME NEW p \in Parts(w), Info[w].sender # m, Arrives(m, w, p)
          PROVE  Arrives(m, w, p)'
      BY <1>3, <1>4, <1>b, <2>1, <2>2, <2>3 DEF Arrives
    <2> QED BY <1>1, <2>1, <2>3 DEF TrainInv, IsForMe
  <1>6. CASE m = n /\ DispatchFragment(n, c.id, c.ttl)
    <2> DEFINE id == c.id
               whole == Info[id].of
    <2>a. whole \in Wholes /\ id \in Parts(whole) /\ gathered \in [Nodes -> SUBSET Fragments]
      BY <1>6, <1>a, HeaderAssumption, FragmentAssumption
         DEF DispatchFragment, Headers, Wholes, Parts, IInv, Typed
    <2>1. CASE Completes(n, id)
      <3>1. gathered'[n] = gathered[n] \ Parts(whole) /\ Process(n, whole)
        BY <1>6, <2>1, <2>a DEF DispatchFragment
      <3>2. Distinct(whole) => Handed(n, whole)'
        BY <2>a, <3>1, ProcessFlood
      <3>3. whole = w => (IsForMe(n, w) => handled'[n][w] > 0)
        BY <3>2 DEF Handed
      <3>4. ~(Parts(w) \subseteq gathered'[n])
        BY <1>6, <3>1 DEF TrainInv
      <3>5. ASSUME NEW p \in Parts(w), IsForMe(m, w), Arrives(m, w, p)
            PROVE  Arrives(m, w, p)'
        <4>1. CASE whole = w
          BY <1>6, <3>3, <3>5, <4>1 DEF Arrives
        <4>2. CASE whole # w
          <5>1. p # id /\ p \notin Parts(whole) /\ p \in Packets
            BY <1>b, <4>2 DEF Parts
          <5> QED BY <1>3, <1>4, <1>6, <3>1, <3>5, <5>1 DEF Arrives
        <4> QED BY <4>1, <4>2
      <3> QED BY <1>1, <1>6, <3>4, <3>5 DEF TrainInv, IsForMe, ToMe
    <2>2. CASE ~Completes(n, id)
      <3>1. gathered'[n] = gathered[n] \cup {id}
        BY <1>6, <2>2, <2>a DEF DispatchFragment
      <3>2. ~(Parts(w) \subseteq gathered'[n])
        <4>1. CASE whole = w
          BY <2>2, <3>1, <4>1 DEF Completes
        <4>2. CASE whole # w
          <5>1. id \notin Parts(w)
            BY <4>2 DEF Parts
          <5> QED BY <1>6, <3>1, <5>1 DEF TrainInv
        <4> QED BY <4>1, <4>2
      <3>3. ASSUME NEW p \in Parts(w), Arrives(m, w, p)
            PROVE  Arrives(m, w, p)'
        BY <1>3, <1>4, <1>6, <1>b, <3>1, <3>3 DEF Arrives
      <3> QED BY <1>1, <1>6, <3>2, <3>3 DEF TrainInv, IsForMe, ToMe
    <2> QED BY <2>1, <2>2
  <1> QED BY <1>5, <1>6

(* A daemon that takes a copy off the air hands it on.                     *)
LEMMA ReceiveNear ==
    ASSUME IInv, HandedInv, NEW id \in Wholes, Distinct(id), NEW m \in Nodes, NearInv(m, id),
           NEW n \in Nodes, Receive(n)
    PROVE  NearInv(m, id)'
PROOF
  <1>1. PICK c \in air[n] :
           /\ air' = [air EXCEPT ![n] = @ \ {c}]
           /\ \/ DropOwn(n, c.id)
              \/ /\ Info[c.id].sender # n
                 /\ DispatchPacket(n, c.id, c.ttl) \/ DispatchFragment(n, c.id, c.ttl)
           /\ UNCHANGED <<sent, relayed, forwarded>>
    BY DEF Receive
  <1>2. PICK T : TakenUp(n, c, T)
    BY <1>1, CopyTakenUp
  <1>3. Handed(m, id) => Handed(m, id)'
    BY <1>2 DEF TakenUp, Handed, Wholes
  <1>4. Flies(m, id) => Flies(m, id)' \/ (m = n /\ id = c.id)
    BY <1>1 DEF Flies, IInv, Typed
  <1>5. m = n /\ id = c.id /\ Info[id].sender # m => Handed(m, id)'
    BY <1>2 DEF TakenUp
  <1> QED BY <1>1, <1>3, <1>4, <1>5 DEF NearInv

LEMMA CopiesExist ==
    ASSUME NEW id, NEW ttl, NEW from
    PROVE  \E c \in Copies(id, ttl, from) : c.id = id
PROOF
  <1>1. PICK p \in Paths : TRUE
    BY TopologyAssumption
  <1> DEFINE c == [id |-> id, ttl |-> ttl, from |-> from, path |-> p]
  <1>2. c \in Copies(id, ttl, from) /\ c.id = id
    BY DEF Copies
  <1> QED BY <1>2

(* What a step leaves in the air and in place it does not take from a      *)
(* packet that goes in one piece.                                          *)
LEMMA LoneKept ==
    ASSUME NEW id \in Lone, LoneInv(id), UNCHANGED <<handled, tasks>>,
           \A m \in Nodes : Held(m, id)' => Held(m, id),
           \A m \in Nodes : Flies(m, id) => Flies(m, id)',
           Relayers(id)' = Relayers(id)
    PROVE  /\ \A m \in Nodes : Held(m, id)' => Got(m, id)'
           /\ \A m \in Nodes : OnItsWay(m, id) => OnItsWay(m, id)'
PROOF
  <1>1. ASSUME NEW m \in Nodes, Got(m, id)
        PROVE  Got(m, id)'
    BY <1>1 DEF Got, Waits, ToMe
  <1>2. \A m \in Nodes : Handed(m, id) => Handed(m, id)'
    BY DEF Handed
  <1>3. ASSUME NEW m \in Nodes, OnItsWay(m, id)
        PROVE  OnItsWay(m, id)'
    BY <1>1, <1>2, <1>3 DEF OnItsWay, Reached
  <1> QED BY <1>1, <1>3 DEF LoneInv

LEMMA OriginateFlood ==
    ASSUME IInv, HopsSuffice, FloodInv, NEW j \in Packets, Originate(j)
    PROVE  FloodInv'
PROOF
  <1>1. /\ sent' = sent \cup {j}
        /\ air' = [m \in Nodes |->
                     IF m \in Heard[j] THEN air[m] \cup Copies(j, MaxTtl, Info[j].sender) ELSE air[m]]
        /\ UNCHANGED <<dispatched, relayed, tasks, gathered, handled>>
    BY DEF Originate, counts
  <1>2. /\ \A m \in Nodes, p \in Packets : Flies(m, p) => Flies(m, p)'
        /\ \A m \in Heard[j] : Flies(m, j)'
    <2>1. \E c \in Copies(j, MaxTtl, Info[j].sender) : c.id = j
      BY CopiesExist
    <2>2. Heard[j] \subseteq Nodes
      BY TopologyAssumption
    <2> QED BY <1>1, <2>1, <2>2 DEF Flies
  <1>3. HandedInv'
    BY <1>1 DEF FloodInv, HandedInv, Held, Handed
  <1>4. ASSUME NEW id \in Lone
        PROVE  LoneInv(id)'
    <2>1. LoneInv(id) /\ id \in Packets /\ Heard[id] \subseteq Nodes
      BY LoneFacts, TopologyAssumption DEF FloodInv
    <2>2. Relayers(id)' = Relayers(id) /\ \A m \in Nodes : Held(m, id)' => Held(m, id)
      BY <1>1 DEF Relayers, Held
    <2>3. /\ \A m \in Nodes : Held(m, id)' => Got(m, id)'
          /\ \A m \in Nodes : OnItsWay(m, id) => OnItsWay(m, id)'
      BY <1>1, <1>2, <2>1, <2>2, LoneKept
    <2>4. HopsLeft(id)'
      <3> SUFFICES ASSUME NEW m \in Nodes, NEW h \in air'[m] \cup ToSet(tasks'[m]), h.id = id
                   PROVE  h.ttl + Cardinality(Relayers(id)) >= MaxTtl
        BY <2>2 DEF HopsLeft, Fresh
      <3>1. CASE h \in air[m] \cup ToSet(tasks[m])
        BY <2>1, <3>1 DEF LoneInv, HopsLeft, Fresh
      <3>2. CASE h \notin air[m] \cup ToSet(tasks[m])
        <4>1. h \in Copies(j, MaxTtl, Info[j].sender)
          BY <1>1, <3>2
        <4>2. h.ttl = MaxTtl
          BY <4>1 DEF Copies
        <4> QED BY <4>2, RelayersFinite, BoundAssumption
      <3> QED BY <3>1, <3>2
    <2>5. Flows(id)'
      <3>1. id \in sent => \A k \in Heard[id] : OnItsWay(k, id)'
        BY <2>1, <2>3 DEF LoneInv, Flows
      <3>2. id = j => \A k \in Heard[id] : OnItsWay(k, id)'
        BY <1>2 DEF OnItsWay
      <3>3. \A n \in Relayers(id) \ Crowded, k \in Nodes : <<n, k>> \in Links => OnItsWay(k, id)'
        BY <2>1, <2>3 DEF LoneInv, Flows
      <3> QED BY <1>1, <2>2, <3>1, <3>2, <3>3 DEF Flows
    <2> QED BY <2>3, <2>4, <2>5 DEF LoneInv
  <1>5. ASSUME NEW n \in Nodes, NEW w \in Wholes, Parts(w) # {}, Distinct(w)
        PROVE  TrainInv(n, w)'
    <2>1. TrainInv(n, w)
      BY <1>5 DEF FloodInv
    <2>2. Parts(w) \subseteq Packets
      BY DEF Parts
    <2>3. w # j
      BY <1>5, HeaderAssumption DEF Originate, Wholes
    <2> QED BY <1>1, <1>2, <2>1, <2>2, <2>3 DEF TrainInv, Arrives, IsForMe, ToMe
  <1>6. ASSUME NEW n \in Nodes, NEW id \in Wholes, Distinct(id)
        PROVE  NearInv(n, id)'
    BY <1>1, <1>2, <1>6 DEF FloodInv, NearInv, Handed, Wholes
  <1> QED BY <1>3, <1>4, <1>5, <1>6 DEF FloodInv

LEMMA ReceiveFlood ==
    ASSUME IInv, FloodInv, NEW n \in Nodes, Receive(n)
    PROVE  FloodInv'
PROOF
  <1>1. HandedInv'
    BY CopyTakenUp DEF FloodInv, Receive
  <1>2. \A id \in Lone : LoneInv(id)'
    BY ReceiveLone DEF FloodInv
  <1>3. \A m \in Nodes, w \in Wholes : Parts(w) # {} /\ Distinct(w) => TrainInv(m, w)'
    BY ReceiveTrain DEF FloodInv
  <1>4. \A m \in Nodes, id \in Wholes : Distinct(id) => NearInv(m, id)'
    BY ReceiveNear DEF FloodInv
  <1> QED BY <1>1, <1>2, <1>3, <1>4 DEF FloodInv

(* An entry that a relay cache loses is forgotten, and an entry is taken   *)
(* up by broadcasting only.                                                *)
LEMMA AgesKeeps ==
    ASSUME IInv, NEW n \in Nodes, Ages(n)
    PROVE  /\ \A m \in Nodes : ToSet(dispatched'[m]) \subseteq ToSet(dispatched[m])
           /\ \A m \in Nodes : ToSet(relayed'[m]) \subseteq ToSet(relayed[m])
           /\ \A m \in Nodes : ToSet(relayed[m]) \subseteq ToSet(relayed'[m]) \cup forgotten'[m].relay
PROOF
  <1> USE DEF IInv, Typed
  <1>1. CASE /\ dispatched[n] # <<>>
             /\ dispatched' = [dispatched EXCEPT ![n] = Tail(@)]
             /\ forgotten' = [forgotten EXCEPT ![n].dispatch = @ \cup {Head(dispatched[n])}]
             /\ UNCHANGED relayed
    <2>1. ToSet(Tail(dispatched[n])) \subseteq ToSet(dispatched[n])
      BY <1>1, TailFacts
    <2>2. \A m \in Nodes : dispatched'[m] = IF m = n THEN Tail(dispatched[n]) ELSE dispatched[m]
      BY <1>1
    <2> QED BY <1>1, <2>1, <2>2
  <1>2. CASE /\ relayed[n] # <<>>
             /\ relayed' = [relayed EXCEPT ![n] = Tail(@)]
             /\ forgotten' = [forgotten EXCEPT ![n].relay = @ \cup {Head(relayed[n])}]
             /\ UNCHANGED dispatched
    <2>1. /\ ToSet(relayed[n]) \subseteq ToSet(Tail(relayed[n])) \cup {Head(relayed[n])}
          /\ ToSet(Tail(relayed[n])) \subseteq ToSet(relayed[n])
      BY <1>2, TailFacts
    <2>2. \A m \in Nodes : relayed'[m] = IF m = n THEN Tail(relayed[n]) ELSE relayed[m]
      BY <1>2
    <2>3. Head(relayed[n]) \in forgotten'[n].relay
      BY <1>2
    <2> QED BY <1>2, <2>1, <2>2, <2>3
  <1> QED BY <1>1, <1>2 DEF Ages

LEMMA AgesFlood ==
    ASSUME IInv, FloodInv, NEW n \in Nodes, Ages(n), NoneLost'
    PROVE  FloodInv'
PROOF
  <1>1. UNCHANGED <<sent, air, tasks, gathered, handled, forwarded>>
    BY DEF Ages
  <1>2. /\ \A m \in Nodes : ToSet(dispatched'[m]) \subseteq ToSet(dispatched[m])
        /\ \A m \in Nodes : ToSet(relayed'[m]) \subseteq ToSet(relayed[m])
        /\ \A m \in Nodes : ToSet(relayed[m]) \subseteq ToSet(relayed'[m]) \cup forgotten'[m].relay
    BY AgesKeeps
  <1>3. HandedInv'
    BY <1>1, <1>2 DEF FloodInv, HandedInv, Held, Handed
  <1>4. ASSUME NEW id \in Lone
        PROVE  LoneInv(id)'
    <2>1. LoneInv(id) /\ Heard[id] \subseteq Nodes
      BY LoneFacts, TopologyAssumption DEF FloodInv
    <2>2. Relayers(id)' = Relayers(id)
      BY <1>2 DEF Relayers, NoneLost
    <2>3. /\ \A m \in Nodes : Held(m, id)' => Got(m, id)'
          /\ \A m \in Nodes : OnItsWay(m, id) => OnItsWay(m, id)'
      <3>1. /\ \A m \in Nodes : Held(m, id)' => Held(m, id)
            /\ \A m \in Nodes : Flies(m, id) => Flies(m, id)'
        BY <1>1, <1>2 DEF Held, Flies
      <3> QED BY <1>1, <2>1, <2>2, <3>1, LoneKept
    <2>4. HopsLeft(id)'
      BY <1>1, <2>1, <2>2 DEF LoneInv, HopsLeft, Fresh
    <2>5. Flows(id)'
      BY <1>1, <2>1, <2>2, <2>3 DEF LoneInv, Flows
    <2> QED BY <2>3, <2>4, <2>5 DEF LoneInv
  <1>5. ASSUME NEW m \in Nodes, NEW w \in Wholes, Parts(w) # {}, Distinct(w)
        PROVE  TrainInv(m, w)'
    BY <1>1, <1>5 DEF FloodInv, TrainInv, Arrives, Flies, IsForMe, ToMe
  <1>6. \A m \in Nodes, id \in Wholes : Distinct(id) => NearInv(m, id)'
    BY <1>1 DEF FloodInv, NearInv, Flies, Handed
  <1> QED BY <1>3, <1>4, <1>5, <1>6 DEF FloodInv

(* A relay that runs: what comes into the relay cache and into the air.    *)
Broadcasts(n, j, h) ==
    /\ ToSet(relayed'[n]) \subseteq ToSet(relayed[n]) \cup {PacketKey(j, 0)}
    /\ ToSet(relayed[n]) \subseteq ToSet(relayed'[n]) \cup forgotten'[n].relay
    /\ PacketKey(j, 0) \in ToSet(relayed'[n])
    /\ \A m \in Nodes : m # n => relayed'[m] = relayed[m]
    /\ \A m \in Nodes : air[m] \subseteq air'[m] /\ air'[m] \subseteq air[m] \cup Copies(j, h - 1, n)
    /\ j \notin Looped /\ n \notin Crowded =>
          \A m \in Nodes : <<n, m>> \in Links => Flies(m, j)'

LEMMA RelayRuns ==
    ASSUME IInv, NEW n \in Nodes, HandleRelay(n)
    PROVE  \E j \in Packets, h \in 0 .. MaxTtl :
              /\ [id |-> j, ttl |-> h] \in ToSet(tasks[n])
              /\ \A m \in Nodes : m # n => tasks'[m] = tasks[m]
              /\ ToSet(tasks'[n]) \subseteq ToSet(tasks[n])
              /\ ToSet(tasks[n]) \subseteq ToSet(tasks'[n]) \cup {[id |-> j, ttl |-> h]}
              /\ \/ (h = 0 \/ n \in Relayers(j)) /\ UNCHANGED <<air, relayed>>
                 \/ n \notin Relayers(j) /\ Broadcasts(n, j, h)
PROOF
  <1> USE DEF IInv, Typed
  <1>0. /\ tasks[n] # <<>> /\ tasks[n] \in Seq(Task) /\ Head(tasks[n]) \in Task
        /\ ToSet(tasks[n]) = ToSet(Tail(tasks[n])) \cup {Head(tasks[n])}
    BY HeadOrTail, TailFacts DEF HandleRelay
  <1>3. PICK j \in Packets, h \in 0 .. MaxTtl : Head(tasks[n]) = [id |-> j, ttl |-> h]
    BY <1>0 DEF Task
  <1> DEFINE key == PacketKey(j, OneHopLess(h))
             r == Remember(relayed[n], key, RelayMax)
  <1>1. /\ tasks' = [tasks EXCEPT ![n] = Tail(@)]
        /\ IF Spent(h) \/ Remembers(relayed[n], key)
           THEN UNCHANGED <<air, relayed, forwarded, forgotten>>
           ELSE /\ relayed' = [relayed EXCEPT ![n] = r]
                /\ forgotten' = [forgotten EXCEPT ![n].relay = @ \cup (ToSet(relayed[n]) \ ToSet(relayed'[n]))]
                /\ \/ j \notin Looped /\ Forward(n, j, OneHopLess(h))
                   \/ /\ j \in Looped \/ ~Sure(n, OneHopLess(h))
                      /\ UNCHANGED <<air, forwarded>>
    <2>1. Head(tasks[n]).id = j /\ Head(tasks[n]).ttl = h
      BY <1>3
    <2> QED BY <2>1 DEF HandleRelay
  <1>4. /\ \A m \in Nodes : m # n => tasks'[m] = tasks[m]
        /\ tasks'[n] = Tail(tasks[n])
    BY <1>1
  <1>5. key = PacketKey(j, 0) /\ OneHopLess(h) = h - 1
    BY DEF PacketKey, OneHopLess
  <1>6. Remembers(relayed[n], key) <=> n \in Relayers(j)
    BY <1>5 DEF Remembers, Relayers, ToSet
  <1>7. CASE Spent(h) \/ Remembers(relayed[n], key)
    <2>1. (h = 0 \/ n \in Relayers(j)) /\ UNCHANGED <<air, relayed>>
      BY <1>1, <1>6, <1>7 DEF Spent
    <2> QED BY <1>0, <1>3, <1>4, <2>1
  <1>8. CASE ~(Spent(h) \/ Remembers(relayed[n], key))
    <2>1. /\ relayed' = [relayed EXCEPT ![n] = r]
          /\ forgotten' = [forgotten EXCEPT ![n].relay = @ \cup (ToSet(relayed[n]) \ ToSet(relayed'[n]))]
          /\ \/ j \notin Looped /\ Forward(n, j, h - 1)
             \/ /\ j \in Looped \/ ~Sure(n, h - 1)
                /\ UNCHANGED <<air, forwarded>>
      BY <1>1, <1>5, <1>8
    <2>2. key \in RelayKeys /\ relayed[n] \in Seq(RelayKeys) /\ RelayMax \in Nat \ {0}
      BY <1>3, <1>5, BoundAssumption DEF RelayKeys
    <2>3. ToSet(r) \subseteq ToSet(relayed[n]) \cup {key} /\ key \in ToSet(r)
      BY <2>2, RememberSet, RememberFacts
    <2> HIDE DEF r, key
    <2>4. relayed'[n] = r /\ \A m \in Nodes : m # n => relayed'[m] = relayed[m]
      BY <2>1
    <2>5. ToSet(relayed[n]) \subseteq ToSet(relayed'[n]) \cup forgotten'[n].relay
      <3>1. forgotten'[n].relay = forgotten[n].relay \cup (ToSet(relayed[n]) \ ToSet(relayed'[n]))
        BY <2>1
      <3> QED BY <3>1
    <2>6. /\ \A m \in Nodes : air[m] \subseteq air'[m] /\ air'[m] \subseteq air[m] \cup Copies(j, h - 1, n)
          /\ j \notin Looped /\ n \notin Crowded =>
                \A m \in Nodes : <<n, m>> \in Links => Flies(m, j)'
      <3>1. CASE Forward(n, j, h - 1)
        <4>1. air' = [m \in Nodes |-> IF <<n, m>> \in Links THEN air[m] \cup Copies(j, h - 1, n) ELSE air[m]]
          BY <3>1 DEF Forward
        <4>2. \E c \in Copies(j, h - 1, n) : c.id = j
          BY CopiesExist
        <4> QED BY <4>1, <4>2 DEF Flies
      <3>2. CASE UNCHANGED air /\ (j \in Looped \/ ~Sure(n, h - 1))
        BY <3>2 DEF Sure
      <3> QED BY <2>1, <3>1, <3>2
    <2>7. n \notin Relayers(j) /\ Broadcasts(n, j, h)
      BY <1>5, <1>6, <1>8, <2>3, <2>4, <2>5, <2>6 DEF Broadcasts
    <2> QED BY <1>0, <1>3, <1>4, <2>7
  <1> QED BY <1>7, <1>8

-----------------------------------------------------------------------------

LEMMA RelayKeeps ==
    ASSUME IInv, HopsSuffice, NEW id \in Lone, LoneInv(id),
           NEW n \in Nodes, HandleRelay(n), NoneLost'
    PROVE  LoneInv(id)'
PROOF
  <1>0. id \in Packets /\ Heard[id] \subseteq Nodes
    BY LoneFacts, TopologyAssumption
  <1>1. PICK j \in Packets, h \in 0 .. MaxTtl :
              /\ [id |-> j, ttl |-> h] \in ToSet(tasks[n])
              /\ \A m \in Nodes : m # n => tasks'[m] = tasks[m]
              /\ ToSet(tasks'[n]) \subseteq ToSet(tasks[n])
              /\ ToSet(tasks[n]) \subseteq ToSet(tasks'[n]) \cup {[id |-> j, ttl |-> h]}
              /\ \/ (h = 0 \/ n \in Relayers(j)) /\ UNCHANGED <<air, relayed>>
                 \/ n \notin Relayers(j) /\ Broadcasts(n, j, h)
    BY RelayRuns
  <1>2. UNCHANGED <<sent, dispatched, handled>>
    BY DEF HandleRelay
  <1>3. j = id => h + Cardinality(Relayers(id)) >= MaxTtl
    BY <1>1 DEF LoneInv, HopsLeft, Fresh
  <1>4. /\ Cardinality(Relayers(id)) \in Nat /\ IsFiniteSet(Relayers(id)) /\ MaxTtl \in Nat
        /\ Cardinality(Relayers(id)) >= MaxTtl => Relayers(id) = Nodes
    BY RelayersFinite, BoundAssumption
  <1>5. j = id /\ h = 0 => n \in Relayers(id)
    BY <1>3, <1>4
  (* Who relays the packet, and how many hops that takes.                  *)
  <1>6. /\ Relayers(id)' = IF j = id THEN Relayers(id) \cup {n} ELSE Relayers(id)
        /\ \A m \in Nodes : Flies(m, id) => Flies(m, id)'
        /\ \A m \in Nodes : \A c \in air'[m] :
              c \in air[m] \/ (c.id = j /\ c.ttl = h - 1 /\ n \notin Relayers(j))
    <2>1. CASE (h = 0 \/ n \in Relayers(j)) /\ UNCHANGED <<air, relayed>>
      <3>1. j = id => n \in Relayers(id)
        BY <1>5, <2>1
      <3>2. Relayers(id)' = Relayers(id)
        BY <2>1 DEF Relayers
      <3> QED BY <2>1, <3>1, <3>2 DEF Flies
    <2>2. CASE n \notin Relayers(j) /\ Broadcasts(n, j, h)
      <3>1. j # id => PacketKey(id, 0) # PacketKey(j, 0)
        BY RelayApart
      <3>2. \A m \in Nodes : PacketKey(id, 0) \notin forgotten'[m].relay
        BY DEF NoneLost
      <3>3. ASSUME NEW m \in Nodes
            PROVE  m \in Relayers(id)' <=> m \in Relayers(id) \/ (m = n /\ j = id)
        <4>1. CASE m # n
          BY <2>2, <4>1 DEF Broadcasts, Relayers
        <4>2. CASE m = n /\ j = id
          BY <2>2, <4>2 DEF Broadcasts, Relayers
        <4>3. CASE m = n /\ j # id
          BY <2>2, <3>1, <3>2, <4>3 DEF Broadcasts, Relayers
        <4> QED BY <4>1, <4>2, <4>3
      <3>4. Relayers(id)' \subseteq Nodes /\ Relayers(id) \subseteq Nodes
        BY DEF Relayers
      <3>5. \A m \in Nodes : \A c \in air'[m] : c \in air[m] \/ (c.id = j /\ c.ttl = h - 1)
        BY <2>2 DEF Broadcasts, Copies
      <3>6. \A m \in Nodes : Flies(m, id) => Flies(m, id)'
        BY <2>2 DEF Broadcasts, Flies
      <3> QED BY <2>2, <3>3, <3>4, <3>5, <3>6
    <2> QED BY <1>1, <2>1, <2>2
  <1>7. /\ Cardinality(Relayers(id)') \in Nat /\ Cardinality(Relayers(id)') >= Cardinality(Relayers(id))
        /\ j = id /\ n \notin Relayers(id) => Cardinality(Relayers(id)') = Cardinality(Relayers(id)) + 1
    <2>1. CASE j = id
      <3>1. Relayers(id)' = Relayers(id) \cup {n}
        BY <1>6, <2>1
      <3>2. Cardinality(Relayers(id) \cup {n}) =
               IF n \in Relayers(id) THEN Cardinality(Relayers(id)) ELSE Cardinality(Relayers(id)) + 1
        BY <1>4, FS_AddElement
      <3> QED BY <1>4, <3>1, <3>2
    <2>2. CASE j # id
      <3>1. Relayers(id)' = Relayers(id)
        BY <1>6, <2>2
      <3> QED BY <1>4, <2>2, <3>1
    <2> QED BY <2>1, <2>2
  <1>8. HopsLeft(id)'
    <2> SUFFICES ASSUME NEW m \in Nodes, NEW c \in air'[m] \cup ToSet(tasks'[m]), c.id = id
                 PROVE  c.ttl + Cardinality(Relayers(id)') >= MaxTtl
      BY DEF HopsLeft, Fresh
    <2>1. CASE c \in air[m] \cup ToSet(tasks[m])
      <3>1. c.ttl + Cardinality(Relayers(id)) >= MaxTtl
        BY <2>1 DEF LoneInv, HopsLeft, Fresh
      <3>2. c.ttl \in Nat
        <4>1. air[m] \subseteq Copy /\ tasks[m] \in Seq(Task)
          BY DEF IInv, Typed
        <4>2. ToSet(tasks[m]) \subseteq Task
          BY <4>1 DEF ToSet
        <4> QED BY <2>1, <4>1, <4>2 DEF Copy, Task
      <3> QED BY <1>4, <1>7, <3>1, <3>2
    <2>2. CASE c \notin air[m] \cup ToSet(tasks[m])
      <3>1. c.id = j /\ c.ttl = h - 1 /\ n \notin Relayers(j)
        BY <1>1, <1>6, <2>2
      <3> QED BY <1>3, <1>4, <1>7, <3>1
    <2> QED BY <2>1, <2>2
  <1>9. ASSUME NEW m \in Nodes, Got(m, id)
        PROVE  Got(m, id)'
    <2>1. CASE Waits(m, id)
      <3>1. PICK t \in ToSet(tasks[m]) : t.id = id
        BY <2>1 DEF Waits
      <3>2. t \in ToSet(tasks'[m]) \/ (m = n /\ j = id)
        BY <1>1, <3>1
      <3> QED BY <1>6, <3>1, <3>2 DEF Got, Waits
    <2> QED BY <1>6, <1>9, <2>1 DEF Got, ToMe
  <1>10. ASSUME NEW m \in Nodes, OnItsWay(m, id)
         PROVE  OnItsWay(m, id)'
    BY <1>2, <1>6, <1>9, <1>10 DEF OnItsWay, Reached, Handed
  <1>11. Flows(id)'
    <2>1. ASSUME NEW m \in Relayers(id)' \ Crowded, NEW k \in Nodes, <<m, k>> \in Links
          PROVE  OnItsWay(k, id)'
      <3>1. CASE m \in Relayers(id)
        BY <1>10, <2>1, <3>1 DEF LoneInv, Flows
      <3>2. CASE m \notin Relayers(id)
        <4>1. m = n /\ j = id /\ h # 0
          BY <1>5, <1>6, <3>2
        <4>2. Broadcasts(n, j, h)
          BY <1>1, <3>2, <4>1
        <4>3. Flies(k, id)'
          BY <2>1, <4>1, <4>2, LoneFacts DEF Broadcasts
        <4> QED BY <4>3 DEF OnItsWay
      <3> QED BY <3>1, <3>2
    <2> QED BY <1>0, <1>2, <1>10, <2>1 DEF LoneInv, Flows
  <1>12. \A m \in Nodes : Held(m, id)' => Got(m, id)'
    BY <1>2, <1>9 DEF LoneInv, Held
  <1> QED BY <1>8, <1>11, <1>12 DEF LoneInv

LEMMA HandleRelayFlood ==
    ASSUME IInv, HopsSuffice, FloodInv, NEW n \in Nodes, HandleRelay(n), NoneLost'
    PROVE  FloodInv'
PROOF
  <1>1. UNCHANGED <<sent, dispatched, gathered, handled>>
    BY DEF HandleRelay
  <1>2. HandedInv'
    BY <1>1 DEF FloodInv, HandedInv, Held, Handed
  <1>3. \A id \in Lone : LoneInv(id)'
    BY RelayKeeps DEF FloodInv
  <1>4. \A m \in Nodes : air[m] \subseteq air'[m]
    BY RelayRuns DEF Broadcasts
  <1>5. \A m \in Nodes, p \in Packets : Flies(m, p) => Flies(m, p)'
    BY <1>4 DEF Flies
  <1>6. ASSUME NEW m \in Nodes, NEW w \in Wholes, Parts(w) # {}, Distinct(w)
        PROVE  TrainInv(m, w)'
    <2>1. TrainInv(m, w) /\ Parts(w) \subseteq Packets
      BY <1>6 DEF FloodInv, Parts
    <2> QED BY <1>1, <1>5, <2>1 DEF TrainInv, Arrives, IsForMe, ToMe
  <1>7. \A m \in Nodes, id \in Wholes : Distinct(id) => NearInv(m, id)'
    BY <1>1, <1>5 DEF FloodInv, NearInv, Handed, Wholes
  <1> QED BY <1>2, <1>3, <1>6, <1>7 DEF FloodInv

LEMMA InitFlood == HopsSuffice /\ Init => FloodInv
PROOF
  <1> SUFFICES ASSUME HopsSuffice, Init
               PROVE  FloodInv
    OBVIOUS
  <1>1. ToSet(<<>>) = {}
    BY DEF ToSet
  <1>2. \A n \in Nodes : dispatched[n] = <<>> /\ relayed[n] = <<>> /\ tasks[n] = <<>> /\ air[n] = {} /\ gathered[n] = {}
    BY DEF Init
  <1>3. \A n \in Nodes, id \in Packets : ~Held(n, id)
    BY <1>1, <1>2 DEF Held
  <1>4. HandedInv
    BY <1>3 DEF HandedInv, Wholes
  <1>5. ASSUME NEW id \in Lone
        PROVE  LoneInv(id)
    <2>1. Relayers(id) = {} /\ HopsLeft(id) /\ id \notin sent
      BY <1>1, <1>2 DEF Relayers, HopsLeft, Init
    <2> QED BY <1>3, <2>1, LoneFacts DEF LoneInv, Flows
  <1>6. \A n \in Nodes, w \in Wholes : Parts(w) # {} => TrainInv(n, w)
    BY <1>2 DEF TrainInv, Init
  <1>7. \A n \in Nodes, id \in Wholes : NearInv(n, id)
    BY DEF NearInv, Init
  <1> QED BY <1>4, <1>5, <1>6, <1>7 DEF FloodInv

LEMMA NextFlood ==
    ASSUME HopsSuffice
    PROVE  IInv /\ FloodInv /\ [Next]_vars /\ NoneLost' => FloodInv'
PROOF
  <1> SUFFICES ASSUME IInv, FloodInv, [Next]_vars, NoneLost'
               PROVE  FloodInv'
    OBVIOUS
  <1>1. CASE \E id \in Packets : Originate(id)
    BY <1>1, OriginateFlood
  <1>2. CASE \E n \in Nodes : Receive(n)
    BY <1>2, ReceiveFlood
  <1>3. CASE \E n \in Nodes : HandleRelay(n)
    BY <1>3, HandleRelayFlood
  <1>4. CASE \E n \in Nodes : Ages(n)
    BY <1>4, AgesFlood
  <1>5. CASE UNCHANGED vars
    <2>1. UNCHANGED <<sent, air, dispatched, relayed, tasks, gathered, handled>>
      BY <1>5 DEF vars, counts
    <2>2. HandedInv'
      BY <2>1 DEF FloodInv, HandedInv, Held, Handed
    <2>3. ASSUME NEW id \in Lone
          PROVE  LoneInv(id)'
      <3>1. LoneInv(id) /\ Relayers(id)' = Relayers(id)
        BY <2>1 DEF FloodInv, Relayers
      <3>2. /\ \A n \in Nodes : Held(n, id)' => Held(n, id)
            /\ \A n \in Nodes : Flies(n, id) => Flies(n, id)'
        BY <2>1 DEF Held, Flies
      <3>3. /\ \A n \in Nodes : Held(n, id)' => Got(n, id)'
            /\ \A n \in Nodes : OnItsWay(n, id) => OnItsWay(n, id)'
        BY <2>1, <3>1, <3>2, LoneKept
      <3>4. HopsLeft(id)'
        BY <2>1, <3>1 DEF LoneInv, HopsLeft, Fresh
      <3>5. Flows(id)'
        BY <2>1, <3>1, <3>3, LoneFacts, TopologyAssumption DEF LoneInv, Flows
      <3> QED BY <3>3, <3>4, <3>5 DEF LoneInv
    <2>4. \A n \in Nodes, w \in Wholes : Parts(w) # {} /\ Distinct(w) => TrainInv(n, w)'
      BY <2>1 DEF FloodInv, TrainInv, Arrives, Flies
    <2>5. \A n \in Nodes, id \in Wholes : Distinct(id) => NearInv(n, id)'
      BY <2>1 DEF FloodInv, NearInv, Flies, Handed
    <2> QED BY <2>2, <2>3, <2>4, <2>5 DEF FloodInv
  <1> QED BY <1>1, <1>2, <1>3, <1>4, <1>5 DEF Next

(* When the flood is over, what was on its way has arrived.                *)
LEMMA FloodOver ==
    ASSUME Connected, FloodInv
    PROVE  FloodReaches
PROOF
  <1> SUFFICES ASSUME Quiet, NEW id \in Wholes \ Looped, NEW n \in Nodes,
                      Sent(id), IsForMe(n, id), Info[id].sender # n,
                      Alone(id) \/ (IsNoise(id) /\ Near(n, id))
               PROVE  handled[n][id] > 0
    BY DEF FloodReaches
  <1>1. \A m \in Nodes, p \in Packets : ~Flies(m, p) /\ ~Waits(m, p)
    <2>1. ToSet(<<>>) = {}
      BY DEF ToSet
    <2> QED BY <2>1 DEF Quiet, Flies, Waits
  <1>a. Distinct(id)
    BY DispatchApart
  <1>2. CASE Parts(id) = {} /\ Alone(id)
    <2>1. id \in Lone /\ id \in sent /\ id \in Packets
      BY <1>2 DEF Lone, Sent, Wholes
    <2> DEFINE S == {m \in Nodes : Reached(m, id)}
    <2>2. \A m \in Nodes : OnItsWay(m, id) => m \in S
      BY <1>1, <2>1 DEF OnItsWay
    <2>3. LoneInv(id) /\ Heard[id] \subseteq Nodes
      BY <2>1, TopologyAssumption DEF FloodInv
    <2>4. Heard[id] \subseteq S
      BY <2>1, <2>2, <2>3 DEF LoneInv, Flows
    <2>5. ASSUME NEW m \in S, NEW k \in Nodes, Steady(m, id), <<m, k>> \in Links
          PROVE  k \in S
      <3>1. m \in Relayers(id) \ Crowded
        BY <1>1, <2>1, <2>5 DEF Reached, Got, Steady
      <3> QED BY <2>2, <2>3, <2>5, <3>1 DEF LoneInv, Flows
    <2>6. Covers(id, S) /\ S \in SUBSET Nodes
      BY <2>4, <2>5 DEF Covers
    <2>7. InReach(id, n)
      BY <1>2 DEF Connected
    <2>8. n \in S
      BY <2>6, <2>7 DEF InReach
    <2> QED BY <2>8 DEF Reached, Handed
  <1>3. CASE Parts(id) # {}
    <2>1. TrainInv(n, id) /\ Parts(id) \subseteq Packets
      BY <1>3, <1>a DEF FloodInv, Parts
    <2>2. PICK p \in Parts(id) : p \notin gathered[n]
      BY <2>1 DEF TrainInv
    <2>3. p \in sent
      BY <2>1 DEF TrainInv, Sent
    <2>4. n \in Heard[p]
      BY <1>3, <2>2 DEF Connected, Near
    <2> QED BY <1>1, <2>1, <2>2, <2>3, <2>4 DEF TrainInv, Arrives
  <1>4. CASE Parts(id) = {} /\ ~Alone(id)
    <2>1. n \in Heard[id] /\ id \in sent
      BY <1>4 DEF Near, Sent
    <2>2. Handed(n, id)
      BY <1>1, <1>a, <2>1 DEF FloodInv, NearInv, Wholes
    <2> QED BY <2>2 DEF Handed
  <1> QED BY <1>2, <1>3, <1>4

(* A flood reaches everyone: when all that _dispatch and handle_relay have *)
(* to do is done, every packet that was sent has come to the session       *)
(* manager of everyone it is for, unless its sender gave another packet of *)
(* its type the same millisecond; of such packets those of the Noise kind  *)
(* have come to the neighbours of their sender.  The mesh is one that its  *)
(* daemons outside the crowd connect and that has no more daemons than a   *)
(* packet has hops; the copies travel in any order, and the dispatch cache *)
(* may forget.  The relay caches hold on to the packet: one that forgot it *)
(* would send copies with fewer hops after the first ones, and a daemon    *)
(* they overtake the first ones to would pass on no others.                *)
THEOREM FloodReachesAll ==
    ASSUME Connected, HopsSuffice
    PROVE  Spec /\ []NoneLost => []FloodReaches
PROOF
  <1>1. FloodInv => FloodReaches
    BY FloodOver
  <1>2. Init => FloodInv
    BY InitFlood
  <1>3. IInv /\ FloodInv /\ [Next]_vars /\ NoneLost' => FloodInv'
    BY NextFlood
  <1> QED BY <1>1, <1>2, <1>3, InitIInv, NextIInv, PTL DEF Spec

=============================================================================
