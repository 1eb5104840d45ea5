-------------------------- MODULE BleLinksProofs --------------------------
(***************************************************************************)
(* That the scanner's lock works, for any number of phones, scheduled      *)
(* calls and connections: AttemptsExclusive.  It needs to know only that   *)
(* clients is a function on the addresses and an attempt a record.  And,   *)
(* on top of it, that no link is left behind: LinksOwned, for any number   *)
(* of sends and a BlueZ that disconnects when asked.                       *)
(***************************************************************************)
EXTENDS BleLinks, TLAPS

Steps == {"connect", "notify", "subscribed", "release"}

Shaped ==
    /\ clients \in [Addrs -> Client \cup {None}]
    /\ attempts \subseteq [client : Client, at : Steps]
    /\ releasing \subseteq Client
    /\ writes \subseteq [send : Sends, client : Client]

IInv == Shaped /\ AttemptsExclusive

(* A step that keeps the lock, drops clients at most and moves attempts    *)
(* without changing whose they are keeps the invariant.                    *)
LEMMA MovedAttempt ==
    ASSUME IInv, NEW t \in attempts, NEW s \in Steps,
           attempts' = (attempts \ {t}) \cup {[t EXCEPT !.at = s]},
           connecting' = connecting, clients' = clients
    PROVE  /\ attempts' \subseteq [client : Client, at : Steps]
           /\ AttemptsExclusive'
<1> DEFINE u == [t EXCEPT !.at = s]
<1>1. t \in [client : Client, at : Steps]
  BY DEF IInv, Shaped
<1>2. u \in [client : Client, at : Steps] /\ u.client = t.client
  BY <1>1
<1> HIDE DEF u
<1>3. attempts' = (attempts \ {t}) \cup {u}
  BY DEF u
<1>4. connecting' = {v.client.addr : v \in attempts'}
  BY <1>2, <1>3 DEF IInv, AttemptsExclusive
<1>5. \A v, w \in attempts' : v.client.addr = w.client.addr => v = w
  BY <1>2, <1>3 DEF IInv, AttemptsExclusive
<1>6. \A v \in attempts' : clients'[v.client.addr] = None
  BY <1>2, <1>3 DEF IInv, AttemptsExclusive
<1>7. QED
  BY <1>2, <1>3, <1>4, <1>5, <1>6 DEF IInv, Shaped, AttemptsExclusive

(* An attempt that ends gives its lock back.                               *)
LEMMA EndedAttempt ==
    ASSUME IInv, NEW t \in attempts,
           attempts' = attempts \ {t},
           connecting' = connecting \ {t.client.addr},
           \A a \in Addrs \ {t.client.addr} : clients'[a] = clients[a]
    PROVE  /\ attempts' \subseteq [client : Client, at : Steps]
           /\ AttemptsExclusive'
<1>1. \A v \in attempts : v.client.addr \in Addrs
  BY DEF IInv, Shaped, Client
<1>2. \A v \in attempts' : v.client.addr # t.client.addr
  BY DEF IInv, AttemptsExclusive
<1>3. connecting' = {v.client.addr : v \in attempts'}
  BY <1>2 DEF IInv, AttemptsExclusive
<1>4. \A v \in attempts' : clients'[v.client.addr] = None
  BY <1>1, <1>2 DEF IInv, AttemptsExclusive
<1>5. QED
  BY <1>3, <1>4 DEF IInv, Shaped, AttemptsExclusive

(* Dropping clients disturbs no attempt.                                   *)
LEMMA DroppedClients ==
    ASSUME IInv, UNCHANGED <<attempts, connecting>>,
           \A a \in Addrs : clients'[a] \in {clients[a], None}
    PROVE  AttemptsExclusive'
<1>1. \A v \in attempts : v.client.addr \in Addrs
  BY DEF IInv, Shaped, Client
<1>2. \A v \in attempts' : clients'[v.client.addr] = None
  BY <1>1 DEF IInv, AttemptsExclusive
<1>3. QED
  BY <1>2 DEF IInv, AttemptsExclusive

LEMMA InitExclusive == Init => IInv
BY DEF Init, IInv, Shaped, AttemptsExclusive

LEMMA NextExclusive == IInv /\ [Next]_vars => IInv'
<1> SUFFICES ASSUME IInv, [Next]_vars PROVE IInv'
  OBVIOUS
<1> USE DEF IInv, Shaped, registry, tasks, links, phones
<1>1. ASSUME NEW c \in Client, Connect(c)
      PROVE  IInv'
  <2>1. CASE Busy(c.addr) \/ paused
    BY <1>1, <2>1 DEF Connect, AttemptsExclusive
  <2>2. CASE ~(Busy(c.addr) \/ paused)
    <3> DEFINE t == [client |-> c, at |-> "connect"]
    <3>1. /\ attempts' = attempts \cup {t} /\ connecting' = connecting \cup {c.addr}
          /\ UNCHANGED <<clients, releasing, writes>>
      BY <1>1, <2>2 DEF Connect
    <3>2. t \in [client : Client, at : Steps] /\ t.client.addr = c.addr
      BY DEF Steps
    <3>3. c.addr \notin connecting /\ clients[c.addr] = None
      BY <2>2 DEF Busy
    <3> HIDE DEF t
    <3>4. \A v \in attempts : v.client.addr # c.addr
      BY <3>3 DEF AttemptsExclusive
    <3>5. AttemptsExclusive'
      BY <3>1, <3>2, <3>3, <3>4 DEF AttemptsExclusive
    <3>6. QED
      BY <3>1, <3>2, <3>5
  <2>3. QED
    BY <2>1, <2>2
<1>2. ASSUME NEW t \in attempts, LinkUp(t)
      PROVE  IInv'
  <2>1. "notify" \in Steps
    BY DEF Steps
  <2>2. QED
    BY <1>2, <2>1, MovedAttempt DEF LinkUp, At
<1>3. ASSUME NEW t \in attempts, NotifyStarted(t)
      PROVE  IInv'
  <2>1. "subscribed" \in Steps
    BY DEF Steps
  <2>2. QED
    BY <1>3, <2>1, MovedAttempt DEF NotifyStarted, At
<1>4. ASSUME NEW t \in attempts, ConnectFailed(t)
      PROVE  IInv'
  <2>1. "release" \in Steps
    BY DEF Steps
  <2>2. QED
    BY <1>4, <2>1, MovedAttempt DEF ConnectFailed, At
<1>5. ASSUME NEW t \in attempts, Subscribed(t)
      PROVE  IInv'
  <2>1. t.client \in Client
    OBVIOUS
  <2>2. clients' \in [Addrs -> Client \cup {None}]
    BY <1>5, <2>1 DEF Subscribed
  <2>3. \A a \in Addrs \ {t.client.addr} : clients'[a] = clients[a]
    BY <1>5 DEF Subscribed
  <2>4. QED
    BY <1>5, <2>2, <2>3, EndedAttempt DEF Subscribed
<1>6. ASSUME NEW t \in attempts, AttemptReleased(t)
      PROVE  IInv'
  BY <1>6, EndedAttempt DEF AttemptReleased
<1>7. ASSUME NEW a \in Addrs, LinkDown(a)
      PROVE  IInv'
  <2>1. clients' = [clients EXCEPT ![a] = None]
    BY <1>7 DEF LinkDown, OnDisconnected
  <2>2. QED
    BY <1>7, <2>1, DroppedClients DEF LinkDown
<1>8. CASE DisconnectAllCentral
  <2>1. releasing' \subseteq Client
    BY <1>8 DEF DisconnectAllCentral, Released, Connected
  <2>2. clients' = [a \in Addrs |-> None]
    BY <1>8 DEF DisconnectAllCentral
  <2>3. QED
    BY <1>8, <2>1, <2>2, DroppedClients DEF DisconnectAllCentral
<1>9. ASSUME NEW w \in writes, WriteFailed(w)
      PROVE  IInv'
  <2>1. w.client \in Client
    OBVIOUS
  <2>2. clients' = [clients EXCEPT ![w.client.addr] = None]
    BY <1>9 DEF WriteFailed
  <2>3. QED
    BY <1>9, <2>1, <2>2, DroppedClients DEF WriteFailed
<1>10. ASSUME NEW s \in Sends, Send(s)
       PROVE  IInv'
  <2>1. writes' \subseteq [send : Sends, client : Client]
    BY <1>10 DEF Send, Connected
  <2>2. QED
    BY <1>10, <2>1, DroppedClients DEF Send
<1>11. ASSUME NEW w \in writes, Written(w)
       PROVE  IInv'
  BY <1>11, DroppedClients DEF Written
<1>12. ASSUME NEW c \in releasing, BgDisconnected(c)
       PROVE  IInv'
  BY <1>12, DroppedClients DEF BgDisconnected
<1>13. ASSUME UNCHANGED <<clients, connecting, attempts, releasing, writes>>
       PROVE  IInv'
  BY <1>13 DEF AttemptsExclusive
<1>14. ASSUME NEW a \in Addrs,
              \/ OnDeviceDetected(a) \/ Vanish(a) \/ SkipEnds(a) \/ GuestJoins(a) \/ GuestSubscribes(a)
              \/ GuestLeaves(a) \/ GuestWrites(a) \/ WatchdogEvicts(a) \/ EvictFails(a)
       PROVE  UNCHANGED <<clients, connecting, attempts, releasing, writes>>
  BY <1>14 DEF OnDeviceDetected, Vanish, SkipEnds, GuestJoins, GuestSubscribes, GuestLeaves, GuestWrites,
     WatchdogEvicts, EvictFails
<1>15. ASSUME \/ SetsEnd \/ PauseEnds \/ WriteAges \/ WatchdogLooks \/ UNCHANGED vars
              \/ \E c \in Client : Notified(c)
       PROVE  UNCHANGED <<clients, connecting, attempts, releasing, writes>>
  BY <1>15 DEF SetsEnd, PauseEnds, WriteAges, WatchdogLooks, Notified, vars
<1>16. QED
  BY <1>1, <1>2, <1>3, <1>4, <1>5, <1>6, <1>7, <1>8, <1>9, <1>10, <1>11, <1>12, <1>13, <1>14, <1>15 DEF Next

(* However many tasks and timers call _connect for an address, one attempt *)
(* to connect to it runs at a time and none beside a client.               *)
THEOREM OneAttemptAtATime == Spec => []AttemptsExclusive
<1>1. IInv => AttemptsExclusive
  BY DEF IInv
<1>2. QED
  BY InitExclusive, NextExclusive, <1>1, PTL DEF Spec

-----------------------------------------------------------------------------
(* Links and their owners.                                                 *)

Owned(c) == clients[c.addr] = c \/ c \in releasing \/ \E t \in attempts : t.client = c

OwnInv == IInv /\ up \subseteq Client /\ LinksOwned

Obliging == "refuses" \notin May

(* A step that drops no client, ends no attempt and makes no link keeps    *)
(* what is owned.                                                          *)
LEMMA OwnersStay ==
    ASSUME OwnInv, up' \subseteq up, dropped' = dropped, clients' = clients, releasing' = releasing,
           \A t \in attempts : \E u \in attempts' : u.client = t.client
    PROVE  up' \subseteq Client /\ LinksOwned'
BY DEF OwnInv, LinksOwned

(* An attempt goes on; its client may be up now.                           *)
LEMMA AttemptGoesOn ==
    ASSUME OwnInv, NEW t \in attempts, NEW s, At(t, t.at, s), up' \in {up, up \cup {t.client}},
           UNCHANGED <<clients, releasing, dropped>>
    PROVE  up' \subseteq Client /\ LinksOwned'
<1> DEFINE u == [t EXCEPT !.at = s]
<1>1. t \in [client : Client, at : Steps]
  BY DEF OwnInv, IInv, Shaped
<1>2. u.client = t.client /\ attempts' = (attempts \ {t}) \cup {u}
  BY <1>1 DEF At
<1> HIDE DEF u
<1>3. \A v \in attempts : \E w \in attempts' : w.client = v.client
  BY <1>2
<1>4. \E w \in attempts' : w.client = t.client
  BY <1>3
<1> QED
  BY <1>1, <1>3, <1>4 DEF OwnInv, LinksOwned

(* The client an attempt or an entry has lost is owned otherwise, or has   *)
(* no link, or is one of those excepted.                                   *)
LEMMA OwnStep ==
    ASSUME Obliging, OwnInv, Next
    PROVE  up' \subseteq Client /\ LinksOwned'
<1>0. /\ up \subseteq Client /\ IInv /\ \A c \in up \ dropped : Owned(c)
      /\ \A c \in Client : c.addr \in Addrs
      /\ clients \in [Addrs -> Client \cup {None}]
      /\ attempts \subseteq [client : Client, at : Steps]
      /\ writes \subseteq [send : Sends, client : Client]
  BY DEF OwnInv, LinksOwned, Owned, IInv, Shaped, Client
<1> USE DEF registry, tasks, links, phones
<1>1. ASSUME NEW c \in Client, Connect(c) PROVE up' \subseteq Client /\ LinksOwned'
  <2>1. attempts \subseteq attempts'
    BY <1>1 DEF Connect
  <2> QED BY <1>1, <2>1, OwnersStay DEF Connect
<1>2. ASSUME NEW t \in attempts, LinkUp(t) \/ NotifyStarted(t) \/ ConnectFailed(t)
      PROVE  up' \subseteq Client /\ LinksOwned'
  <2>1. PICK s : At(t, t.at, s)
    BY <1>2 DEF LinkUp, NotifyStarted, ConnectFailed, At
  <2> QED BY <1>2, <2>1, AttemptGoesOn DEF LinkUp, NotifyStarted, ConnectFailed
<1>3. ASSUME NEW t \in attempts, Subscribed(t) PROVE up' \subseteq Client /\ LinksOwned'
  <2> DEFINE a == t.client.addr
  <2>1. /\ attempts' = attempts \ {t} /\ clients' = [clients EXCEPT ![a] = t.client]
        /\ UNCHANGED <<releasing, up, dropped>>
    BY <1>3 DEF Subscribed
  <2>2. t.client \in Client /\ clients[a] = None
    BY <1>0 DEF IInv, AttemptsExclusive
  <2>3. clients'[a] = t.client /\ \A b \in Addrs \ {a} : clients'[b] = clients[b]
    BY <1>0, <2>1, <2>2
  <2>4. ASSUME NEW c \in up \ dropped PROVE Owned(c)'
    <3>1. c \in Client /\ c.addr \in Addrs
      BY <1>0
    <3>2. CASE clients[c.addr] = c
      BY <2>2, <2>3, <3>1, <3>2, NoneAssumption DEF Owned
    <3>3. CASE c \in releasing \/ \E v \in attempts : v.client = c
      BY <2>1, <2>3, <3>3 DEF Owned
    <3> QED BY <1>0, <3>2, <3>3 DEF Owned
  <2> QED BY <1>0, <2>1, <2>4 DEF LinksOwned, Owned
<1>4. ASSUME NEW t \in attempts, AttemptReleased(t) PROVE up' \subseteq Client /\ LinksOwned'
  <2>1. /\ t.client \notin up /\ attempts' = attempts \ {t}
        /\ UNCHANGED <<clients, releasing, up, dropped>>
    BY <1>4 DEF AttemptReleased, IsDown, Obliging
  <2> QED BY <1>0, <2>1 DEF LinksOwned, Owned
<1>5. ASSUME NEW a \in Addrs, LinkDown(a) PROVE up' \subseteq Client /\ LinksOwned'
  <2>1. /\ up' = up \ Links(a) /\ dropped' = dropped \ Links(a)
        /\ clients' = [clients EXCEPT ![a] = None]
        /\ UNCHANGED <<attempts, releasing>>
    BY <1>5 DEF LinkDown, OnDisconnected
  <2>2. ASSUME NEW c \in up' \ dropped'
        PROVE  c \in up \ dropped /\ clients'[c.addr] = clients[c.addr]
    BY <1>0, <2>1 DEF Links
  <2> QED BY <1>0, <2>1, <2>2 DEF LinksOwned, Owned
<1>6. ASSUME NEW a \in Addrs, Vanish(a) PROVE up' \subseteq Client /\ LinksOwned'
  <2>1. /\ up' = up \ Links(a) /\ dropped' = dropped \ Links(a)
        /\ UNCHANGED <<clients, attempts, releasing>>
    BY <1>6 DEF Vanish
  <2> QED BY <1>0, <2>1 DEF LinksOwned, Owned
<1>7. CASE DisconnectAllCentral
  <2>1. /\ releasing' = releasing \cup Connected
        /\ UNCHANGED <<attempts, up, dropped>>
    BY <1>7 DEF DisconnectAllCentral, Released
  <2>2. \A c \in up : clients[c.addr] = c => c \in Connected
    BY <1>0, NoneAssumption DEF Connected
  <2> QED BY <1>0, <2>1, <2>2 DEF LinksOwned, Owned
<1>8. ASSUME NEW c \in releasing, BgDisconnected(c) PROVE up' \subseteq Client /\ LinksOwned'
  <2>1. /\ c \notin up /\ releasing' = releasing \ {c}
        /\ UNCHANGED <<clients, attempts, up, dropped>>
    BY <1>8 DEF BgDisconnected, IsDown, Obliging
  <2> QED BY <1>0, <2>1 DEF LinksOwned, Owned
<1>9. ASSUME NEW w \in writes, WriteFailed(w) PROVE up' \subseteq Client /\ LinksOwned'
  <2> DEFINE a == w.client.addr
  <2>1. /\ releasing' = releasing \cup {w.client}
        /\ clients' = [clients EXCEPT ![a] = None]
        /\ dropped' = dropped \cup ({clients[a]} \cap (up \ {w.client}))
        /\ UNCHANGED <<attempts, up>>
    BY <1>9 DEF WriteFailed
  <2>2. \A b \in Addrs \ {a} : clients'[b] = clients[b]
    BY <1>0, <2>1
  <2>3. ASSUME NEW c \in up \ dropped' PROVE Owned(c)'
    <3>1. c \in Client /\ c.addr \in Addrs /\ Owned(c)
      BY <1>0, <2>1
    <3>2. CASE clients[c.addr] = c /\ c.addr = a
      BY <2>1, <3>2 DEF Owned
    <3>3. CASE clients[c.addr] = c /\ c.addr # a
      BY <2>2, <3>1, <3>3 DEF Owned
    <3>4. CASE c \in releasing \/ \E t \in attempts : t.client = c
      BY <2>1, <3>4 DEF Owned
    <3> QED BY <3>1, <3>2, <3>3, <3>4 DEF Owned
  <2> QED BY <1>0, <2>1, <2>3 DEF LinksOwned, Owned
<1>10. ASSUME NEW a \in Addrs,
              \/ OnDeviceDetected(a) \/ SkipEnds(a) \/ GuestJoins(a) \/ GuestSubscribes(a)
              \/ GuestLeaves(a) \/ GuestWrites(a) \/ WatchdogEvicts(a) \/ EvictFails(a)
       PROVE  up' \subseteq Client /\ LinksOwned'
  BY <1>10, OwnersStay DEF OnDeviceDetected, SkipEnds, GuestJoins, GuestSubscribes, GuestLeaves, GuestWrites,
     WatchdogEvicts, EvictFails
<1>11. ASSUME NEW s \in Sends, Send(s) PROVE up' \subseteq Client /\ LinksOwned'
  BY <1>11, OwnersStay DEF Send
<1>12. ASSUME NEW w \in writes, Written(w) PROVE up' \subseteq Client /\ LinksOwned'
  BY <1>12, OwnersStay DEF Written
<1>13. ASSUME SetsEnd \/ PauseEnds \/ WriteAges \/ WatchdogLooks \/ \E c \in Client : Notified(c)
       PROVE  up' \subseteq Client /\ LinksOwned'
  BY <1>13, OwnersStay DEF SetsEnd, PauseEnds, WriteAges, WatchdogLooks, Notified
<1> QED
  BY <1>1, <1>2, <1>3, <1>4, <1>5, <1>6, <1>7, <1>8, <1>9, <1>10, <1>11, <1>12, <1>13 DEF Next

(* However attempts, lost links, pauses and the writes of any number of    *)
(* sends overlap, no link is left that nobody will end, but for those      *)
(* whose entry the failing write of an older client dropped; if BlueZ      *)
(* disconnects when asked.                                                 *)
THEOREM EveryLinkIsOwned == Spec => [](Obliging => LinksOwned)
<1> DEFINE CInv == Obliging => OwnInv
<1>1. Init => CInv
  BY InitExclusive DEF Init, OwnInv, LinksOwned
<1>2. CInv /\ [Next]_vars => CInv'
  <2> SUFFICES ASSUME Obliging, OwnInv, [Next]_vars PROVE OwnInv'
    BY DEF Obliging
  <2>1. IInv'
    BY NextExclusive DEF OwnInv
  <2>2. CASE UNCHANGED vars
    BY <2>1, <2>2, OwnersStay DEF vars, registry, tasks, links, OwnInv
  <2> QED BY <2>1, <2>2, OwnStep DEF OwnInv
<1>3. CInv => (Obliging => LinksOwned)
  BY DEF OwnInv
<1> HIDE DEF CInv
<1> QED
  BY <1>1, <1>2, <1>3, PTL DEF Spec

=============================================================================
