------------------------------ MODULE IpcFanout ------------------------------
(***************************************************************************)
(* IpcServer in server/bitchatd/api/server.py with several clients: every  *)
(* event is a task of its own (daemon._publish), which writes its line to  *)
(* the clients one after the other and waits for each to take it; and what *)
(* the window of client/tui.py makes of the peers it is told about.        *)
(*                                                                         *)
(* The event loop runs tasks in the order in which they became ready, and  *)
(* each until it waits.  A writer over its high-water mark makes those     *)
(* that wait for it (drain) wait until it is under its low-water mark, and *)
(* wakes them in the order in which they came.  When the callbacks of the  *)
(* sockets come in between is left open.                                   *)
(***************************************************************************)
EXTENDS Naturals, Sequences, SequencesExt, FiniteSets, FiniteSetsExt

CONSTANTS
    Windows,     \* connections of clients
    Peers,       \* phones the daemon may meet
    HighWater,   \* lines written and not read that pause a writer
    LowWater,    \* lines at which it goes on
    Idle,        \* windows that may stop reading
    Active,      \* windows whose user writes, or closes them
    MaxEvents,   \* bound on the events
    MaxMentions  \* bound on those about anything but who is there

ASSUME FanoutAssumption ==
    /\ HighWater \in Nat /\ LowWater \in Nat /\ LowWater <= HighWater
    /\ Idle \subseteq Windows /\ Active \subseteq Windows /\ MaxEvents \in Nat /\ MaxMentions \in Nat

VARIABLES
    online,    \* _peers of the session manager
    stray,     \* not among them, but in an event since they were lost
    clients,   \* _clients
    conn,      \* state of each connection
    buffer,    \* lines written to a client and not read by it
    paused,    \* its writer is paused
    ready,     \* publish tasks that may go on
    waiting,   \* those that wait in a client's drain
    asked,     \* windows that have asked for the peers
    known,     \* App.peers of each window
    away,      \* App.offline
    talked,    \* peers with a conversation in App.chats
    events,    \* events so far
    mentions,  \* those that are not about who is there
    due,       \* per client: events whose task found it connected
    got,       \* per client: events it has read
    behind     \* clients that were ever listed behind a paused or closed one

server == <<clients, conn, paused, ready, waiting>>
shown == <<known, away, talked, got>>
fanoutVars == <<online, stray, mentions, server, buffer, asked, shown, events, due, behind>>

-----------------------------------------------------------------------------
Open(w) == conn[w] = "open"

HeldUp ==
    {w \in Windows : \E i, j \in DOMAIN clients :
        i < j /\ clients[j] = w /\ (paused[clients[i]] \/ ~Open(clients[i]))}

Track == behind' = behind \cup HeldUp'

(* What happens in the daemon: each event becomes a task.                  *)

Publish(kind, p) ==
    /\ events < MaxEvents
    /\ events' = events + 1
    /\ ready' = Append(ready, [line |-> [kind |-> kind, peer |-> p, n |-> events + 1],
                               begun |-> FALSE, todo |-> <<>>])
    /\ UNCHANGED <<clients, conn, paused, waiting, buffer, asked, shown, due>>
    /\ Track

(* An announcement (changes of a name are left out).                       *)
PeerSeen(p) ==
    /\ p \notin online
    /\ online' = online \cup {p} /\ stray' = stray \ {p} /\ UNCHANGED mentions
    /\ Publish("seen", p)

(* LEAVE, from whomever it comes; the timeout.                             *)
PeerLost(p) ==
    /\ online' = online \ {p} /\ stray' = stray \ {p} /\ UNCHANGED mentions
    /\ Publish("lost", p)

(* Whatever else concerns a phone is published whether the phone is one of *)
(* the daemon's peers, or not yet, or no longer.                           *)
Mention(kind, p) ==
    /\ mentions < MaxMentions
    /\ mentions' = mentions + 1
    /\ stray' = stray \cup ({p} \ online) /\ UNCHANGED online
    /\ Publish(kind, p)

(* A private text or a file, a transfer resumed, the answer to a broken    *)
(* one, or one given up that is not answered: the window notes it in the   *)
(* phone's conversation.                                                   *)
PeerWrites(p) == Mention("message", p)

(* A transfer given up and answered, maybe long after its last fragment.   *)
TransferExpires(p) == Mention("partial", p)

-----------------------------------------------------------------------------
(* publish                                                                 *)

Pauses(w) == Open(w) /\ (paused[w] \/ Len(buffer[w]) + 1 > HighWater)

(* drain waits for a paused client, and lets others run once if it finds   *)
(* the client gone.                                                        *)
Stops(w) == Pauses(w) \/ ~Open(w)

(* Mutant: a task that was stopped starts with the first client again.     *)
TodoAgain(task) == clients

Todo(task) == IF task.begun THEN task.todo ELSE clients

Reached(task) ==
    LET stops == {i \in DOMAIN Todo(task) : Stops(Todo(task)[i])}
    IN  IF stops = {} THEN Len(Todo(task)) ELSE Min(stops)

(* Mutant: a write to a client that is gone is tried again.                *)
RestRetried(task) ==
    LET n == Reached(task)
        retry == n > 0 /\ ~Open(Todo(task)[n])
    IN  SubSeq(Todo(task), IF retry THEN n ELSE n + 1, Len(Todo(task)))

Rest(task) == SubSeq(Todo(task), Reached(task) + 1, Len(Todo(task)))

RunPublish ==
    /\ ready # <<>>
    /\ LET task == Head(ready)
           todo == Todo(task)
           n    == Reached(task)
           to   == {todo[i] : i \in {k \in 1 .. n : Open(todo[k])}}
           rest == [task EXCEPT !.begun = TRUE, !.todo = Rest(task)]
       IN  /\ buffer' = [w \in Windows |-> IF w \in to THEN Append(buffer[w], task.line) ELSE buffer[w]]
           /\ paused' = [w \in Windows |-> paused[w] \/ (w \in to /\ Pauses(w))]
           /\ due' = [w \in Windows |->
                         IF ~task.begun /\ Open(w) THEN due[w] \cup {task.line.n} ELSE due[w]]
           /\ IF n > 0 /\ Stops(todo[n])
              THEN IF Open(todo[n])
                   THEN /\ waiting' = [waiting EXCEPT ![todo[n]] = Append(@, rest)]
                        /\ ready' = Tail(ready)
                   ELSE ready' = Append(Tail(ready), rest) /\ UNCHANGED waiting
              ELSE ready' = Tail(ready) /\ UNCHANGED waiting
    /\ UNCHANGED <<online, stray, mentions, clients, conn, asked, shown, events>>
    /\ Track

-----------------------------------------------------------------------------
(* _handle_client                                                          *)

Connect(w) ==
    /\ conn[w] = "new"
    /\ conn' = [conn EXCEPT ![w] = "open"]
    /\ clients' = Append(clients, w)
    /\ UNCHANGED <<online, stray, mentions, buffer, paused, ready, waiting, asked, shown, events, due>>
    /\ Track

(* The window asks for the peers as soon as it is connected; the reply is  *)
(* written when the handler runs, whatever waits to be published.          *)
ReplyPeers(w) ==
    /\ Open(w) /\ w \notin asked
    /\ asked' = asked \cup {w}
    /\ buffer' = [buffer EXCEPT ![w] = Append(@, [kind |-> "peers", list |-> online])]
    /\ paused' = [paused EXCEPT ![w] = @ \/ Pauses(w)]
    /\ UNCHANGED <<online, stray, mentions, clients, conn, ready, waiting, shown, events, due>>
    /\ Track

(* With the window goes what it knew.                                      *)
Close(w) ==
    /\ Open(w) /\ w \in Active
    /\ conn' = [conn EXCEPT ![w] = "closed"]
    /\ buffer' = [buffer EXCEPT ![w] = <<>>]
    /\ paused' = [paused EXCEPT ![w] = FALSE]
    /\ known' = [known EXCEPT ![w] = {}]
    /\ away' = [away EXCEPT ![w] = {}]
    /\ talked' = [talked EXCEPT ![w] = {}]
    /\ got' = [got EXCEPT ![w] = <<>>]
    /\ due' = [due EXCEPT ![w] = {}]
    /\ UNCHANGED <<online, stray, mentions, clients, ready, waiting, asked, events>>
    /\ Track

Wake(w) ==
    /\ ready' = ready \o waiting[w]
    /\ waiting' = [waiting EXCEPT ![w] = <<>>]

(* connection_lost                                                         *)
ConnectionLost(w) ==
    /\ conn[w] = "closed" /\ waiting[w] # <<>>
    /\ Wake(w)
    /\ UNCHANGED <<online, stray, mentions, clients, conn, paused, buffer, asked, shown, events, due>>
    /\ Track

(* The end of the handler, or of a publish that found the client dead.     *)
Forget(w) ==
    /\ conn[w] = "closed" /\ w \in ToSet(clients)
    /\ clients' = RemoveFirst(clients, w)
    /\ UNCHANGED <<online, stray, mentions, conn, paused, buffer, ready, waiting, asked, shown, events, due>>
    /\ Track

-----------------------------------------------------------------------------
(* The window: _handle_ipc_event, for what is about peers.                 *)

(* Mutant: a peer that is back stays marked as away.                       *)
BackStillAway(A, p) == A

Back(A, p) == A \ {p}

Show(w, line) ==
    CASE line.kind = "peers" ->
            known' = [known EXCEPT ![w] = @ \cup line.list] /\ UNCHANGED <<away, talked>>
      [] line.kind = "seen" ->
            /\ known' = [known EXCEPT ![w] = @ \cup {line.peer}]
            /\ away' = [away EXCEPT ![w] = Back(@, line.peer)]
            /\ UNCHANGED talked
      [] line.kind = "lost" /\ line.peer \in known[w] /\ line.peer \in talked[w] ->
            away' = [away EXCEPT ![w] = @ \cup {line.peer}] /\ UNCHANGED <<known, talked>>
      [] line.kind = "lost" ->
            known' = [known EXCEPT ![w] = @ \ {line.peer}] /\ UNCHANGED <<away, talked>>
      [] line.kind = "partial" ->
            known' = [known EXCEPT ![w] = @ \cup {line.peer}] /\ UNCHANGED <<away, talked>>
      [] line.kind = "message" ->
            /\ known' = [known EXCEPT ![w] = @ \cup {line.peer}]
            /\ talked' = [talked EXCEPT ![w] = @ \cup {line.peer}]
            /\ UNCHANGED away

(* _send_input: the user writes to a peer.                                 *)
Type(w, p) ==
    /\ Open(w) /\ w \in Active /\ p \in known[w] \ talked[w]
    /\ talked' = [talked EXCEPT ![w] = @ \cup {p}]
    /\ UNCHANGED <<online, stray, mentions, server, buffer, asked, known, away, got, events, due, behind>>

(* A line read makes room; below the low-water mark the writer goes on.    *)
Read(w) ==
    /\ Open(w) /\ buffer[w] # <<>>
    /\ buffer' = [buffer EXCEPT ![w] = Tail(@)]
    /\ Show(w, Head(buffer[w]))
    /\ got' = IF Head(buffer[w]).kind = "peers" THEN got
              ELSE [got EXCEPT ![w] = Append(@, Head(buffer[w]).n)]
    /\ IF paused[w] /\ Len(buffer[w]) - 1 <= LowWater
       THEN paused' = [paused EXCEPT ![w] = FALSE] /\ Wake(w)
       ELSE UNCHANGED <<paused, ready, waiting>>
    /\ UNCHANGED <<online, stray, mentions, clients, conn, asked, events, due>>
    /\ Track

-----------------------------------------------------------------------------
FanoutInit ==
    /\ online = {} /\ stray = {}
    /\ clients = <<>>
    /\ conn = [w \in Windows |-> "new"]
    /\ buffer = [w \in Windows |-> <<>>]
    /\ paused = [w \in Windows |-> FALSE]
    /\ ready = <<>>
    /\ waiting = [w \in Windows |-> <<>>]
    /\ asked = {}
    /\ known = [w \in Windows |-> {}]
    /\ away = [w \in Windows |-> {}]
    /\ talked = [w \in Windows |-> {}]
    /\ events = 0 /\ mentions = 0
    /\ due = [w \in Windows |-> {}]
    /\ got = [w \in Windows |-> <<>>]
    /\ behind = {}

FanoutNext ==
    \/ \E p \in Peers : PeerSeen(p) \/ PeerLost(p) \/ PeerWrites(p) \/ TransferExpires(p)
    \/ RunPublish
    \/ \E w \in Windows : \/ Connect(w) \/ ReplyPeers(w) \/ Close(w) \/ ConnectionLost(w)
                          \/ Forget(w) \/ Read(w)
                          \/ \E p \in Peers : Type(w, p)

FanoutSpec == FanoutInit /\ [][FanoutNext]_fanoutVars

(* The event loop runs what is ready; windows read, but for idle ones.     *)
Fairness ==
    /\ WF_fanoutVars(RunPublish)
    /\ \A w \in Windows : WF_fanoutVars(ConnectionLost(w)) /\ WF_fanoutVars(Forget(w))
    /\ \A w \in Windows \ Idle : WF_fanoutVars(Read(w))

FairFanoutSpec == FanoutSpec /\ Fairness

-----------------------------------------------------------------------------
(* Properties.                                                             *)

AtRest == ready = <<>> /\ \A w \in Windows : waiting[w] = <<>>

InOrder(q) == \A i, j \in DOMAIN q : i < j => q[i] < q[j]

(* Whoever pauses, leaves or joins meanwhile, a client is sent each event  *)
(* that was published while it was connected, once and no other; and in    *)
(* the order of the events if it was never listed behind a client that     *)
(* held a task up.                                                         *)
EventsDelivered ==
    \A w \in Windows : Open(w) /\ buffer[w] = <<>> =>
        /\ AtRest => ToSet(got[w]) = due[w]
        /\ IsInjective(got[w])
        /\ w \in behind \/ InOrder(got[w])

(* However joining, asking, the events under way and peers that come and   *)
(* go interleave, a window shows all the daemon's peers as online, and     *)
(* besides them only phones that an event was about since they were lost.  *)
WindowTruthful ==
    \A w \in asked \ behind :
        AtRest /\ Open(w) /\ buffer[w] = <<>> =>
            online \subseteq known[w] \ away[w] /\ known[w] \ away[w] \subseteq online \cup stray

(* Every publish ends, whichever of its clients are slow or go away.       *)
PublishEnds == ~AtRest ~> AtRest

(* What does not hold.  All events are pushed to every connected client,   *)
(* in the order in which they happened, idle clients or not.               *)
EventsInOrder == \A w \in Windows : InOrder(got[w])

(* The window shows the daemon's peers and no others.                      *)
WindowAlwaysTruthful ==
    \A w \in asked : AtRest /\ Open(w) /\ buffer[w] = <<>> => known[w] \ away[w] = online

=============================================================================
