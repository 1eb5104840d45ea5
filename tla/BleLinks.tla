----------------------------- MODULE BleLinks -----------------------------
(***************************************************************************)
(* The two BLE roles of a daemon: BleScanner in                            *)
(* server/bitchatd/ble/scanner.py, which connects to phones as a central,  *)
(* and GattServer in server/bitchatd/ble/gatt_server.py, to which phones   *)
(* connect, with the subscription watchdog and the callbacks that          *)
(* server/daemon.py puts between them.                                     *)
(*                                                                         *)
(* Coroutines run from await to await; BlueZ, bleak and the phones do what *)
(* they do in between.  A BleakClient is its address and a number, a new   *)
(* one for each attempt to connect.  Delays are left out: a timer may go   *)
(* off, and a back-off or a pause may end, at any time.                    *)
(***************************************************************************)
EXTENDS Naturals, FiniteSets

CONSTANTS
    None,
    Addrs,        \* the addresses of the phones around
    MaxCount,     \* bound: failures are counted up to here
    MaxDue,       \* bound: calls of _connect scheduled for an address
    MaxClients,   \* bound: BleakClients of an address at a time
    Sends,        \* bound: sends that may be under way at a time
    May           \* which optional events of the environment happen

ASSUME BoundAssumption ==
    MaxCount \in Nat \ {0} /\ MaxDue \in Nat \ {0} /\ MaxClients \in Nat \ {0}

VARIABLES
    clients,      \* _clients
    connecting,   \* _connecting
    failCount,    \* _fail_count
    skipping,     \* the addresses whose _skip_until lies ahead
    paused,       \* whether _paused_until lies ahead
    due,          \* tasks and reconnect timers that will call _connect
    attempts,     \* running calls of _connect, past its guard
    releasing,    \* running calls of _bg_disconnect
    writes,       \* what running sends have left of their snapshots
    up,           \* clients with a link
    dropped,      \* clients with a link whose entry an older one's write cost
    guests,       \* phones connected to the daemon's own service
    subscribed,   \* those of them that subscribed to notifications
    writers,      \* connected_device_paths
    wrote,        \* whether a phone wrote in the last thirty seconds
    evicting,     \* what the watchdog has left to disconnect
    receiving     \* is_receiving() of the FragmentManager

registry == <<clients, connecting, failCount, skipping, paused>>
tasks == <<due, attempts, releasing, writes>>
links == <<up, dropped>>
phones == <<guests, subscribed, wrote, evicting, receiving>>
vars == <<registry, tasks, links, phones, writers>>

Client == [addr : Addrs, num : 1 .. MaxClients]

ASSUME NoneAssumption == None \notin Client

Connected == {clients[a] : a \in Addrs} \ {None}

InUse ==
    Connected \cup {t.client : t \in attempts} \cup releasing \cup {w.client : w \in writes}
        \cup up

(* The next BleakClient for an address.                                    *)
IsNew(c) ==
    /\ c \notin InUse
    /\ \A m \in 1 .. (c.num - 1) : [addr |-> c.addr, num |-> m] \in InUse

Less(n, max) == IF n < max THEN n ELSE max

(* GattServer.notifying: BlueZ calls StartNotify for the first subscriber  *)
(* and StopNotify after the last.                                          *)
Notifying == subscribed # {}

-----------------------------------------------------------------------------
(* Connecting                                                              *)

(* Mutant: the attempts under way are not looked at.                       *)
BusyConnected(a) == clients[a] # None

Busy(a) == clients[a] # None \/ a \in connecting

(* An advertisement of the phone.                                          *)
OnDeviceDetected(a) ==
    /\ ~Busy(a) /\ ~paused /\ a \notin skipping /\ a \notin writers
    /\ due[a] < MaxDue
    /\ due' = [due EXCEPT ![a] = @ + 1]
    /\ UNCHANGED <<registry, attempts, releasing, writes, links, phones, writers>>

(* A scheduled call: it begins an attempt, or returns at its guard.        *)
Connect(c) ==
    LET a == c.addr
    IN  /\ due[a] > 0
        /\ due' = [due EXCEPT ![a] = @ - 1]
        /\ IF Busy(a) \/ paused
           THEN UNCHANGED <<connecting, attempts>>
           ELSE /\ connecting' = connecting \cup {a}
                /\ attempts' = attempts \cup {[client |-> c, at |-> "connect"]}
        /\ UNCHANGED <<clients, failCount, skipping, paused, releasing, writes, links, phones, writers>>

At(t, here, there) ==
    /\ t.at = here
    /\ attempts' = (attempts \ {t}) \cup {[t EXCEPT !.at = there]}

(* connect() succeeds, the service is there, start_notify is called.       *)
LinkUp(t) ==
    /\ At(t, "connect", "notify")
    /\ up' = up \cup {t.client}
    /\ UNCHANGED <<registry, due, releasing, writes, dropped, phones, writers>>

(* BlueZ has accepted start_notify; the attempt has not gone on yet.       *)
NotifyStarted(t) ==
    /\ t.client \in up
    /\ At(t, "notify", "subscribed")
    /\ UNCHANGED <<registry, due, releasing, writes, links, phones, writers>>

(* It goes on: the client is one to send to.                               *)
Subscribed(t) ==
    LET a == t.client.addr
    IN  /\ t.at = "subscribed"
        /\ attempts' = attempts \ {t}
        /\ clients' = [clients EXCEPT ![a] = t.client]
        /\ failCount' = [failCount EXCEPT ![a] = 0]
        /\ connecting' = connecting \ {a}
        /\ UNCHANGED <<skipping, paused, due, releasing, writes, links, phones, writers>>

Counted(n) == Less(n + 1, MaxCount)

BackOff(a) ==
    /\ failCount' = [failCount EXCEPT ![a] = Counted(@)]
    /\ skipping' = skipping \cup {a}

(* connect() fails, or succeeds without the service; or start_notify fails.*)
(* The attempt then awaits disconnect(), with its address still locked.    *)
ConnectFailed(t) ==
    /\ t.at \in {"connect", "notify"}
    /\ At(t, t.at, "release")
    /\ up' \in IF t.at = "connect" THEN {up, up \cup {t.client}} ELSE {up}
    /\ BackOff(t.client.addr)
    /\ UNCHANGED <<clients, connecting, paused, due, releasing, writes, dropped, phones, writers>>

(* Mutant: disconnect() is not awaited.                                    *)
IsDownAnyway(c) == TRUE

(* What ends an await of disconnect(): the link is down, or BlueZ refuses  *)
(* or takes too long, which the callers ignore.                            *)
IsDown(c) == c \notin up \/ "refuses" \in May

AttemptReleased(t) ==
    /\ t.at = "release" /\ IsDown(t.client)
    /\ attempts' = attempts \ {t}
    /\ connecting' = connecting \ {t.client.addr}
    /\ UNCHANGED <<clients, failCount, skipping, paused, due, releasing, writes, links, phones, writers>>

-----------------------------------------------------------------------------
(* Losing a link                                                           *)

Links(a) == {c \in up : c.addr = a}

(* _on_disconnected, once for each client that is told: it closes the      *)
(* entry of the address, whichever client is there, counts a connection    *)
(* that was short, drops the phone from those that write, and retries.     *)
OnDisconnected(a, times) ==
    /\ clients' = [clients EXCEPT ![a] = None]
    /\ IF clients[a] = None
       THEN UNCHANGED <<failCount, skipping>>
       ELSE \/ BackOff(a)
            \/ /\ failCount' = [failCount EXCEPT ![a] = 0]
               /\ skipping' = skipping \ {a}
    /\ writers' = writers \ {a}
    /\ due' = [due EXCEPT ![a] = Less(@ + times, MaxDue)]

(* The device is disconnected, and with it all its clients.                *)
LinkDown(a) ==
    /\ Links(a) # {}
    /\ up' = up \ Links(a)
    /\ dropped' = dropped \ Links(a)
    /\ OnDisconnected(a, Cardinality(Links(a)))
    /\ UNCHANGED <<connecting, paused, attempts, releasing, writes, phones>>

(* BlueZ drops the device, and no callback comes.                          *)
Vanish(a) ==
    /\ "vanish" \in May /\ Links(a) # {}
    /\ up' = up \ Links(a)
    /\ dropped' = dropped \ Links(a)
    /\ UNCHANGED <<registry, tasks, phones, writers>>

SkipEnds(a) ==
    /\ a \in skipping
    /\ skipping' = skipping \ {a}
    /\ UNCHANGED <<clients, connecting, failCount, paused, tasks, links, phones, writers>>

-----------------------------------------------------------------------------
(* Releasing and sending                                                   *)

(* Mutant: the connections are forgotten.                                  *)
ReleasedNot == releasing

Released == releasing \cup Connected

(* disconnect_all_central, at the first fragment of a large set.           *)
DisconnectAllCentral ==
    /\ receiving' = TRUE
    /\ paused' = TRUE
    /\ clients' = [a \in Addrs |-> None]
    /\ releasing' = Released
    /\ UNCHANGED <<connecting, failCount, skipping, due, attempts, writes, links, guests, subscribed, wrote, evicting, writers>>

(* The last set is complete, or has expired.                               *)
SetsEnd ==
    /\ receiving /\ receiving' = FALSE
    /\ UNCHANGED <<registry, tasks, links, guests, subscribed, wrote, evicting, writers>>

(* Two minutes after the last large set began.                             *)
PauseEnds ==
    /\ paused /\ paused' = FALSE
    /\ UNCHANGED <<clients, connecting, failCount, skipping, tasks, links, phones, writers>>

BgDisconnected(c) ==
    /\ c \in releasing /\ IsDown(c)
    /\ releasing' = releasing \ {c}
    /\ UNCHANGED <<registry, due, attempts, writes, links, phones, writers>>

(* send takes its snapshot: the clients whose phones do not write to us.   *)
(* Each packet has a task of its own, and a relay sends from its own; that *)
(* no transfer runs was tested when a task was scheduled, if at all.       *)
Send(s) ==
    LET out == {c \in Connected : c.addr \notin writers}
    IN  /\ out # {}
        /\ \A w \in writes : w.send # s
        /\ writes' = writes \cup {[send |-> s, client |-> c] : c \in out}
        /\ UNCHANGED <<registry, due, attempts, releasing, links, phones, writers>>

(* A write is done, or fails with an error that means nothing.             *)
Written(w) ==
    /\ writes' = writes \ {w}
    /\ UNCHANGED <<registry, due, attempts, releasing, links, phones, writers>>

(* A write fails because the handle is stale, or with another error of     *)
(* BlueZ: the entry of the address is dropped, whichever client it is, and *)
(* the client of the write disconnected.                                   *)
WriteFailed(w) ==
    LET entry == clients[w.client.addr]
    IN  /\ writes' = writes \ {w}
        /\ clients' = [clients EXCEPT ![w.client.addr] = None]
        /\ releasing' = releasing \cup {w.client}
        /\ dropped' = dropped \cup ({entry} \cap (up \ {w.client}))
        /\ UNCHANGED <<connecting, failCount, skipping, paused, due, attempts, up, phones, writers>>

-----------------------------------------------------------------------------
(* The GATT server and its watchdog                                        *)

GuestJoins(a) ==
    /\ "guests" \in May /\ a \notin guests
    /\ guests' = guests \cup {a}
    /\ UNCHANGED <<registry, tasks, links, subscribed, wrote, evicting, receiving, writers>>

GuestSubscribes(a) ==
    /\ a \in guests \ subscribed
    /\ subscribed' = subscribed \cup {a}
    /\ UNCHANGED <<registry, tasks, links, guests, wrote, evicting, receiving, writers>>

(* Nobody tells the GATT server that a phone has left.                     *)
Leave(a) == guests' = guests \ {a} /\ subscribed' = subscribed \ {a}

GuestLeaves(a) ==
    /\ a \in guests /\ Leave(a)
    /\ UNCHANGED <<registry, tasks, links, wrote, evicting, receiving, writers>>

(* WriteValue.                                                             *)
GuestWrites(a) ==
    /\ a \in guests
    /\ writers' = writers \cup {a} /\ wrote' = TRUE
    /\ UNCHANGED <<registry, tasks, links, guests, subscribed, evicting, receiving>>

(* A notification of a phone the scanner subscribed to.                    *)
Notified(c) ==
    /\ c \in up
    /\ c \in Connected \cup releasing \/ \E t \in attempts : t.client = c /\ t.at = "subscribed"
    /\ wrote' = TRUE
    /\ UNCHANGED <<registry, tasks, links, guests, subscribed, evicting, receiving, writers>>

WriteAges ==
    /\ wrote /\ wrote' = FALSE
    /\ UNCHANGED <<registry, tasks, links, guests, subscribed, evicting, receiving, writers>>

(* Mutant: the times are compared the wrong way round.                     *)
SuspectsSilent == ~Notifying /\ ~receiving /\ ~wrote

Suspects == ~Notifying /\ ~receiving /\ wrote

(* _subscription_watchdog wakes up, and then disconnects the phones that   *)
(* write, one await after the other.                                       *)
WatchdogLooks ==
    /\ evicting = {} /\ Suspects
    /\ evicting' = writers
    /\ UNCHANGED <<registry, tasks, links, guests, subscribed, wrote, receiving, writers>>

WatchdogEvicts(a) ==
    /\ a \in evicting
    /\ evicting' = evicting \ {a}
    /\ Leave(a)
    /\ UNCHANGED <<registry, tasks, links, wrote, receiving, writers>>

(* The exception of disconnect() is caught, and the phone stays.           *)
EvictFails(a) ==
    /\ a \in evicting
    /\ evicting' = evicting \ {a}
    /\ UNCHANGED <<registry, tasks, links, guests, subscribed, wrote, receiving, writers>>

-----------------------------------------------------------------------------

(* After the daemon has started, with phones that were connected before.   *)
Init ==
    /\ clients = [a \in Addrs |-> None] /\ connecting = {}
    /\ failCount = [a \in Addrs |-> 0] /\ skipping = {} /\ paused = FALSE
    /\ due = [a \in Addrs |-> 0] /\ attempts = {} /\ releasing = {} /\ writes = {}
    /\ up = {} /\ dropped = {}
    /\ guests = {} /\ subscribed = {} /\ writers = {}
    /\ wrote = FALSE /\ evicting = {} /\ receiving = FALSE

Next ==
    \/ \E a \in Addrs :
          \/ OnDeviceDetected(a) \/ LinkDown(a) \/ Vanish(a) \/ SkipEnds(a)
          \/ GuestJoins(a) \/ GuestSubscribes(a) \/ GuestLeaves(a) \/ GuestWrites(a)
          \/ WatchdogEvicts(a) \/ EvictFails(a)
    \/ \E c \in Client : (IsNew(c) /\ Connect(c)) \/ Notified(c)
    \/ \E t \in attempts :
          LinkUp(t) \/ NotifyStarted(t) \/ Subscribed(t) \/ ConnectFailed(t) \/ AttemptReleased(t)
    \/ \E c \in releasing : BgDisconnected(c)
    \/ \E w \in writes : Written(w) \/ WriteFailed(w)
    \/ \E s \in Sends : Send(s)
    \/ DisconnectAllCentral \/ SetsEnd \/ PauseEnds \/ WriteAges \/ WatchdogLooks

Spec == Init /\ [][Next]_vars

(* The watchdog looks every twenty seconds and so sees every write that is *)
(* less than thirty seconds old, however seldom there is one.  What it     *)
(* began it goes on with, and BlueZ does not refuse it a phone for ever.   *)
FairSpec ==
    /\ Spec
    /\ SF_vars(WatchdogLooks)
    /\ \A a \in Addrs : WF_vars(WatchdogEvicts(a) \/ EvictFails(a)) /\ SF_vars(WatchdogEvicts(a))

-----------------------------------------------------------------------------

TypeOK ==
    /\ clients \in [Addrs -> Client \cup {None}]
    /\ connecting \subseteq Addrs /\ skipping \subseteq Addrs
    /\ failCount \in [Addrs -> 0 .. MaxCount]
    /\ due \in [Addrs -> 0 .. MaxDue]
    /\ attempts \subseteq [client : Client, at : {"connect", "notify", "subscribed", "release"}]
    /\ releasing \subseteq Client /\ up \subseteq Client
    /\ dropped \subseteq up
    /\ writes \subseteq [send : Sends, client : Client]
    /\ guests \subseteq Addrs /\ subscribed \subseteq guests
    /\ writers \subseteq Addrs /\ evicting \subseteq Addrs
    /\ paused \in BOOLEAN /\ wrote \in BOOLEAN /\ receiving \in BOOLEAN

(* Whatever detections, timers and callbacks call _connect, an address has *)
(* one attempt at a time and none beside a client, and its lock is held as *)
(* long as the attempt runs, to the end of its disconnect() if it fails.   *)
AttemptsExclusive ==
    /\ connecting = {t.client.addr : t \in attempts}
    /\ \A t, u \in attempts : t.client.addr = u.client.addr => t = u
    /\ \A t \in attempts : clients[t.client.addr] = None

(* No link is left behind: each belongs to a client the scanner sends to,  *)
(* to an attempt, or to a client that is being disconnected, however many  *)
(* sends overlap with pauses, losses and each other; except those whose    *)
(* entry the failing write of an older client of the phone has dropped.    *)
(* (Provided that BlueZ does disconnect when asked: "refuses" is not in    *)
(* May.)                                                                   *)
LinksOwned ==
    \A c \in up \ dropped :
        clients[c.addr] = c \/ c \in releasing \/ \E t \in attempts : t.client = c

(* The watchdog: a phone that goes on writing while nobody has subscribed  *)
(* and no transfer runs is disconnected, or somebody subscribes.  (A link  *)
(* to it of the scanner's own would, when it goes down, take the phone off *)
(* the list of those that write.)                                          *)
DeafPhonesLeave ==
    \A a \in Addrs :
        []<>(a \in writers /\ wrote) /\ <>[](~receiving /\ Links(a) = {})
            => []<>(Notifying \/ a \notin guests)
=============================================================================
