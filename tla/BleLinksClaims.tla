-------------------------- MODULE BleLinksClaims --------------------------
(***************************************************************************)
(* What comments say of the scanner and of the GATT server and the code    *)
(* does not do.  The README gives the constants each was refuted with.     *)
(***************************************************************************)
EXTENDS BleLinks

(* A client the scanner sends to has a link (where none vanishes without a *)
(* callback, which send is to find out).                                   *)
ClientsCanBeReached == Connected \subseteq up

(* LinksOwned without its exception: every link has an owner.              *)
AllLinksOwned ==
    \A c \in up : clients[c.addr] = c \/ c \in releasing \/ \E t \in attempts : t.client = c

(* disconnect_all_central: new connections are suppressed for two minutes. *)
QuietWhilePaused == [][paused /\ paused' => Connected' \subseteq Connected]_vars

(* _on_device_detected: a device that writes to us already is skipped.     *)
NoSecondLink ==
    [][\A t \in attempts' : t.client \notin InUse => t.client.addr \notin writers]_vars

(* remove_device: devices are tracked until they disconnect.               *)
WritersAreGuests == writers \subseteq guests

(* _subscription_watchdog: it disconnects devices while nobody subscribes. *)
EvictsOnlyUnheard == [][\A a \in Addrs : WatchdogEvicts(a) => ~Notifying]_vars

-----------------------------------------------------------------------------

(* Connections of an address that were lost within five seconds, one after *)
(* the other.                                                              *)
VARIABLE short

Shorter(a) ==
    IF clients[a] # None /\ LinkDown(a)
    THEN IF a \in skipping' /\ failCount'[a] # 0 THEN Less(short[a] + 1, MaxCount) ELSE 0
    ELSE short[a]

ShortSpec ==
    /\ Init /\ short = [a \in Addrs |-> 0]
    /\ [][Next /\ short' = [a \in Addrs |-> Shorter(a)]]_<<vars, short>>

(* _on_disconnected: exponential back-off, 10 s, 30 s, 90 s, 300 s.        *)
BackOffGrows == \A a \in Addrs : clients[a] = None /\ a \in skipping => failCount[a] >= short[a]

=============================================================================
