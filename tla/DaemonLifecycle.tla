--------------------------- MODULE DaemonLifecycle ---------------------------
(***************************************************************************)
(* Daemons from their start to their end: the lock, the identity file, the *)
(* order in which run() in daemon.py starts its parts and its finally      *)
(* stops them, SIGTERM and Ctrl-C at any await of either, and what a       *)
(* process leaves behind: the path of its socket and what is in its home.  *)
(*                                                                         *)
(* Instances of one home share lock, socket path and identity file.  When  *)
(* a process ends, the kernel releases its lock and BlueZ what it had      *)
(* registered; files and the socket's path stay.  One daemon of a home may *)
(* be that of bitchatd.service, which systemd stops and starts again; the  *)
(* others are started by hand or by start.sh.                              *)
(***************************************************************************)
EXTENDS Integers, FiniteSets

CONSTANTS
    Instances,     \* processes that may run
    Homes,         \* the homes they run in
    Home,          \* the home of each
    WaitsForClients, \* Server.wait_closed waits for clients (Python 3.12)
    Units,         \* the processes systemd runs
    FirstFiles,    \* what the identity file may hold at first
    None, Torn,    \* no file, a file whose writing was cut short
    MaxKeys, MaxFaults, MaxSignals   \* bounds: keys drawn, failures, SIGTERMs

(* Keys are numbers, 0 a key that is missing: files written before the     *)
(* Noise key was kept have none.                                           *)
Identities == [sign : 1 .. MaxKeys, noise : 0 .. MaxKeys]

ASSUME HomeAssumption == Home \in [Instances -> Homes] /\ None \notin Instances
ASSUME FileAssumption ==
    /\ FirstFiles \subseteq Identities \cup {None}
    /\ None \notin Identities /\ Torn \notin Identities \cup {None}
ASSUME BoundAssumption == MaxKeys \in Nat \ {0} /\ MaxFaults \in Nat

VARIABLES
    pc,       \* where each process is
    up,       \* the parts of it that run
    lock,     \* who holds the lock of a home
    socket,   \* whose socket the path in a home leads to, ended or not
    guest,    \* a client is connected to it
    file,     \* a home's identity.json: None, Torn or the two keys
    stable,   \* what of it is on the disk
    keys,     \* the identity each process has loaded
    used,     \* the identities a home's daemons have shown
    drawn,    \* how many keys were drawn
    spoilt,   \* homes whose identity something took the code lets pass
    served,   \* it has run in this life
    excuse,   \* what happened to it in this life
    left,     \* what still ran when it ended
    job,      \* what systemd is about to do with it
    faults,   \* failures so far
    signals   \* SIGTERMs so far

vars == <<pc, up, lock, socket, guest, file, stable, keys, used, drawn, spoilt, served, excuse,
          left, job, faults, signals>>

Parts == {"fragments", "session", "gatt", "scanner", "ipc", "adv"}

Starting == {"adapter", "gatt", "scanner", "ipc", "adv"}
Stopping == {"stopAdv", "stopScanner", "stopGatt", "closeIpc", "endIpc"}

homeVars == <<file, stable, used, drawn, spoilt>>

Init ==
    /\ pc = [i \in Instances |-> "off"]
    /\ up = [i \in Instances |-> {}]
    /\ lock = [h \in Homes |-> None]
    /\ socket = [h \in Homes |-> None]
    /\ guest = [i \in Instances |-> FALSE]
    /\ file \in [Homes -> FirstFiles]
    /\ stable = file
    /\ spoilt = {}
    /\ keys = [i \in Instances |-> None]
    /\ used = [h \in Homes |-> {file[h]} \ {None}]
    /\ drawn = 1
    /\ served = [i \in Instances |-> FALSE]
    /\ excuse = [i \in Instances |-> {}]
    /\ left = [i \in Instances |-> {}]
    /\ job = [i \in Instances |-> "none"]
    /\ faults = 0
    /\ signals = 0

-----------------------------------------------------------------------------
(* The end of a process, and the faults it can end by.                     *)

Goto(i, place) == pc' = [pc EXCEPT ![i] = place]

(* What systemd does when it ends, if it was asked for: it restarts what   *)
(* failed, unless it was to stop it.                                       *)
Then(i, asked, error) ==
    CASE asked = "stop" -> "none"
      [] asked = "none" /\ error /\ i \in Units -> "restart"
      [] OTHER -> asked

Leaves(i, next, running) ==
    /\ Goto(i, "off")
    /\ left' = [left EXCEPT ![i] = running]
    /\ up' = [up EXCEPT ![i] = {}]
    /\ guest' = [guest EXCEPT ![i] = FALSE]
    /\ keys' = [keys EXCEPT ![i] = None]
    /\ job' = [job EXCEPT ![i] = next]
    /\ lock' = IF lock[Home[i]] = i THEN [lock EXCEPT ![Home[i]] = None] ELSE lock
    /\ UNCHANGED <<served, file, stable, used, drawn>>

Ends(i, error) == Leaves(i, Then(i, job[i], error), up[i])

(* A process that ends half-way through adding the Noise key to its file   *)
(* leaves it empty.                                                        *)
Spoils(i) == spoilt' = IF pc[i] = "upgrading" THEN spoilt \cup {Home[i]} ELSE spoilt

Fault == faults < MaxFaults /\ faults' = faults + 1 /\ UNCHANGED signals
NoFault == UNCHANGED <<faults, signals>>

Excused(i, what) == excuse' = [excuse EXCEPT ![i] = @ \cup {what}]

(* The process is killed, memory runs out.                                 *)
Crash(i) ==
    /\ pc[i] # "off"
    /\ Fault
    /\ Excused(i, "crash")
    /\ Ends(i, TRUE) /\ Spoils(i)
    /\ UNCHANGED socket

(* The kernel writes a file to the disk in its own time.                   *)
Sync(h) ==
    /\ stable[h] # file[h]
    /\ stable' = [stable EXCEPT ![h] = file[h]]
    /\ UNCHANGED <<pc, up, lock, socket, guest, file, keys, used, drawn, spoilt, served, excuse,
                   left, job>>
    /\ NoFault

(* The machine goes down.  What was not on the disk is there or not, or    *)
(* the file is empty.  When it is back, systemd starts its unit.           *)
PowerLoss ==
    /\ \E i \in Instances : pc[i] # "off"
    /\ Fault
    /\ pc' = [i \in Instances |-> "off"]
    /\ left' = [i \in Instances |-> IF pc[i] = "off" THEN left[i] ELSE up[i]]
    /\ excuse' = [i \in Instances |-> IF pc[i] = "off" THEN excuse[i] ELSE excuse[i] \cup {"crash"}]
    /\ up' = [i \in Instances |-> {}]
    /\ guest' = [i \in Instances |-> FALSE]
    /\ lock' = [h \in Homes |-> None]
    /\ job' = [i \in Instances |-> IF i \in Units THEN "restart" ELSE "none"]
    /\ \E f \in [Homes -> {"old", "empty", "new"}] :
           file' = [h \in Homes |-> CASE stable[h] = file[h] \/ f[h] = "new" -> file[h]
                                      [] f[h] = "old" -> stable[h]
                                      [] OTHER -> Torn]
    /\ stable' = file'
    /\ spoilt' = spoilt \cup {h \in Homes : stable[h] # file[h]}
                       \cup {Home[i] : i \in {j \in Instances : pc[j] = "upgrading"}}
    /\ keys' = [i \in Instances |-> None]
    /\ UNCHANGED <<socket, used, drawn, served>>

(* TimeoutStopSec has passed since systemd's SIGTERM.                      *)
Kill(i) ==
    /\ pc[i] \in Stopping /\ job[i] # "none"
    /\ NoFault
    /\ Excused(i, "kill")
    /\ Ends(i, TRUE) /\ Spoils(i)
    /\ UNCHANGED socket

-----------------------------------------------------------------------------
(* The start.                                                              *)

(* By hand, or by systemd, which also starts again what failed.            *)
Launch(i) ==
    /\ pc[i] = "off"
    /\ Goto(i, "lock")
    /\ served' = [served EXCEPT ![i] = FALSE]
    /\ excuse' = [excuse EXCEPT ![i] = {}]
    /\ left' = [left EXCEPT ![i] = {}]
    /\ job' = [job EXCEPT ![i] = "none"]
    /\ UNCHANGED <<up, lock, socket, guest, homeVars, keys>>
    /\ NoFault

TakeLock(i) ==
    /\ pc[i] = "lock"
    /\ lock[Home[i]] = None
    /\ lock' = [lock EXCEPT ![Home[i]] = i]
    /\ Goto(i, "adapter")
    /\ UNCHANGED <<up, socket, guest, homeVars, keys, served, excuse, left, job>>
    /\ NoFault

Refused(i) ==
    /\ pc[i] = "lock"
    /\ lock[Home[i]] # None
    /\ Ends(i, TRUE) /\ Spoils(i)
    /\ UNCHANGED <<socket, excuse>>
    /\ NoFault

Proceed(i, from, to, part) ==
    /\ pc[i] = from
    /\ Goto(i, to)
    /\ up' = [up EXCEPT ![i] = @ \cup part]
    /\ UNCHANGED <<lock, guest, keys, served, homeVars, excuse, left, job>>
    /\ NoFault

(* Powered or not after fifteen looks: it goes on.                         *)
EnsureAdapterUp(i) == Proceed(i, "adapter", "identity", {}) /\ UNCHANGED socket

(* The parts that start without awaiting anything.                         *)
Adopt(i, k) ==
    /\ keys' = [keys EXCEPT ![i] = k]
    /\ used' = [used EXCEPT ![Home[i]] = @ \cup {k}]
    /\ up' = [up EXCEPT ![i] = {"fragments", "session"}]
    /\ Goto(i, "gatt")

Usable(f) == f \notin {None, Torn}

Load(i) ==
    /\ pc[i] = "identity"
    /\ Usable(file[Home[i]]) /\ file[Home[i]].noise # 0
    /\ Adopt(i, file[Home[i]])
    /\ UNCHANGED <<lock, socket, guest, file, stable, drawn, spoilt, served, excuse, left, job>>
    /\ NoFault

(* write_text empties the file first; the process may die before it has    *)
(* written.  A file that cannot be read counts as none.                    *)
Rewrite(i, k, n, place) ==
    /\ drawn + n <= MaxKeys
    /\ drawn' = drawn + n
    /\ keys' = [keys EXCEPT ![i] = k]
    /\ file' = [file EXCEPT ![Home[i]] = Torn]
    /\ Goto(i, place)
    /\ UNCHANGED <<up, lock, socket, guest, stable, used, served, excuse, left, job>>

(* Mutant: a new identity is used and not saved.                           *)
GenerateOnly(i) ==
    /\ pc[i] = "identity"
    /\ ~Usable(file[Home[i]])
    /\ drawn + 2 <= MaxKeys
    /\ drawn' = drawn + 2
    /\ Adopt(i, [sign |-> drawn + 1, noise |-> drawn + 2])
    /\ UNCHANGED <<lock, socket, guest, file, stable, spoilt, served, excuse, left, job>>
    /\ NoFault

Generate(i) ==
    /\ pc[i] = "identity"
    /\ ~Usable(file[Home[i]])
    /\ Rewrite(i, [sign |-> drawn + 1, noise |-> drawn + 2], 2, "saving")
    /\ UNCHANGED spoilt
    /\ NoFault

(* Whatever keeps an intact file from being read counts as a file that     *)
(* cannot be read.                                                         *)
ReadFails(i) ==
    /\ pc[i] = "identity"
    /\ Usable(file[Home[i]])
    /\ Rewrite(i, [sign |-> drawn + 1, noise |-> drawn + 2], 2, "saving")
    /\ spoilt' = spoilt \cup {Home[i]}
    /\ Fault

Upgrade(i) ==
    /\ pc[i] = "identity"
    /\ Usable(file[Home[i]]) /\ file[Home[i]].noise = 0
    /\ Rewrite(i, [sign |-> file[Home[i]].sign, noise |-> drawn + 1], 1, "upgrading")
    /\ UNCHANGED spoilt
    /\ NoFault

(* The exception of a failed write in _load counts as a file that cannot   *)
(* be read: the identity is given up for a new one.                        *)
UpgradeFails(i) ==
    /\ pc[i] = "upgrading"
    /\ Fault
    /\ Goto(i, "identity") /\ Spoils(i)
    /\ UNCHANGED <<up, lock, socket, guest, file, stable, used, drawn, keys, served, excuse, left, job>>

Save(i) ==
    /\ pc[i] \in {"saving", "upgrading"}
    /\ file' = [file EXCEPT ![Home[i]] = keys[i]]
    /\ Adopt(i, keys[i])
    /\ UNCHANGED <<lock, socket, guest, stable, drawn, spoilt, served, excuse, left, job>>
    /\ NoFault

(* Each registers with BlueZ in up to three attempts.                      *)
StartGatt(i) == Proceed(i, "gatt", "scanner", {"gatt"}) /\ UNCHANGED socket

StartScanner(i) == Proceed(i, "scanner", "ipc", {"scanner"}) /\ UNCHANGED socket

(* Mutant: a path that is there already is left alone; bind raises.        *)
StartIpcIfFree(i) ==
    IF socket[Home[i]] = None
    THEN Proceed(i, "ipc", "adv", {"ipc"}) /\ socket' = [socket EXCEPT ![Home[i]] = i]
    ELSE pc[i] = "ipc" /\ Ends(i, TRUE) /\ Spoils(i) /\ UNCHANGED <<socket, excuse>> /\ NoFault

(* The path is taken from whatever it led to.                              *)
StartIpc(i) == Proceed(i, "ipc", "adv", {"ipc"}) /\ socket' = [socket EXCEPT ![Home[i]] = i]

StartAdvertising(i) ==
    /\ pc[i] = "adv"
    /\ Goto(i, "running")
    /\ up' = [up EXCEPT ![i] = Parts]
    /\ served' = [served EXCEPT ![i] = TRUE]
    /\ UNCHANGED <<lock, socket, guest, homeVars, keys, excuse, left, job>>
    /\ NoFault

(* An exception before the try: nothing is stopped.                        *)
StartFails(i) ==
    /\ pc[i] \in Starting \cup {"saving"}
    /\ Fault
    /\ Ends(i, TRUE) /\ Spoils(i)
    /\ UNCHANGED <<socket, excuse>>

-----------------------------------------------------------------------------
(* Clients.                                                                *)

Join(i) ==
    /\ socket[Home[i]] = i /\ "ipc" \in up[i] /\ pc[i] # "endIpc" /\ ~guest[i]
    /\ guest' = [guest EXCEPT ![i] = TRUE]
    /\ UNCHANGED <<pc, up, lock, socket, homeVars, keys, served, excuse, left, job>>
    /\ NoFault

Part(i) ==
    /\ guest[i]
    /\ guest' = [guest EXCEPT ![i] = FALSE]
    /\ UNCHANGED <<pc, up, lock, socket, homeVars, keys, served, excuse, left, job>>
    /\ NoFault

-----------------------------------------------------------------------------
(* The stop.                                                               *)

(* SIGTERM, by hand or by start.sh, or from systemd, which sends one, to   *)
(* stop its unit or to restart it.                                         *)
Signal(i, by) ==
    /\ by # "kill" => i \in Units /\ job[i] = "none"
    /\ signals < MaxSignals
    /\ signals' = signals + 1
    /\ UNCHANGED faults

Asked(i, by) == IF by = "kill" THEN job[i] ELSE by

(* Mutant: the lock is given back before the parts are stopped.            *)
TerminateUnlocked(i, by) ==
    /\ pc[i] = "running"
    /\ Signal(i, by)
    /\ job' = [job EXCEPT ![i] = Asked(i, by)]
    /\ Goto(i, "stopAdv")
    /\ lock' = [lock EXCEPT ![Home[i]] = None]
    /\ UNCHANGED <<up, socket, guest, homeVars, keys, served, excuse, left>>

(* SIGTERM cancels the await of run(): in the loop at its end that leads   *)
(* to the finally.                                                         *)
Terminate(i, by) ==
    /\ pc[i] = "running"
    /\ Signal(i, by)
    /\ job' = [job EXCEPT ![i] = Asked(i, by)]
    /\ Goto(i, "stopAdv")
    /\ UNCHANGED <<up, lock, socket, guest, homeVars, keys, served, excuse, left>>

(* Anywhere else it ends run() there and then, in the finally too.         *)
Interrupt(i, by) ==
    /\ pc[i] \in Starting \cup Stopping
    /\ Signal(i, by)
    /\ Excused(i, "again")
    /\ Leaves(i, Then(i, Asked(i, by), FALSE), up[i]) /\ Spoils(i)
    /\ UNCHANGED socket

(* Ctrl-C on a daemon in a terminal: KeyboardInterrupt comes out of        *)
(* run_until_complete, and run() is never resumed.                         *)
CtrlC(i) ==
    /\ i \notin Units /\ pc[i] # "off"
    /\ Fault
    /\ Excused(i, "ctrlC")
    /\ Ends(i, FALSE) /\ Spoils(i)
    /\ UNCHANGED socket

Stopped(i, from, to, parts) ==
    /\ pc[i] = from
    /\ Goto(i, to)
    /\ up' = [up EXCEPT ![i] = @ \ parts]
    /\ UNCHANGED <<lock, socket, guest, homeVars, keys, served, left, job>>

(* Mutant: an exception of adv_mgr.stop() is let through.                  *)
StopAdvRaises(i) ==
    /\ pc[i] = "stopAdv"
    /\ Fault
    /\ Ends(i, TRUE) /\ Spoils(i)
    /\ UNCHANGED <<socket, excuse>>

(* Whether BlueZ answers or not: exceptions are caught, in the daemon.     *)
StopAdvFails(i) == Stopped(i, "stopAdv", "stopScanner", {"adv", "session"}) /\ Fault /\ UNCHANGED excuse

StopAdv(i) == Stopped(i, "stopAdv", "stopScanner", {"adv", "session"}) /\ NoFault /\ UNCHANGED excuse

StopScanner(i) == Stopped(i, "stopScanner", "stopGatt", {"scanner"}) /\ NoFault /\ UNCHANGED excuse

(* Nobody catches those of BleakScanner.stop(): what follows is skipped.   *)
StopScannerFails(i) ==
    /\ pc[i] = "stopScanner"
    /\ Fault
    /\ Excused(i, "scanner")
    /\ Ends(i, TRUE) /\ Spoils(i)
    /\ UNCHANGED socket

StopGatt(i) == Stopped(i, "stopGatt", "closeIpc", {"gatt"}) /\ NoFault /\ UNCHANGED excuse

(* Server.close: no more clients.  The path stays till the end of stop().  *)
CloseIpc(i) == Stopped(i, "closeIpc", "endIpc", {"ipc"}) /\ NoFault /\ UNCHANGED excuse

(* The path is removed, whoever it leads to; fragments.stop() awaits       *)
(* nothing, and run() is over.                                             *)
EndIpc(i) ==
    /\ pc[i] = "endIpc"
    /\ guest[i] => ~WaitsForClients
    /\ socket' = [socket EXCEPT ![Home[i]] = None]
    /\ Leaves(i, Then(i, job[i], FALSE), up[i] \ {"fragments"}) /\ Spoils(i)
    /\ UNCHANGED excuse
    /\ NoFault

-----------------------------------------------------------------------------
StartUp(i) ==
    \/ TakeLock(i) \/ Refused(i) \/ EnsureAdapterUp(i)
    \/ Load(i) \/ Generate(i) \/ Upgrade(i) \/ Save(i)
    \/ StartGatt(i) \/ StartScanner(i) \/ StartIpc(i) \/ StartAdvertising(i)

ShutDown(i) ==
    \/ StopAdv(i) \/ StopScanner(i) \/ StopGatt(i) \/ CloseIpc(i) \/ EndIpc(i)

Environment(i) ==
    \/ Launch(i) \/ Join(i) \/ Part(i) \/ Crash(i) \/ CtrlC(i) \/ Kill(i)
    \/ \E by \in {"kill", "stop", "restart"} : Terminate(i, by) \/ Interrupt(i, by)
    \/ StartFails(i) \/ ReadFails(i) \/ UpgradeFails(i) \/ StopAdvFails(i) \/ StopScannerFails(i)

Next ==
    \/ \E i \in Instances : StartUp(i) \/ ShutDown(i) \/ Environment(i)
    \/ \E h \in Homes : Sync(h)
    \/ PowerLoss

Spec == Init /\ [][Next]_vars

(* The loop runs what is ready; systemd starts its unit again when it      *)
(* failed or was to be restarted, and kills it when it does not stop.      *)
Fairness ==
    /\ \A i \in Instances : WF_vars(StartUp(i)) /\ WF_vars(ShutDown(i))
    /\ \A i \in Units : WF_vars(job[i] = "restart" /\ Launch(i)) /\ WF_vars(Kill(i))

FairSpec == Spec /\ Fairness

-----------------------------------------------------------------------------
(* Properties.                                                             *)

Places == {"off", "lock", "identity", "saving", "upgrading", "running"} \cup Starting \cup Stopping

TypeOK ==
    /\ pc \in [Instances -> Places]
    /\ up \in [Instances -> SUBSET Parts]
    /\ lock \in [Homes -> Instances \cup {None}]
    /\ socket \in [Homes -> Instances \cup {None}]
    /\ file \in [Homes -> Identities \cup {None, Torn}]
    /\ stable \in [Homes -> Identities \cup {None, Torn}]
    /\ spoilt \subseteq Homes
    /\ job \in [Instances -> {"none", "stop", "restart"}]
    /\ keys \in [Instances -> Identities \cup {None}]
    /\ used \in [Homes -> SUBSET Identities]

(* A daemon that runs is the one its clients reach: nothing another        *)
(* process does while it starts, stops, fails or is killed takes the path  *)
(* of the socket away or gives it to another.                              *)
SocketServed == \A i \in Instances : pc[i] \in {"adv", "running"} => socket[Home[i]] = i

Kept(h) == /\ Cardinality({k.sign : k \in used[h]}) <= 1
           /\ Cardinality({k.noise : k \in used[h]} \ {0}) <= 1

(* The node keeps its identity over restarts and crashes, at whatever      *)
(* point of the start they come: what was shown to a phone is what is      *)
(* shown ever after.  The code lets three things pass: a read error of a   *)
(* file that is intact, an end or an error half-way through adding the     *)
(* Noise key to an old file, and the machine going down before the kernel  *)
(* has written the file, which the code never syncs.                       *)
IdentityKept == \A h \in Homes \ spoilt : Kept(h)

(* "Peer IDs are stable ... and persist across restarts" (IPC_API.md:480). *)
(* It does not hold if adding the Noise key to an old file fails: the file *)
(* is emptied, then written.                                               *)
PeerIdStable == \A h \in Homes : Cardinality({k.sign : k \in used[h]}) <= 1

(* A daemon that ran and was asked to stop by one SIGTERM, and whose       *)
(* scanner stopped, has stopped every part and leaves no socket behind,    *)
(* even if BlueZ no longer answers.  (Ctrl-C stops nothing.)               *)
StopsWhole ==
    \A i \in Instances :
        pc[i] = "off" /\ served[i] /\ excuse[i] = {} => left[i] = {} /\ socket[Home[i]] # i

(* Nothing but a client that stays ends its wait, and systemd does not     *)
(* look after it.                                                          *)
Hangs(i) == i \notin Units /\ pc[i] = "endIpc" /\ guest[i] /\ WaitsForClients

(* What systemd is to start again, after a failure, a crash, a power loss  *)
(* or systemctl restart, runs again, unless another daemon of its home     *)
(* serves or hangs in its stop: no lock, path or file that is left behind  *)
(* stands in the way, and no stop of the unit lasts for ever.  (Or a       *)
(* SIGTERM by hand stops it while it starts.)                              *)
RestartServes ==
    \A i \in Units :
        job[i] = "restart" ~>
            \/ pc[i] = "running"
            \/ pc[i] = "off" /\ job[i] = "none"
            \/ \E j \in Instances \ {i} : Home[j] = Home[i] /\ (pc[j] = "running" \/ Hangs(j))

(* "Running — press Ctrl-C to stop." (daemon.py:547).  It does not hold:   *)
(* Ctrl-C ends the process with every part running and its socket there.   *)
CtrlCStops ==
    \A i \in Instances :
        pc[i] = "off" /\ served[i] /\ excuse[i] = {"ctrlC"} => left[i] = {} /\ socket[Home[i]] # i

(* "Send SIGTERM to any running daemon and wait for it to clean up"        *)
(* (start.sh:22): what is asked to stop comes to an end by itself.  It     *)
(* does not hold where wait_closed waits for a client that stays.          *)
ShutdownEnds == \A i \in Instances : pc[i] = "stopAdv" ~> pc[i] = "off"

=============================================================================
