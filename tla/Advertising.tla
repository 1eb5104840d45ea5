---------------------------- MODULE Advertising ----------------------------
(***************************************************************************)
(* AdvertiseManager in server/bitchatd/ble/advertise.py, and the places in *)
(* server/daemon.py that pause advertising while a large fragment set      *)
(* arrives and resume it afterwards.                                       *)
(*                                                                         *)
(* pause, resume and _safety_resume are coroutines of one event loop: each *)
(* runs up to its await of BlueZ and goes on when the reply is there.      *)
(* Between the two any other may run.                                      *)
(***************************************************************************)
EXTENDS Integers, Sequences, FiniteSets

CONSTANTS
    None,
    Sets,        \* fragment sets that may arrive
    Large,       \* those of twenty fragments or more
    Instances,   \* advertisements BlueZ has room for
    MayFail,     \* whether it may refuse one all the same, three times
    MaxTasks     \* bound: coroutines and timers at a time

ASSUME SetAssumption == Large \subseteq Sets /\ MayFail \in BOOLEAN
ASSUME BoundAssumption == MaxTasks \in Nat \ {0} /\ Instances \in Nat \ {0}

VARIABLES
    receiving,   \* the sets the FragmentManager has open
    ready,       \* pause() and resume() tasks that have not started, in order
    waiting,     \* coroutines that wait for BlueZ
    sleeping,    \* safety timers
    paused,      \* _paused
    bus,         \* _bus
    safety,      \* _safety_task
    registered   \* the connections BlueZ advertises for

manager == <<paused, bus, safety>>
vars == <<receiving, ready, waiting, sleeping, manager, registered>>

Ids == 1 .. MaxTasks + Instances + 2

(* The lowest number that names no task, or no connection, in use.         *)
Fresh(used) == CHOOSE i \in Ids : i \notin used /\ \A j \in Ids \ used : i <= j

TaskIds == {w.id : w \in waiting} \cup sleeping \cup {safety}
BusIds == {w.on : w \in waiting} \cup registered \cup {bus}

Room == Len(ready) + Cardinality(waiting) + Cardinality(sleeping) < MaxTasks

-----------------------------------------------------------------------------
(* server/daemon.py                                                        *)

(* The first fragment of a set.                                            *)
FirstFragment(s) ==
    /\ s \notin receiving /\ Room
    /\ receiving' = receiving \cup {s}
    /\ ready' = IF s \in Large THEN Append(ready, "pause") ELSE ready
    /\ UNCHANGED <<waiting, sleeping, manager, registered>>

(* A set is reassembled, or expires with a notice.                         *)
SetEnds(s) ==
    /\ s \in receiving /\ Room
    /\ receiving' = receiving \ {s}
    /\ ready' = IF receiving' = {} THEN Append(ready, "resume") ELSE ready
    /\ UNCHANGED <<waiting, sleeping, manager, registered>>

(* A set expires without notice, is evicted, purged or does not decode.    *)
SetLost(s) ==
    /\ s \in receiving
    /\ receiving' = receiving \ {s}
    /\ UNCHANGED <<ready, waiting, sleeping, manager, registered>>

-----------------------------------------------------------------------------
(* pause                                                                   *)

StartPause ==
    /\ ready # <<>> /\ Head(ready) = "pause"
    /\ ready' = Tail(ready)
    /\ IF paused \/ bus = None
       THEN UNCHANGED <<paused, waiting>>
       ELSE /\ paused' = TRUE
            /\ waiting' = waiting \cup {[do |-> "pause", id |-> Fresh(TaskIds), on |-> bus]}
    /\ UNCHANGED <<receiving, sleeping, bus, safety, registered>>

(* Mutant: the connection is kept.                                         *)
ForgetBusNot(b) == b

ForgetBus(b) == None

(* Mutant: no timer.                                                       *)
StartTimerNot(t) == sleeping' = sleeping /\ safety' = safety

StartTimer(t) == sleeping' = sleeping \cup {t} /\ safety' = t

(* BlueZ has dropped the advertisement.                                    *)
FinishPause(w) ==
    /\ w.do = "pause"
    /\ waiting' = waiting \ {w}
    /\ registered' = registered \ {w.on}
    /\ bus' = ForgetBus(bus)
    /\ StartTimer(w.id)
    /\ UNCHANGED <<receiving, ready, paused>>

-----------------------------------------------------------------------------
(* resume                                                                  *)

(* The timers left when task t has cancelled the one on record.            *)
Cancel(t) == sleeping \ {t, safety}

(* resume up to its await.  Task t runs it; a task that cancels itself     *)
(* ends at this await.                                                     *)
Resume(t) ==
    IF paused
    THEN /\ paused' = FALSE /\ safety' = None
         /\ sleeping' = Cancel(t)
         /\ waiting' = IF safety = t THEN waiting
                       ELSE waiting \cup {[do |-> "resume", id |-> t, on |-> None]}
    ELSE /\ sleeping' = sleeping \ {t}
         /\ UNCHANGED <<paused, safety, waiting>>

StartResume ==
    /\ ready # <<>> /\ Head(ready) = "resume"
    /\ ready' = Tail(ready)
    /\ Resume(Fresh(TaskIds))
    /\ UNCHANGED <<receiving, bus, registered>>

(* The timer of a pause goes off.                                          *)
SafetyResume(t) ==
    /\ t \in sleeping
    /\ Resume(t)
    /\ UNCHANGED <<receiving, ready, bus, registered>>

(* BlueZ has answered: a new connection advertises, or none does.          *)
FinishResume(w) ==
    /\ w.do = "resume"
    /\ waiting' = waiting \ {w}
    /\ \/ LET b == Fresh(BusIds)
          IN  /\ Cardinality(registered) < Instances
              /\ bus' = b /\ registered' = registered \cup {b}
       \/ /\ MayFail \/ Cardinality(registered) >= Instances
          /\ UNCHANGED <<bus, registered>>
    /\ UNCHANGED <<receiving, ready, sleeping, paused, safety>>

-----------------------------------------------------------------------------

(* After AdvertiseManager.start.                                           *)
Init ==
    /\ receiving = {} /\ ready = <<>> /\ waiting = {} /\ sleeping = {}
    /\ paused = FALSE /\ bus = 1 /\ safety = None /\ registered = {1}

Start == StartPause \/ StartResume
Reply(i) == \E w \in waiting : w.id = i /\ (FinishPause(w) \/ FinishResume(w))

Next ==
    \/ \E s \in Sets : FirstFragment(s) \/ SetEnds(s) \/ SetLost(s)
    \/ Start
    \/ \E i \in Ids : Reply(i) \/ SafetyResume(i)

Spec == Init /\ [][Next]_vars

(* The event loop runs, BlueZ answers, timers go off.                      *)
FairSpec ==
    Spec /\ WF_vars(Start) /\ \A i \in Ids : WF_vars(Reply(i)) /\ WF_vars(SafetyResume(i))

-----------------------------------------------------------------------------

Task == [do : {"pause", "resume"}, id : Ids, on : Ids \cup {None}]

TypeOK ==
    /\ receiving \subseteq Sets
    /\ ready \in Seq({"pause", "resume"})
    /\ waiting \subseteq Task /\ \A v, w \in waiting : v.id = w.id => v = w
    /\ sleeping \subseteq Ids /\ \A w \in waiting : w.id \notin sleeping
    /\ paused \in BOOLEAN /\ bus \in Ids \cup {None} /\ safety \in Ids \cup {None}
    /\ registered \subseteq Ids

(* The connection the manager holds advertises: it is never one that a     *)
(* pause has closed.                                                       *)
HandleAdvertises == bus # None => bus \in registered

(* While paused is set there is a timer, or a pause about to start one,    *)
(* whatever resumes and earlier timers have run meanwhile.                 *)
PauseGuarded ==
    paused => sleeping # {} \/ \E w \in waiting : w.do = "pause"

(* Whatever becomes of the fragment sets, a pause ends.                    *)
PauseEnds == paused ~> ~paused

(* No set is open, no coroutine and no timer is left.                      *)
Settled == receiving = {} /\ ready = <<>> /\ waiting = {} /\ sleeping = {}

(* advertise.py:114: there is a maximum time advertising may stay paused.  *)
(* The timer cancels the very task it runs in, at its first await.         *)
AdvertisesAgain == Settled => registered # {}

=============================================================================
