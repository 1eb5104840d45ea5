-------------------------- MODULE AdvertisingProofs --------------------------
(***************************************************************************)
(* Theorems about Advertising, for any sets, any room at BlueZ and any     *)
(* number of overlapping coroutines and timers.                            *)
(***************************************************************************)
EXTENDS Advertising, TLAPS

IInv == HandleAdvertises /\ PauseGuarded

(* A coroutine that ends a pause leaves the manager without a connection,  *)
(* and a timer in its own place.                                           *)
LEMMA PauseFinished ==
    ASSUME IInv, NEW w \in waiting, FinishPause(w)
    PROVE  IInv'
PROOF
  <1>1. bus' = None
    BY DEF FinishPause, ForgetBus
  <1>2. w.id \in sleeping'
    BY DEF FinishPause, StartTimer
  <1> QED BY <1>1, <1>2 DEF IInv, HandleAdvertises, PauseGuarded

(* One that ends a resume takes no pause with it; what it holds advertises.*)
LEMMA ResumeFinished ==
    ASSUME IInv, NEW w \in waiting, FinishResume(w)
    PROVE  IInv'
PROOF
  <1>1. HandleAdvertises'
    BY DEF IInv, HandleAdvertises, FinishResume
  <1>2. w.do = "resume" /\ waiting' = waiting \ {w} /\ UNCHANGED <<sleeping, paused>>
    BY DEF FinishResume
  <1>3. PauseGuarded'
    BY <1>2 DEF IInv, PauseGuarded
  <1> QED BY <1>1, <1>3 DEF IInv

(* A resume ends the pause, or does nothing because there is none.         *)
LEMMA Resumed ==
    ASSUME IInv, NEW t, Resume(t), UNCHANGED <<bus, registered>>
    PROVE  IInv'
PROOF
  <1>1. ~paused'
    BY DEF Resume
  <1> QED BY <1>1 DEF IInv, HandleAdvertises, PauseGuarded

LEMMA PauseStarted ==
    ASSUME IInv, StartPause
    PROVE  IInv'
PROOF
  <1>1. HandleAdvertises'
    BY DEF IInv, HandleAdvertises, StartPause
  <1>2. CASE paused \/ bus = None
    BY <1>1, <1>2 DEF IInv, PauseGuarded, StartPause
  <1>3. CASE ~(paused \/ bus = None)
    <2> DEFINE w == [do |-> "pause", id |-> Fresh(TaskIds), on |-> bus]
    <2>1. w \in waiting' /\ w.do = "pause"
      BY <1>3 DEF StartPause
    <2> QED BY <1>1, <2>1 DEF IInv, PauseGuarded
  <1> QED BY <1>2, <1>3

LEMMA SetsOnly ==
    ASSUME IInv, UNCHANGED <<waiting, sleeping, paused, bus, registered>>
    PROVE  IInv'
  BY DEF IInv, HandleAdvertises, PauseGuarded

LEMMA Guarded == IInv /\ [Next]_vars => IInv'
PROOF
  <1> SUFFICES ASSUME IInv, [Next]_vars PROVE IInv'
    OBVIOUS
  <1>1. CASE UNCHANGED vars
    BY <1>1, SetsOnly DEF vars, manager
  <1>2. ASSUME NEW s \in Sets, FirstFragment(s) \/ SetEnds(s) \/ SetLost(s) PROVE IInv'
    BY <1>2, SetsOnly DEF FirstFragment, SetEnds, SetLost, manager
  <1>3. CASE StartPause
    BY <1>3, PauseStarted
  <1>4. CASE StartResume
    BY <1>4, Resumed DEF StartResume
  <1>5. ASSUME NEW i \in Ids, Reply(i) PROVE IInv'
    BY <1>5, PauseFinished, ResumeFinished DEF Reply
  <1>6. ASSUME NEW i \in Ids, SafetyResume(i) PROVE IInv'
    BY <1>6, Resumed DEF SafetyResume
  <1> QED BY <1>1, <1>2, <1>3, <1>4, <1>5, <1>6 DEF Next, Start

LEMMA GuardedFirst == Init => IInv
  BY DEF Init, IInv, HandleAdvertises, PauseGuarded

(* The connection the manager holds is one that BlueZ advertises for.      *)
THEOREM HandleIsLive == Spec => []HandleAdvertises
PROOF
  <1>1. IInv => HandleAdvertises
    BY DEF IInv
  <1> QED BY <1>1, Guarded, GuardedFirst, PTL DEF Spec

(* No order of pauses, resumes and timers leaves the manager paused with   *)
(* nothing that will end the pause.                                        *)
THEOREM PauseIsGuarded == Spec => []PauseGuarded
PROOF
  <1>1. IInv => PauseGuarded
    BY DEF IInv
  <1> QED BY <1>1, Guarded, GuardedFirst, PTL DEF Spec

=============================================================================
