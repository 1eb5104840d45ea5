------------------------ MODULE DaemonLifecycleProofs ------------------------
(***************************************************************************)
(* The safety properties of DaemonLifecycle for any number of daemons and  *)
(* homes, any failures and signals, whichever of them systemd looks after  *)
(* (or none).  First the lock: at most one process of a home is past it.  The   *)
(* socket then belongs to that process, and so does the identity file      *)
(* while it is being written.                                              *)
(***************************************************************************)
EXTENDS DaemonLifecycle, FiniteSetTheorems, TLAPS

(* Past the lock and not ended.                                            *)
Inside == Places \ {"off", "lock"}

Writing == {"saving", "upgrading"}

Typed ==
    /\ TypeOK
    /\ served \in [Instances -> BOOLEAN]
    /\ excuse \in [Instances -> SUBSET {"crash", "kill", "again", "scanner", "ctrlC"}]
    /\ left \in [Instances -> SUBSET Parts]
    /\ drawn \in Nat /\ faults \in Nat
    /\ \A i \in Instances : pc[i] \in Writing => keys[i] \in Identities

LEMMA PlaceSets ==
    /\ Inside = {"identity", "saving", "upgrading", "running"} \cup Starting \cup Stopping
    /\ Places = Inside \cup {"off", "lock"}
  BY DEF Inside, Places, Starting, Stopping

(* Identities are made of keys that were drawn.                            *)
LEMMA NewIdentity ==
    ASSUME NEW s \in 1 .. MaxKeys, NEW n \in 0 .. MaxKeys
    PROVE  [sign |-> s, noise |-> n] \in Identities
  BY DEF Identities

LEMMA TypedInit == Init => Typed
<1> SUFFICES ASSUME Init PROVE Typed
  OBVIOUS
<1>1. file \in [Homes -> Identities \cup {None, Torn}]
  BY FileAssumption DEF Init
<1>2. used \in [Homes -> SUBSET Identities]
  BY FileAssumption DEF Init
<1>3. QED
  BY <1>1, <1>2 DEF Init, Typed, TypeOK, Places, Writing

LEMMA ThenTyped ==
    ASSUME NEW i, NEW asked \in {"none", "stop", "restart"}, NEW e
    PROVE  Then(i, asked, e) \in {"none", "stop", "restart"}
  BY DEF Then

(* The end of a process keeps the types.                                   *)
LEMMA TypedLeave ==
    ASSUME Typed, NEW i \in Instances, NEW next \in {"none", "stop", "restart"}, NEW running \in SUBSET Parts,
           Leaves(i, next, running), Spoils(i), socket' \in [Homes -> Instances \cup {None}],
           excuse' \in [Instances -> SUBSET {"crash", "kill", "again", "scanner", "ctrlC"}],
           faults' \in Nat
    PROVE  Typed'
<1>1. pc' \in [Instances -> Places] /\ \A j \in Instances : pc'[j] \in Writing => pc[j] \in Writing /\ j # i
  BY DEF Typed, TypeOK, Leaves, Goto, Places, Writing
<1>2. lock' \in [Homes -> Instances \cup {None}]
  BY HomeAssumption DEF Typed, TypeOK, Leaves
<1>3. up' \in [Instances -> SUBSET Parts] /\ left' \in [Instances -> SUBSET Parts]
  BY DEF Typed, TypeOK, Leaves
<1>4. job' \in [Instances -> {"none", "stop", "restart"}]
  BY DEF Typed, TypeOK, Leaves
<1>5. keys' \in [Instances -> Identities \cup {None}] /\ \A j \in Instances \ {i} : keys'[j] = keys[j]
  BY DEF Typed, TypeOK, Leaves
<1>6. spoilt' \subseteq Homes
  BY HomeAssumption DEF Typed, TypeOK, Spoils
<1>7. UNCHANGED <<served, file, stable, used, drawn>>
  BY DEF Leaves
<1>8. QED
  BY <1>1, <1>2, <1>3, <1>4, <1>5, <1>6, <1>7 DEF Typed, TypeOK

LEMMA TypedEnd ==
    ASSUME Typed, NEW i \in Instances, NEW e,
           Ends(i, e), Spoils(i), socket' \in [Homes -> Instances \cup {None}],
           excuse' \in [Instances -> SUBSET {"crash", "kill", "again", "scanner", "ctrlC"}],
           faults' \in Nat
    PROVE  Typed'
<1>1. job[i] \in {"none", "stop", "restart"} /\ up[i] \in SUBSET Parts
  BY DEF Typed, TypeOK
<1>2. QED
  BY <1>1, ThenTyped, TypedLeave DEF Ends

(* So does the beginning of a write.                                       *)
LEMMA TypedRewrite ==
    ASSUME Typed, NEW i \in Instances, NEW k \in Identities, NEW n \in Nat, NEW place \in Writing,
           Rewrite(i, k, n, place), spoilt' \subseteq Homes, faults' \in Nat
    PROVE  Typed'
<1>1. keys' \in [Instances -> Identities \cup {None}] /\ drawn' \in Nat
  BY DEF Rewrite, Typed, TypeOK
<1>2. pc' \in [Instances -> Places] /\ file' \in [Homes -> Identities \cup {None, Torn}]
  BY HomeAssumption DEF Rewrite, Goto, Places, Writing, Typed, TypeOK
<1>3. \A j \in Instances : pc'[j] \in Writing => keys'[j] \in Identities
  BY DEF Rewrite, Goto, Typed, TypeOK
<1>4. QED
  BY <1>1, <1>2, <1>3 DEF Rewrite, Typed, TypeOK

LEMMA TypedStep == Typed /\ [Next]_vars => Typed'
<1> SUFFICES ASSUME Typed, [Next]_vars PROVE Typed'
  OBVIOUS
<1> USE DEF Typed, TypeOK
<1>1. CASE UNCHANGED vars
  BY <1>1 DEF vars, homeVars
<1>2. ASSUME NEW i \in Instances, StartUp(i) PROVE Typed'
  <2>1. CASE TakeLock(i)
    BY <2>1, HomeAssumption DEF TakeLock, Goto, NoFault, homeVars, Places, Starting, Writing
  <2>2. CASE Refused(i)
    BY <2>2, TypedEnd DEF Refused, NoFault
  <2>3. ASSUME NEW from, NEW to \in Starting \cup {"identity", "running"}, NEW part \in SUBSET Parts,
               Proceed(i, from, to, part), socket' \in [Homes -> Instances \cup {None}]
        PROVE  Typed'
    BY <2>3 DEF Proceed, Goto, NoFault, homeVars, Places, Starting, Writing
  <2>4. ASSUME NEW k \in Identities, Adopt(i, k),
               UNCHANGED <<lock, socket, stable, drawn, spoilt, served, excuse, left, job>>,
               file' \in [Homes -> Identities \cup {None, Torn}], NoFault
        PROVE  Typed'
    <3>1. keys' \in [Instances -> Identities \cup {None}] /\ used' \in [Homes -> SUBSET Identities]
      <4>1. keys' = [keys EXCEPT ![i] = k] /\ used' = [used EXCEPT ![Home[i]] = @ \cup {k}]
        BY <2>4 DEF Adopt
      <4>2. used[Home[i]] \cup {k} \in SUBSET Identities
        BY HomeAssumption
      <4> QED
        BY <4>1, <4>2
    <3>2. pc' \in [Instances -> Places] /\ up' \in [Instances -> SUBSET Parts]
      BY <2>4 DEF Adopt, Goto, Places, Starting, Parts
    <3>3. \A j \in Instances : pc'[j] \in Writing => keys'[j] \in Identities
      BY <2>4 DEF Adopt, Goto, Writing
    <3>4. QED
      BY <2>4, <3>1, <3>2, <3>3 DEF NoFault
  <2>6. CASE EnsureAdapterUp(i)
    <3> HIDE DEF Typed, TypeOK
    <3>1. Proceed(i, "adapter", "identity", {}) /\ socket' \in [Homes -> Instances \cup {None}]
      BY <2>6 DEF EnsureAdapterUp, Typed, TypeOK
    <3>2. QED
      BY <3>1, <2>3
  <2>7. CASE Load(i)
    BY <2>7, <2>4, HomeAssumption DEF Load, Usable
  <2>8. CASE Generate(i)
    <3> HIDE DEF Typed, TypeOK
    <3>1. Rewrite(i, [sign |-> drawn + 1, noise |-> drawn + 2], 2, "saving")
      BY <2>8 DEF Generate
    <3>2. drawn + 1 \in 1 .. MaxKeys /\ drawn + 2 \in 0 .. MaxKeys
      BY <3>1, BoundAssumption DEF Rewrite, Typed
    <3>3. [sign |-> drawn + 1, noise |-> drawn + 2] \in Identities
      BY <3>2, NewIdentity
    <3>4. spoilt' \subseteq Homes /\ faults' \in Nat
      BY <2>8 DEF Generate, NoFault, Typed, TypeOK
    <3>5. QED
      BY TypedRewrite, <3>1, <3>3, <3>4 DEF Writing
  <2>9. CASE Upgrade(i)
    <3>1. file[Home[i]] \in Identities
      BY <2>9, HomeAssumption DEF Upgrade, Usable
    <3>2. file[Home[i]].sign \in 1 .. MaxKeys
      BY <3>1 DEF Identities
    <3> HIDE DEF Typed, TypeOK
    <3>3. Rewrite(i, [sign |-> file[Home[i]].sign, noise |-> drawn + 1], 1, "upgrading")
      BY <2>9 DEF Upgrade
    <3>4. drawn + 1 \in 0 .. MaxKeys
      BY <3>3, BoundAssumption DEF Rewrite, Typed
    <3>5. [sign |-> file[Home[i]].sign, noise |-> drawn + 1] \in Identities
      BY <3>2, <3>4, NewIdentity
    <3>6. spoilt' \subseteq Homes /\ faults' \in Nat
      BY <2>9 DEF Upgrade, NoFault, Typed, TypeOK
    <3>7. QED
      BY TypedRewrite, <3>3, <3>5, <3>6 DEF Writing
  <2>10. CASE Save(i)
    BY <2>10, <2>4, HomeAssumption DEF Save, Writing
  <2>11. CASE StartGatt(i)
    BY <2>11, <2>3 DEF StartGatt, Starting, Parts
  <2>12. CASE StartScanner(i)
    BY <2>12, <2>3 DEF StartScanner, Starting, Parts
  <2>13. CASE StartIpc(i)
    BY <2>13, <2>3, HomeAssumption DEF StartIpc, Starting, Parts
  <2>14. CASE StartAdvertising(i)
    BY <2>14 DEF StartAdvertising, Goto, NoFault, homeVars, Places, Writing
  <2>15. QED
    BY <1>2, <2>1, <2>2, <2>6, <2>7, <2>8, <2>9, <2>10, <2>11, <2>12, <2>13, <2>14 DEF StartUp
<1>3. ASSUME NEW i \in Instances, ShutDown(i) PROVE Typed'
  <2>1. ASSUME NEW from, NEW to \in Stopping, NEW parts, Stopped(i, from, to, parts), NoFault, UNCHANGED excuse
        PROVE  Typed'
    BY <2>1 DEF Stopped, Goto, NoFault, homeVars, Places, Stopping, Writing
  <2>2. CASE EndIpc(i)
    <3> HIDE DEF Typed, TypeOK
    <3>1. socket' \in [Homes -> Instances \cup {None}]
      BY <2>2, HomeAssumption DEF EndIpc, Typed, TypeOK
    <3>2. job[i] \in {"none", "stop", "restart"} /\ up[i] \ {"fragments"} \in SUBSET Parts
      BY DEF Typed, TypeOK
    <3>3. /\ excuse' \in [Instances -> SUBSET {"crash", "kill", "again", "scanner", "ctrlC"}]
          /\ faults' \in Nat
      BY <2>2 DEF EndIpc, NoFault, Typed
    <3>4. Leaves(i, Then(i, job[i], FALSE), up[i] \ {"fragments"}) /\ Spoils(i)
      BY <2>2 DEF EndIpc
    <3>5. Then(i, job[i], FALSE) \in {"none", "stop", "restart"}
      BY <3>2, ThenTyped
    <3> QED
      BY <3>1, <3>2, <3>3, <3>4, <3>5, TypedLeave
  <2>3. QED
    BY <1>3, <2>1, <2>2 DEF ShutDown, StopAdv, StopScanner, StopGatt, CloseIpc, Stopping
<1>4. ASSUME NEW i \in Instances, Environment(i) PROVE Typed'
  <2>1. CASE Launch(i)
    BY <2>1 DEF Launch, Goto, NoFault, homeVars, Places, Writing
  <2>2. ASSUME NEW by \in {"kill", "stop", "restart"}, Terminate(i, by) PROVE Typed'
    <3>1. job' \in [Instances -> {"none", "stop", "restart"}]
      BY <2>2 DEF Terminate, Asked
    <3>2. pc' \in [Instances -> Places] /\ \A j \in Instances : pc'[j] \in Writing => pc[j] \in Writing
      BY <2>2 DEF Terminate, Goto, Places, Stopping, Writing
    <3>3. UNCHANGED <<up, lock, socket, file, stable, spoilt, keys, used, drawn, served, excuse, left, faults>>
      BY <2>2 DEF Terminate, Signal, homeVars
    <3> QED
      BY <3>1, <3>2, <3>3
  <2>3. CASE Join(i) \/ Part(i)
    BY <2>3 DEF Join, Part, NoFault, homeVars
  <2>4. CASE UpgradeFails(i)
    <3>1. spoilt' \subseteq Homes
      BY <2>4, HomeAssumption DEF UpgradeFails, Spoils
    <3>2. pc' \in [Instances -> Places] /\ \A j \in Instances : pc'[j] \in Writing => pc[j] \in Writing
      BY <2>4 DEF UpgradeFails, Goto, Places, Writing
    <3>3. UNCHANGED <<up, lock, socket, file, stable, keys, used, drawn, served, excuse, left, job>>
      BY <2>4 DEF UpgradeFails
    <3>4. faults' \in Nat
      BY <2>4 DEF UpgradeFails, Fault
    <3> QED
      BY <3>1, <3>2, <3>3, <3>4
  <2>5. CASE StopAdvFails(i)
    BY <2>5 DEF StopAdvFails, Stopped, Goto, Fault, homeVars, Places, Stopping, Writing
  <2>6. ASSUME NEW e, NEW what \in {"crash", "kill", "again", "scanner", "ctrlC"}, Excused(i, what), Ends(i, e),
               Spoils(i), UNCHANGED socket, faults' \in Nat
        PROVE  Typed'
    <3>1. excuse' \in [Instances -> SUBSET {"crash", "kill", "again", "scanner", "ctrlC"}]
      BY <2>6 DEF Excused
    <3>2. QED
      BY <2>6, <3>1, TypedEnd
  <2>7. CASE Crash(i) \/ CtrlC(i) \/ Kill(i) \/ StopScannerFails(i)
    <3> HIDE DEF Typed, TypeOK
    <3>1. faults' \in Nat
      <4>1. faults' = faults \/ faults' = faults + 1
        BY <2>7 DEF Crash, CtrlC, Kill, StopScannerFails, Fault, NoFault
      <4>2. QED
        BY <4>1 DEF Typed
    <3>2. CASE Crash(i)
      BY <2>6, <3>1, <3>2 DEF Crash
    <3>3. CASE Kill(i)
      BY <2>6, <3>1, <3>3 DEF Kill
    <3>4. CASE CtrlC(i)
      BY <2>6, <3>1, <3>4 DEF CtrlC
    <3>5. CASE StopScannerFails(i)
      BY <2>6, <3>1, <3>5 DEF StopScannerFails
    <3>6. QED
      BY <2>7, <3>2, <3>3, <3>4, <3>5
  <2>8. CASE StartFails(i)
    <3> HIDE DEF Typed, TypeOK
    <3>1. faults' = faults + 1 /\ Ends(i, TRUE) /\ Spoils(i) /\ UNCHANGED <<socket, excuse>>
      BY <2>8 DEF StartFails, Fault
    <3>2. faults' \in Nat
      BY <3>1 DEF Typed
    <3>3. /\ socket' \in [Homes -> Instances \cup {None}]
          /\ excuse' \in [Instances -> SUBSET {"crash", "kill", "again", "scanner", "ctrlC"}]
      BY <3>1 DEF Typed, TypeOK
    <3>4. QED
      BY <3>1, <3>2, <3>3, TypedEnd
  <2>9. ASSUME NEW by \in {"kill", "stop", "restart"}, Interrupt(i, by) PROVE Typed'
    <3> HIDE DEF Typed, TypeOK
    <3>1. Asked(i, by) \in {"none", "stop", "restart"} /\ up[i] \in SUBSET Parts
      BY DEF Asked, Typed, TypeOK
    <3>2. excuse' \in [Instances -> SUBSET {"crash", "kill", "again", "scanner", "ctrlC"}]
      BY <2>9 DEF Interrupt, Excused, Typed
    <3>3. faults' \in Nat /\ socket' \in [Homes -> Instances \cup {None}]
      BY <2>9 DEF Interrupt, Signal, Typed, TypeOK
    <3>4. Leaves(i, Then(i, Asked(i, by), FALSE), up[i]) /\ Spoils(i)
      BY <2>9 DEF Interrupt
    <3>5. Then(i, Asked(i, by), FALSE) \in {"none", "stop", "restart"}
      BY <3>1, ThenTyped
    <3> QED
      BY <3>1, <3>2, <3>3, <3>4, <3>5, TypedLeave
  <2>10. CASE ReadFails(i)
    <3> HIDE DEF Typed, TypeOK
    <3>1. Rewrite(i, [sign |-> drawn + 1, noise |-> drawn + 2], 2, "saving")
      BY <2>10 DEF ReadFails
    <3>2. drawn + 1 \in 1 .. MaxKeys /\ drawn + 2 \in 0 .. MaxKeys
      BY <3>1, BoundAssumption DEF Rewrite, Typed
    <3>3. [sign |-> drawn + 1, noise |-> drawn + 2] \in Identities
      BY <3>2, NewIdentity
    <3>4. spoilt' \subseteq Homes /\ faults' \in Nat
      BY <2>10, HomeAssumption DEF ReadFails, Fault, Typed, TypeOK
    <3>5. QED
      BY TypedRewrite, <3>1, <3>3, <3>4 DEF Writing
  <2> QED
    BY <1>4, <2>1, <2>2, <2>3, <2>4, <2>5, <2>7, <2>8, <2>9, <2>10 DEF Environment
<1>5. ASSUME NEW h \in Homes, Sync(h) PROVE Typed'
  BY <1>5 DEF Sync, NoFault
<1>6. CASE PowerLoss
  <2>1. /\ pc' = [i \in Instances |-> "off"] /\ up' = [i \in Instances |-> {}]
        /\ lock' = [h \in Homes |-> None] /\ keys' = [i \in Instances |-> None]
        /\ UNCHANGED <<socket, used, drawn, served>> /\ faults' = faults + 1
    BY <1>6 DEF PowerLoss, Fault
  <2>2. file' \in [Homes -> Identities \cup {None, Torn}] /\ stable' = file'
    BY <1>6 DEF PowerLoss
  <2>3. job' \in [Instances -> {"none", "stop", "restart"}] /\ left' \in [Instances -> SUBSET Parts]
    BY <1>6 DEF PowerLoss
  <2>4. excuse' \in [Instances -> SUBSET {"crash", "kill", "again", "scanner", "ctrlC"}]
    BY <1>6 DEF PowerLoss
  <2>5. spoilt' \subseteq Homes
    BY <1>6, HomeAssumption DEF PowerLoss
  <2>6. "off" \in Places /\ "off" \notin Writing
    BY DEF Places, Writing
  <2> QED
    BY <2>1, <2>2, <2>3, <2>4, <2>5, <2>6
<1> QED
  BY <1>1, <1>2, <1>3, <1>4, <1>5, <1>6 DEF Next

(* Every variable keeps its shape: whatever fails, a home's file is none,  *)
(* one cut short, or an identity.                                          *)
THEOREM TypeCorrect == Spec => []TypeOK
<1>1. Typed => TypeOK
  BY DEF Typed
<1>2. QED
  BY <1>1, TypedInit, TypedStep, PTL DEF Spec

-----------------------------------------------------------------------------
(* The lock and the socket.                                                *)

(* Who is past the lock holds it; who offers the socket is in place.       *)
LockInv ==
    \A i \in Instances :
        /\ pc[i] \notin {"off", "lock"} => lock[Home[i]] = i
        /\ pc[i] \in {"adv", "running"} => socket[Home[i]] = i

(* Two processes of one home are never past the lock together.             *)
LEMMA OneInside ==
    ASSUME LockInv, NEW i \in Instances, NEW j \in Instances, Home[i] = Home[j],
           pc[i] \notin {"off", "lock"}, pc[j] \notin {"off", "lock"}
    PROVE  i = j
  BY DEF LockInv

(* A process that ends gives back its own lock and nobody else's.          *)
LEMMA LockedEnd ==
    ASSUME Typed, LockInv, NEW i \in Instances, pc'  = [pc EXCEPT ![i] = "off"],
           lock' = IF lock[Home[i]] = i THEN [lock EXCEPT ![Home[i]] = None] ELSE lock,
           \A j \in Instances \ {i} : pc[j] \in {"adv", "running"} => socket'[Home[j]] = socket[Home[j]]
    PROVE  LockInv'
<1> SUFFICES ASSUME NEW j \in Instances
             PROVE  /\ pc'[j] \notin {"off", "lock"} => lock'[Home[j]] = j
                    /\ pc'[j] \in {"adv", "running"} => socket'[Home[j]] = j
  BY DEF LockInv
<1>1. CASE j = i
  BY <1>1 DEF Typed, TypeOK
<1>2. CASE j # i
  <2>1. pc'[j] = pc[j]
    BY <1>2 DEF Typed, TypeOK
  <2>2. pc[j] \notin {"off", "lock"} => lock[Home[j]] = j /\ lock'[Home[j]] = j
    BY <1>2, HomeAssumption DEF LockInv, Typed, TypeOK
  <2>3. QED
    BY <1>2, <2>1, <2>2 DEF LockInv
<1>3. QED
  BY <1>1, <1>2

(* A process that goes on inside keeps lock and socket.                    *)
LEMMA LockedMove ==
    ASSUME Typed, LockInv, NEW i \in Instances, NEW place, pc' = [pc EXCEPT ![i] = place],
           UNCHANGED <<lock, socket>>,
           place \notin {"off", "lock"} => pc[i] \notin {"off", "lock"},
           place \in {"adv", "running"} => pc[i] \in {"adv", "running"}
    PROVE  LockInv'
  BY DEF LockInv, Typed, TypeOK

LEMMA LockStep == Typed /\ LockInv /\ [Next]_vars => LockInv'
<1> SUFFICES ASSUME Typed, LockInv, [Next]_vars PROVE LockInv'
  OBVIOUS
<1>1. CASE UNCHANGED vars
  BY <1>1 DEF vars, LockInv
<1>2. ASSUME NEW i \in Instances, StartUp(i) PROVE LockInv'
  <2>1. CASE TakeLock(i)
    <3>1. /\ lock[Home[i]] = None /\ lock' = [lock EXCEPT ![Home[i]] = i]
          /\ pc' = [pc EXCEPT ![i] = "adapter"] /\ socket' = socket
      BY <2>1 DEF TakeLock, Goto
    <3>2. \A j \in Instances \ {i} : pc[j] \notin {"off", "lock"} => Home[j] # Home[i]
      BY <3>1, HomeAssumption DEF LockInv
    <3>3. pc'[i] = "adapter" /\ \A j \in Instances \ {i} : pc'[j] = pc[j]
      BY <3>1 DEF Typed, TypeOK
    <3>4. lock'[Home[i]] = i /\ \A h \in Homes \ {Home[i]} : lock'[h] = lock[h]
      BY <3>1, HomeAssumption DEF Typed, TypeOK
    <3> QED
      BY <3>1, <3>2, <3>3, <3>4, HomeAssumption DEF LockInv
  <2>2. CASE Refused(i)
    BY <2>2, LockedEnd DEF Refused, Ends, Leaves, Goto
  <2>3. CASE StartIpc(i)
    <3> SUFFICES ASSUME NEW j \in Instances
                 PROVE  /\ pc'[j] \notin {"off", "lock"} => lock'[Home[j]] = j
                        /\ pc'[j] \in {"adv", "running"} => socket'[Home[j]] = j
      BY DEF LockInv
    <3>1. lock' = lock /\ pc[i] = "ipc" /\ pc' = [pc EXCEPT ![i] = "adv"]
          /\ socket' = [socket EXCEPT ![Home[i]] = i]
      BY <2>3 DEF StartIpc, Proceed, Goto
    <3>2. CASE j = i
      BY <3>1, <3>2, HomeAssumption DEF LockInv, Typed, TypeOK
    <3>3. CASE j # i
      <4>1. pc'[j] = pc[j]
        BY <3>1, <3>3 DEF Typed, TypeOK
      <4>2. pc[j] \notin {"off", "lock"} => Home[j] # Home[i]
        BY <3>1, <3>3, OneInside
      <4>3. QED
        BY <3>1, <4>1, <4>2, HomeAssumption DEF LockInv, Typed, TypeOK
    <3>4. QED
      BY <3>2, <3>3
  <2>4. CASE EnsureAdapterUp(i) \/ StartGatt(i) \/ StartScanner(i)
    BY <2>4, LockedMove DEF EnsureAdapterUp, StartGatt, StartScanner, Proceed, Goto
  <2>5. CASE Load(i) \/ Save(i)
    BY <2>5, LockedMove DEF Load, Save, Adopt, Goto
  <2>6. CASE Generate(i) \/ Upgrade(i)
    BY <2>6, LockedMove DEF Generate, Upgrade, Rewrite, Goto
  <2>7. CASE StartAdvertising(i)
    BY <2>7, LockedMove DEF StartAdvertising, Goto
  <2>8. QED
    BY <1>2, <2>1, <2>2, <2>3, <2>4, <2>5, <2>6, <2>7 DEF StartUp
<1>3. ASSUME NEW i \in Instances, ShutDown(i) PROVE LockInv'
  <2>1. CASE StopAdv(i) \/ StopScanner(i) \/ StopGatt(i) \/ CloseIpc(i)
    BY <2>1, LockedMove DEF StopAdv, StopScanner, StopGatt, CloseIpc, Stopped, Goto
  <2>2. CASE EndIpc(i)
    <3>1. ASSUME NEW j \in Instances \ {i}, pc[j] \in {"adv", "running"}
          PROVE  socket'[Home[j]] = socket[Home[j]]
      <4>1. Home[j] # Home[i]
        BY <2>2, <3>1, OneInside DEF EndIpc
      <4>2. QED
        BY <2>2, <4>1, HomeAssumption DEF EndIpc, Typed, TypeOK
    <3>2. QED
      BY <2>2, <3>1, LockedEnd DEF EndIpc, Leaves, Goto
  <2>3. QED
    BY <1>3, <2>1, <2>2 DEF ShutDown
<1>4. ASSUME NEW i \in Instances, Environment(i) PROVE LockInv'
  <2>1. CASE Launch(i)
    BY <2>1, LockedMove DEF Launch, Goto
  <2>2. CASE ReadFails(i) \/ UpgradeFails(i) \/ StopAdvFails(i)
    BY <2>2, LockedMove DEF ReadFails, Rewrite, UpgradeFails, StopAdvFails, Stopped, Goto
  <2>3. CASE Join(i) \/ Part(i)
    BY <2>3 DEF Join, Part, LockInv
  <2>4. CASE Crash(i) \/ CtrlC(i) \/ Kill(i) \/ StopScannerFails(i) \/ StartFails(i)
    BY <2>4, LockedEnd DEF Crash, CtrlC, Kill, StopScannerFails, StartFails, Ends, Leaves, Goto
  <2>5. ASSUME NEW by, Terminate(i, by) PROVE LockInv'
    BY <2>5, LockedMove DEF Terminate, Goto
  <2>6. ASSUME NEW by, Interrupt(i, by) PROVE LockInv'
    BY <2>6, LockedEnd DEF Interrupt, Leaves, Goto
  <2> QED
    BY <1>4, <2>1, <2>2, <2>3, <2>4, <2>5, <2>6 DEF Environment
<1>5. CASE PowerLoss
  BY <1>5 DEF PowerLoss, LockInv
<1>6. ASSUME NEW h \in Homes, Sync(h) PROVE LockInv'
  BY <1>6 DEF Sync, LockInv
<1> QED
  BY <1>1, <1>2, <1>3, <1>4, <1>5, <1>6 DEF Next

LEMMA LockInit == Init => LockInv
  BY DEF Init, LockInv

(* The socket in place is the running daemon's, whatever another process   *)
(* of its home does: what run() takes and removes it does under the lock.  *)
THEOREM SocketIsServed == Spec => []SocketServed
<1>1. LockInv => SocketServed
  BY DEF LockInv, SocketServed
<1>2. QED
  BY <1>1, TypedInit, TypedStep, LockInit, LockStep, PTL DEF Spec

-----------------------------------------------------------------------------
(* A stop that is complete.                                                *)

(* What still runs at each place of run()'s finally.                       *)
Remaining(place) ==
    CASE place \in {"running", "stopAdv"} -> Parts
      [] place = "stopScanner" -> Parts \ {"adv", "session"}
      [] place = "stopGatt" -> {"fragments", "gatt", "ipc"}
      [] place = "closeIpc" -> {"fragments", "ipc"}
      [] place = "endIpc" -> {"fragments"}
      [] OTHER -> {}

Downward == {"running"} \cup Stopping

WholeInv ==
    \A i \in Instances :
        /\ pc[i] \in Downward => up[i] = Remaining(pc[i])
        /\ pc[i] \notin Downward \cup {"off"} => ~served[i]
        /\ pc[i] = "off" /\ served[i] /\ excuse[i] = {} => left[i] = {} /\ socket[Home[i]] # i

LEMMA WholeInit == Init => WholeInv
  BY DEF Init, WholeInv, Downward, Stopping

(* The others stay as they are, as long as the socket is not given to one. *)
LEMMA OthersWhole ==
    ASSUME Typed, WholeInv, NEW i \in Instances, NEW j \in Instances \ {i},
           pc'[j] = pc[j], up'[j] = up[j], served'[j] = served[j], excuse'[j] = excuse[j],
           left'[j] = left[j], socket'[Home[j]] \in {socket[Home[j]], i, None}
    PROVE  /\ pc'[j] \in Downward => up'[j] = Remaining(pc'[j])
           /\ pc'[j] \notin Downward \cup {"off"} => ~served'[j]
           /\ pc'[j] = "off" /\ served'[j] /\ excuse'[j] = {} => left'[j] = {} /\ socket'[Home[j]] # j
  BY HomeAssumption DEF WholeInv

(* One process moves, and only its own entries change.                     *)
OnlyOf(i) ==
    \A j \in Instances \ {i} :
        /\ pc'[j] = pc[j] /\ up'[j] = up[j] /\ served'[j] = served[j] /\ excuse'[j] = excuse[j]
        /\ left'[j] = left[j] /\ socket'[Home[j]] \in {socket[Home[j]], i, None}

WholeOf(i) ==
    /\ pc'[i] \in Downward => up'[i] = Remaining(pc'[i])
    /\ pc'[i] \notin Downward \cup {"off"} => ~served'[i]
    /\ pc'[i] = "off" /\ served'[i] /\ excuse'[i] = {} => left'[i] = {} /\ socket'[Home[i]] # i

LEMMA OneMoves ==
    ASSUME Typed, WholeInv, NEW i \in Instances, OnlyOf(i), WholeOf(i)
    PROVE  WholeInv'
<1> SUFFICES ASSUME NEW j \in Instances
             PROVE  /\ pc'[j] \in Downward => up'[j] = Remaining(pc'[j])
                    /\ pc'[j] \notin Downward \cup {"off"} => ~served'[j]
                    /\ pc'[j] = "off" /\ served'[j] /\ excuse'[j] = {}
                          => left'[j] = {} /\ socket'[Home[j]] # j
  BY DEF WholeInv
<1>1. CASE j = i
  BY <1>1 DEF WholeOf
<1>2. CASE j # i
  BY <1>2, OthersWhole DEF OnlyOf
<1>3. QED
  BY <1>1, <1>2

(* A process that ends other than at the end of its finally never ran, or  *)
(* has an excuse.                                                          *)
LEMMA WholeEnd ==
    ASSUME Typed, WholeInv, NEW i \in Instances, NEW next, NEW running,
           Leaves(i, next, running), UNCHANGED socket,
           \A j \in Instances \ {i} : excuse'[j] = excuse[j],
           ~served[i] \/ excuse'[i] # {}
    PROVE  WholeInv'
<1>1. OnlyOf(i)
  BY DEF OnlyOf, Leaves, Goto, Typed, TypeOK
<1>2. pc'[i] = "off" /\ served'[i] = served[i]
  BY DEF Leaves, Goto, Typed, TypeOK
<1>3. "off" \notin Downward
  BY DEF Downward, Stopping
<1>4. WholeOf(i)
  BY <1>2, <1>3 DEF WholeOf
<1>5. QED
  BY <1>1, <1>4, OneMoves

LEMMA WholeStep == Typed /\ WholeInv /\ [Next]_vars => WholeInv'
<1> SUFFICES ASSUME Typed, WholeInv, [Next]_vars PROVE WholeInv'
  OBVIOUS
<1>1. CASE UNCHANGED vars
  BY <1>1 DEF vars, WholeInv
<1>2. ASSUME NEW i \in Instances, StartUp(i) PROVE WholeInv'
  <2>1. ASSUME NEW place, place \notin Downward \cup {"off"}, pc[i] \notin Downward \cup {"off"},
               pc' = [pc EXCEPT ![i] = place],
               UNCHANGED <<served, excuse, left>>,
               \A j \in Instances \ {i} : up'[j] = up[j],
               socket' \in {socket, [socket EXCEPT ![Home[i]] = i]}
        PROVE  WholeInv'
    <3>1. ASSUME NEW j \in Instances \ {i} PROVE socket'[Home[j]] \in {socket[Home[j]], i, None}
      <4>1. Home[j] \in Homes /\ socket \in [Homes -> Instances \cup {None}]
        BY HomeAssumption DEF Typed, TypeOK
      <4>2. CASE socket' = socket
        BY <4>2
      <4>3. CASE socket' = [socket EXCEPT ![Home[i]] = i]
        BY <4>1, <4>3
      <4>4. QED
        BY <2>1, <4>2, <4>3
    <3>2. OnlyOf(i)
      BY <2>1, <3>1 DEF OnlyOf, Typed, TypeOK
    <3>3. WholeOf(i)
      BY <2>1 DEF WholeOf, WholeInv, Typed, TypeOK
    <3>4. QED
      BY <3>2, <3>3, OneMoves
  <2>2. CASE TakeLock(i)
    BY <2>1, <2>2 DEF TakeLock, Goto, Downward, Stopping
  <2>3. CASE Refused(i)
    <3>1. ~served[i]
      BY <2>3 DEF Refused, WholeInv, Downward, Stopping
    <3>2. QED
      BY <2>3, <3>1, WholeEnd DEF Refused, Ends
  <2>4. CASE EnsureAdapterUp(i) \/ StartGatt(i) \/ StartScanner(i) \/ StartIpc(i)
    <3> USE DEF Proceed, Goto, Downward, Stopping, Typed, TypeOK
    <3>1. CASE EnsureAdapterUp(i)
      BY <2>1, <3>1 DEF EnsureAdapterUp
    <3>2. CASE StartGatt(i)
      BY <2>1, <3>2 DEF StartGatt
    <3>3. CASE StartScanner(i)
      BY <2>1, <3>3 DEF StartScanner
    <3>4. CASE StartIpc(i)
      BY <2>1, <3>4 DEF StartIpc
    <3>5. QED
      BY <2>4, <3>1, <3>2, <3>3, <3>4
  <2>5. CASE Load(i) \/ Save(i)
    BY <2>1, <2>5 DEF Load, Save, Adopt, Goto, Downward, Stopping, Typed, TypeOK
  <2>6. CASE Generate(i) \/ Upgrade(i)
    BY <2>1, <2>6 DEF Generate, Upgrade, Rewrite, Goto, Downward, Stopping, Typed, TypeOK
  <2>7. CASE StartAdvertising(i)
    <3>1. OnlyOf(i)
      BY <2>7 DEF StartAdvertising, Goto, OnlyOf, Typed, TypeOK
    <3>2. pc'[i] = "running" /\ up'[i] = Parts
      BY <2>7 DEF StartAdvertising, Goto, Typed, TypeOK
    <3>3. WholeOf(i)
      BY <3>2 DEF WholeOf, Downward, Remaining
    <3>4. QED
      BY <3>1, <3>3, OneMoves
  <2>8. QED
    BY <1>2, <2>2, <2>3, <2>4, <2>5, <2>6, <2>7 DEF StartUp
<1>3. ASSUME NEW i \in Instances, NEW from \in Stopping, NEW to \in Stopping, NEW parts,
             Stopped(i, from, to, parts), UNCHANGED excuse,
             Remaining(to) = Remaining(from) \ parts
      PROVE  WholeInv'
  <2>1. OnlyOf(i)
    BY <1>3 DEF Stopped, Goto, OnlyOf, Typed, TypeOK
  <2>2. pc[i] = from /\ pc'[i] = to /\ up'[i] = up[i] \ parts
    BY <1>3 DEF Stopped, Goto, Typed, TypeOK
  <2>3. up[i] = Remaining(from)
    BY <2>2 DEF WholeInv, Downward
  <2>4. to \in Downward /\ to # "off"
    BY DEF Downward, Stopping
  <2>5. WholeOf(i)
    BY <1>3, <2>2, <2>3, <2>4 DEF WholeOf
  <2>6. QED
    BY <2>1, <2>5, OneMoves
<1>4. ASSUME NEW i \in Instances, ShutDown(i) PROVE WholeInv'
  <2>1. CASE StopAdv(i)
    BY <1>3, <2>1 DEF StopAdv, Remaining, Stopping, Parts
  <2>2. CASE StopScanner(i)
    BY <1>3, <2>2 DEF StopScanner, Remaining, Stopping, Parts
  <2>3. CASE StopGatt(i)
    BY <1>3, <2>3 DEF StopGatt, Remaining, Stopping
  <2>4. CASE CloseIpc(i)
    BY <1>3, <2>4 DEF CloseIpc, Remaining, Stopping
  <2>5. CASE EndIpc(i)
    <3>1. OnlyOf(i)
      BY <2>5, HomeAssumption DEF EndIpc, Leaves, Goto, OnlyOf, Typed, TypeOK
    <3>2. up[i] = {"fragments"}
      BY <2>5 DEF EndIpc, WholeInv, Downward, Stopping, Remaining
    <3>3. pc'[i] = "off" /\ left'[i] = {} /\ socket'[Home[i]] = None
      BY <2>5, <3>2, HomeAssumption DEF EndIpc, Leaves, Goto, Typed, TypeOK
    <3>4. WholeOf(i)
      BY <3>3, HomeAssumption DEF WholeOf, Downward, Stopping
    <3>5. QED
      BY <3>1, <3>4, OneMoves
  <2>6. QED
    BY <1>4, <2>1, <2>2, <2>3, <2>4, <2>5 DEF ShutDown
<1>5. ASSUME NEW i \in Instances, Environment(i) PROVE WholeInv'
  <2>1. CASE Launch(i)
    <3>1. OnlyOf(i)
      BY <2>1 DEF Launch, Goto, OnlyOf, Typed, TypeOK
    <3>2. pc'[i] = "lock" /\ ~served'[i]
      BY <2>1 DEF Launch, Goto, Typed, TypeOK
    <3>3. WholeOf(i)
      BY <3>2 DEF WholeOf, Downward, Stopping
    <3>4. QED
      BY <3>1, <3>3, OneMoves
  <2>2. ASSUME NEW by, Terminate(i, by) PROVE WholeInv'
    <3>1. OnlyOf(i)
      BY <2>2 DEF Terminate, Goto, OnlyOf, Typed, TypeOK
    <3>2. pc[i] = "running" /\ pc'[i] = "stopAdv" /\ up'[i] = up[i]
      BY <2>2 DEF Terminate, Goto, Typed, TypeOK
    <3>3. up[i] = Parts
      BY <3>2 DEF WholeInv, Downward, Remaining
    <3>4. WholeOf(i)
      BY <3>2, <3>3 DEF WholeOf, Downward, Stopping, Remaining
    <3>5. QED
      BY <3>1, <3>4, OneMoves
  <2>3. CASE Join(i) \/ Part(i)
    BY <2>3 DEF Join, Part, WholeInv
  <2>4. ASSUME NEW next, NEW running, NEW what, Leaves(i, next, running), Excused(i, what), UNCHANGED socket
        PROVE  WholeInv'
    <3>1. excuse'[i] # {} /\ \A j \in Instances \ {i} : excuse'[j] = excuse[j]
      BY <2>4 DEF Excused, Typed
    <3>2. QED
      BY <2>4, <3>1, WholeEnd
  <2>5. CASE Crash(i)
    BY <2>4, <2>5 DEF Crash, Ends
  <2>6. CASE Kill(i) \/ CtrlC(i)
    BY <2>4, <2>6 DEF Kill, CtrlC, Ends
  <2>7. ASSUME NEW by, Interrupt(i, by) PROVE WholeInv'
    BY <2>4, <2>7 DEF Interrupt
  <2>8. CASE StopScannerFails(i)
    BY <2>4, <2>8 DEF StopScannerFails, Ends
  <2>9. CASE StartFails(i)
    <3>1. ~served[i]
      BY <2>9 DEF StartFails, WholeInv, Starting, Downward, Stopping
    <3>2. QED
      BY <2>9, <3>1, WholeEnd DEF StartFails, Ends
  <2>10. CASE UpgradeFails(i)
    <3>1. OnlyOf(i)
      BY <2>10 DEF UpgradeFails, Goto, OnlyOf, Typed, TypeOK
    <3>2. pc[i] = "upgrading" /\ pc'[i] = "identity" /\ served'[i] = served[i]
      BY <2>10 DEF UpgradeFails, Goto, Typed, TypeOK
    <3>3. WholeOf(i)
      BY <3>2 DEF WholeOf, WholeInv, Downward, Stopping
    <3>4. QED
      BY <3>1, <3>3, OneMoves
  <2>11. CASE StopAdvFails(i)
    BY <1>3, <2>11 DEF StopAdvFails, Remaining, Stopping, Parts
  <2>12. CASE ReadFails(i)
    <3>1. OnlyOf(i)
      BY <2>12 DEF ReadFails, Rewrite, Goto, OnlyOf, Typed, TypeOK
    <3>2. pc[i] = "identity" /\ pc'[i] = "saving" /\ served'[i] = served[i]
      BY <2>12 DEF ReadFails, Rewrite, Goto, Typed, TypeOK
    <3>3. WholeOf(i)
      BY <3>2 DEF WholeOf, WholeInv, Downward, Stopping
    <3> QED
      BY <3>1, <3>3, OneMoves
  <2> QED
    BY <1>5, <2>1, <2>2, <2>3, <2>5, <2>6, <2>7, <2>8, <2>9, <2>10, <2>11, <2>12 DEF Environment
<1>6. ASSUME NEW h \in Homes, Sync(h) PROVE WholeInv'
  BY <1>6 DEF Sync, WholeInv
<1>7. CASE PowerLoss
  <2> SUFFICES ASSUME NEW j \in Instances
               PROVE  pc'[j] = "off" /\ (served'[j] /\ excuse'[j] = {}
                                            => left'[j] = {} /\ socket'[Home[j]] # j)
    BY DEF WholeInv, Downward, Stopping
  <2>1. pc'[j] = "off" /\ served'[j] = served[j] /\ socket' = socket
    BY <1>7 DEF PowerLoss
  <2>2. CASE pc[j] # "off"
    BY <1>7, <2>1, <2>2 DEF PowerLoss, Typed
  <2>3. CASE pc[j] = "off"
    BY <1>7, <2>1, <2>3 DEF PowerLoss, WholeInv
  <2> QED
    BY <2>1, <2>2, <2>3
<1> QED
  BY <1>1, <1>2, <1>4, <1>5, <1>6, <1>7 DEF Next

(* A daemon that ran, was told to stop by one SIGTERM and whose scanner    *)
(* stopped has stopped every part, in that order, and removed its socket:  *)
(* run()'s finally is carried out to its end, or something is to blame.    *)
THEOREM StopIsWhole == Spec => []StopsWhole
<1>1. WholeInv => StopsWhole
  BY DEF WholeInv, StopsWhole
<1>2. QED
  BY <1>1, TypedInit, TypedStep, WholeInit, WholeStep, PTL DEF Spec

-----------------------------------------------------------------------------
(* The identity.                                                           *)

(* k may be u with the Noise key added.                                    *)
Extends(k, u) == u.sign = k.sign /\ u.noise \in {0, k.noise}

(* Of a process that writes, and of a home and its file.                   *)
WriterOK(i) ==
    /\ pc[i] \in Writing => file[Home[i]] = Torn /\ keys[i].noise # 0
    /\ pc[i] = "saving" /\ Home[i] \notin spoilt => used[Home[i]] = {}
    /\ pc[i] = "upgrading" /\ Home[i] \notin spoilt => \A u \in used[Home[i]] : Extends(keys[i], u)

FileOK(h) ==
    h \notin spoilt =>
        /\ file[h] \in Identities => \A u \in used[h] : Extends(file[h], u)
        /\ file[h] = None => used[h] = {}
        /\ file[h] = Torn => used[h] = {} \/ \E i \in Instances : Home[i] = h /\ pc[i] = "upgrading"

(* A file that can be read is the identity shown last, and every one shown *)
(* before; none, or one cut short, means that nothing was shown yet or     *)
(* that somebody is writing what was shown.                                *)
IdentityInv == (\A i \in Instances : WriterOK(i)) /\ (\A h \in Homes : FileOK(h))

LEMMA IdentityInit == Init => IdentityInv
<1> SUFFICES ASSUME Init PROVE IdentityInv
  OBVIOUS
<1>1. ASSUME NEW i \in Instances PROVE WriterOK(i)
  BY DEF Init, WriterOK, Writing
<1>2. ASSUME NEW h \in Homes PROVE FileOK(h)
  <2>1. file[h] \in Identities \cup {None} /\ used[h] = {file[h]} \ {None}
    BY FileAssumption DEF Init
  <2>2. CASE file[h] = None
    BY <2>1, <2>2, FileAssumption DEF FileOK
  <2>3. CASE file[h] \in Identities
    BY <2>1, <2>3, FileAssumption DEF FileOK, Extends
  <2>4. QED
    BY <2>1, <2>2, <2>3
<1>3. QED
  BY <1>1, <1>2 DEF IdentityInv

(* Steps that touch neither file nor identities, nor who writes: whoever   *)
(* stops adding a key spoils its home.                                     *)
LEMMA IdentityIdle ==
    ASSUME Typed, IdentityInv, NEW i \in Instances, NEW place,
           pc' = [pc EXCEPT ![i] = place], place \notin Writing,
           UNCHANGED <<file, used>>, \A j \in Instances \ {i} : keys'[j] = keys[j],
           spoilt \subseteq spoilt',
           pc[i] = "upgrading" => Home[i] \in spoilt'
    PROVE  IdentityInv'
<1>1. pc'[i] = place /\ \A j \in Instances \ {i} : pc'[j] = pc[j]
  BY DEF Typed, TypeOK
<1>2. ASSUME NEW j \in Instances PROVE WriterOK(j)'
  <2>1. WriterOK(j)
    BY DEF IdentityInv
  <2>2. CASE j = i
    BY <1>1, <2>2 DEF WriterOK, Writing
  <2>3. CASE j # i
    BY <1>1, <2>1, <2>3 DEF WriterOK, Extends
  <2>4. QED
    BY <2>2, <2>3
<1>3. ASSUME NEW h \in Homes PROVE FileOK(h)'
  <2>1. FileOK(h)
    BY DEF IdentityInv
  <2>2. ASSUME NEW j \in Instances, Home[j] = h, pc[j] = "upgrading", h \notin spoilt'
        PROVE  pc'[j] = "upgrading"
    BY <1>1, <2>2
  <2>3. QED
    BY <2>1, <2>2 DEF FileOK, Extends
<1>4. QED
  BY <1>2, <1>3 DEF IdentityInv

(* A process ends.                                                         *)
LEMMA IdentityEnd ==
    ASSUME Typed, IdentityInv, NEW i \in Instances, NEW next, NEW running,
           Leaves(i, next, running), Spoils(i)
    PROVE  IdentityInv'
<1>1. spoilt \subseteq spoilt' /\ (pc[i] = "upgrading" => Home[i] \in spoilt')
  BY DEF Spoils
<1>2. "off" \notin Writing
  BY DEF Writing
<1>3. QED
  BY <1>1, <1>2, IdentityIdle DEF Leaves, Goto, Typed, TypeOK

(* A step of process i that writes concerns its home only, where nobody    *)
(* else is.                                                                *)
LEMMA OtherHomes ==
    ASSUME Typed, LockInv, IdentityInv, NEW i \in Instances,
           pc[i] \notin {"off", "lock"},
           \A j \in Instances \ {i} : pc'[j] = pc[j] /\ keys'[j] = keys[j],
           \A h \in Homes \ {Home[i]} : file'[h] = file[h] /\ used'[h] = used[h],
           spoilt \subseteq spoilt',
           WriterOK(i)', FileOK(Home[i])'
    PROVE  IdentityInv'
<1>1. ASSUME NEW j \in Instances PROVE WriterOK(j)'
  <2>1. CASE j = i
    BY <2>1
  <2>2. CASE j # i /\ pc[j] \in Writing
    <3>1. Home[j] # Home[i] /\ Home[j] \in Homes
      BY <2>2, OneInside, HomeAssumption DEF Writing
    <3>2. WriterOK(j)
      BY DEF IdentityInv
    <3>3. QED
      BY <2>2, <3>1, <3>2 DEF WriterOK, Extends
  <2>3. CASE j # i /\ pc[j] \notin Writing
    BY <2>3 DEF WriterOK, Writing
  <2>4. QED
    BY <2>1, <2>2, <2>3
<1>2. ASSUME NEW h \in Homes PROVE FileOK(h)'
  <2>1. CASE h = Home[i]
    BY <2>1
  <2>2. CASE h # Home[i]
    <3>1. FileOK(h)
      BY DEF IdentityInv
    <3>2. file'[h] = file[h] /\ used'[h] = used[h]
      BY <2>2
    <3>3. \A j \in Instances : Home[j] = h => pc'[j] = pc[j]
      BY <2>2
    <3>4. QED
      BY <3>1, <3>2, <3>3 DEF FileOK, Extends
  <2>3. QED
    BY <2>1, <2>2
<1>3. QED
  BY <1>1, <1>2 DEF IdentityInv

LEMMA LoadKeeps ==
    ASSUME Typed, LockInv, IdentityInv, NEW i \in Instances, Load(i)
    PROVE  IdentityInv'
<1> DEFINE h == Home[i]
<1>1. h \in Homes /\ FileOK(h) /\ file[h] \in Identities
  BY HomeAssumption DEF IdentityInv, Load, Usable, Typed, TypeOK
<1>2. /\ file' = file /\ spoilt' = spoilt
      /\ used' = [used EXCEPT ![h] = @ \cup {file[h]}]
      /\ keys' = [keys EXCEPT ![i] = file[h]]
      /\ pc' = [pc EXCEPT ![i] = "gatt"] /\ pc[i] = "identity"
  BY DEF Load, Adopt, Goto
<1>3. used'[h] = used[h] \cup {file[h]} /\ pc'[i] = "gatt"
  BY <1>1, <1>2 DEF Typed, TypeOK
<1>4. WriterOK(i)'
  BY <1>3 DEF WriterOK, Writing
<1>5. FileOK(h)'
  <2>1. file[h] # None /\ file[h] # Torn
    BY <1>1, FileAssumption
  <2>2. h \notin spoilt => \A u \in used'[h] : Extends(file[h], u)
    BY <1>1, <1>3 DEF FileOK, Extends
  <2>3. QED
    BY <1>2, <2>1, <2>2 DEF FileOK, Extends
<1>6. QED
  BY <1>1, <1>2, <1>4, <1>5, OtherHomes DEF Typed, TypeOK

(* A write begins: the file is emptied.                                    *)
LEMMA RewriteKeeps ==
    ASSUME Typed, LockInv, IdentityInv, NEW i \in Instances, NEW k, NEW n, NEW place \in Writing,
           Rewrite(i, k, n, place), pc[i] = "identity", k.noise # 0, spoilt \subseteq spoilt',
           \/ place = "saving" /\ (~Usable(file[Home[i]]) \/ Home[i] \in spoilt')
           \/ /\ place = "upgrading" /\ Usable(file[Home[i]])
              /\ file[Home[i]].noise = 0 /\ k.sign = file[Home[i]].sign
    PROVE  IdentityInv'
<1> DEFINE h == Home[i]
<1>1. h \in Homes /\ FileOK(h)
  BY HomeAssumption DEF IdentityInv
<1>2. /\ file' = [file EXCEPT ![h] = Torn] /\ keys' = [keys EXCEPT ![i] = k]
      /\ used' = used /\ pc' = [pc EXCEPT ![i] = place]
  BY DEF Rewrite, Goto
<1>3. file'[h] = Torn /\ keys'[i] = k /\ used'[h] = used[h] /\ pc'[i] = place
  BY <1>1, <1>2 DEF Typed, TypeOK
<1>4. Torn \notin Identities /\ Torn # None
  BY FileAssumption
<1>5. CASE place = "saving"
  <2>1. ASSUME h \notin spoilt' PROVE used[h] = {}
    <3>1. h \notin spoilt /\ file[h] \in {None, Torn}
      BY <1>5, <2>1 DEF Usable
    <3>2. \A j \in Instances : Home[j] = h => pc[j] # "upgrading"
      BY OneInside
    <3>3. QED
      BY <1>1, <3>1, <3>2 DEF FileOK
  <2>2. WriterOK(i)'
    BY <1>3, <1>5, <2>1 DEF WriterOK
  <2>3. FileOK(h)'
    BY <1>3, <1>4, <2>1 DEF FileOK
  <2>4. QED
    BY <1>1, <1>2, <2>2, <2>3, OtherHomes DEF Typed, TypeOK
<1>6. CASE place = "upgrading"
  <2>1. file[h] \in Identities /\ file[h].noise = 0 /\ k.sign = file[h].sign
    BY <1>1, <1>6 DEF Usable, Typed, TypeOK
  <2>2. h \notin spoilt' => \A u \in used[h] : Extends(k, u)
    BY <1>1, <2>1 DEF FileOK, Extends
  <2>3. WriterOK(i)'
    BY <1>3, <1>6, <2>2 DEF WriterOK, Extends
  <2>4. FileOK(h)'
    BY <1>3, <1>4, <1>6 DEF FileOK
  <2>5. QED
    BY <1>1, <1>2, <2>3, <2>4, OtherHomes DEF Typed, TypeOK
<1>7. QED
  BY <1>5, <1>6 DEF Writing

(* What was drawn is in the file and shown.                                *)
LEMMA SaveKeeps ==
    ASSUME Typed, LockInv, IdentityInv, NEW i \in Instances, Save(i)
    PROVE  IdentityInv'
<1> DEFINE h == Home[i]
<1>1. /\ h \in Homes /\ FileOK(h) /\ WriterOK(i)
      /\ pc[i] \in Writing /\ keys[i] \in Identities
  BY HomeAssumption DEF IdentityInv, Save, Writing, Typed
<1>2. /\ file' = [file EXCEPT ![h] = keys[i]] /\ keys' = [keys EXCEPT ![i] = keys[i]]
      /\ used' = [used EXCEPT ![h] = @ \cup {keys[i]}]
      /\ spoilt' = spoilt /\ pc' = [pc EXCEPT ![i] = "gatt"]
  BY DEF Save, Adopt, Goto
<1>3. file'[h] = keys[i] /\ used'[h] = used[h] \cup {keys[i]} /\ pc'[i] = "gatt"
  BY <1>1, <1>2 DEF Typed, TypeOK
<1>4. WriterOK(i)'
  BY <1>3 DEF WriterOK, Writing
<1>5. h \notin spoilt => \A u \in used'[h] : Extends(keys[i], u)
  BY <1>1, <1>3 DEF WriterOK, Writing, Extends
<1>6. FileOK(h)'
  BY <1>1, <1>2, <1>3, <1>5, FileAssumption DEF FileOK, Extends
<1>7. QED
  BY <1>1, <1>2, <1>4, <1>6, OtherHomes DEF Typed, TypeOK, Writing

(* The machine goes down: a home whose file was on the disk, and to which  *)
(* nobody was adding a key, has its file.                                  *)
LEMMA PowerLossKeeps ==
    ASSUME Typed, IdentityInv, PowerLoss
    PROVE  IdentityInv'
<1>1. ASSUME NEW i \in Instances PROVE WriterOK(i)'
  BY DEF PowerLoss, WriterOK, Writing
<1>2. ASSUME NEW h \in Homes, h \notin spoilt' PROVE FileOK(h)'
  <2>1. /\ h \notin spoilt /\ stable[h] = file[h] /\ used' = used
        /\ \A i \in Instances : Home[i] = h => pc[i] # "upgrading"
    BY <1>2 DEF PowerLoss
  <2>2. file'[h] = file[h]
    BY <2>1 DEF PowerLoss
  <2>3. FileOK(h)
    BY DEF IdentityInv
  <2>4. QED
    BY <2>1, <2>2, <2>3 DEF FileOK, Extends
<1>3. QED
  BY <1>1, <1>2 DEF IdentityInv, FileOK

LEMMA IdentityStep == Typed /\ LockInv /\ IdentityInv /\ [Next]_vars => IdentityInv'
<1> SUFFICES ASSUME Typed, LockInv, IdentityInv, [Next]_vars PROVE IdentityInv'
  OBVIOUS
<1>1. ASSUME UNCHANGED <<pc, file, used, keys, spoilt>> PROVE IdentityInv'
  BY <1>1 DEF IdentityInv, WriterOK, FileOK, Extends
<1>2. CASE UNCHANGED vars
  BY <1>1, <1>2 DEF vars
<1>3. ASSUME NEW i \in Instances, StartUp(i) PROVE IdentityInv'
  <2>1. CASE TakeLock(i)
    BY <2>1, IdentityIdle DEF TakeLock, Goto, homeVars, Writing
  <2>2. CASE Refused(i)
    BY <2>2, IdentityEnd DEF Refused, Ends
  <2>3. CASE EnsureAdapterUp(i) \/ StartGatt(i) \/ StartScanner(i) \/ StartIpc(i)
    BY <2>3, IdentityIdle DEF EnsureAdapterUp, StartGatt, StartScanner, StartIpc, Proceed, Goto,
                              homeVars, Writing
  <2>4. CASE StartAdvertising(i)
    BY <2>4, IdentityIdle DEF StartAdvertising, Goto, homeVars, Writing
  <2>5. CASE Generate(i)
    <3>1. drawn + 2 # 0
      BY DEF Typed
    <3>2. QED
      BY <2>5, <3>1, RewriteKeeps DEF Generate, Writing
  <2>6. CASE Upgrade(i)
    <3>1. drawn + 1 # 0
      BY DEF Typed
    <3>2. QED
      BY <2>6, <3>1, RewriteKeeps DEF Upgrade, Writing
  <2>7. QED
    BY <1>3, <2>1, <2>2, <2>3, <2>4, <2>5, <2>6, LoadKeeps, SaveKeeps DEF StartUp
<1>4. ASSUME NEW i \in Instances, ShutDown(i) PROVE IdentityInv'
  <2>1. CASE EndIpc(i)
    BY <2>1, IdentityEnd DEF EndIpc
  <2>2. QED
    BY <1>4, <2>1, IdentityIdle DEF ShutDown, StopAdv, StopScanner, StopGatt, CloseIpc, Stopped, Goto,
                                    homeVars, Writing
<1>5. ASSUME NEW i \in Instances, Environment(i) PROVE IdentityInv'
  <2>1. CASE Launch(i)
    BY <2>1, IdentityIdle DEF Launch, Goto, homeVars, Writing
  <2>2. ASSUME NEW by, Terminate(i, by) PROVE IdentityInv'
    BY <2>2, IdentityIdle DEF Terminate, Goto, homeVars, Writing
  <2>3. CASE Join(i) \/ Part(i)
    BY <1>1, <2>3 DEF Join, Part, homeVars
  <2>4. CASE UpgradeFails(i)
    <3>1. spoilt \subseteq spoilt' /\ (pc[i] = "upgrading" => Home[i] \in spoilt')
      BY <2>4 DEF UpgradeFails, Spoils
    <3>2. pc' = [pc EXCEPT ![i] = "identity"] /\ UNCHANGED <<file, used, keys>>
      BY <2>4 DEF UpgradeFails, Goto
    <3> QED
      BY <3>1, <3>2, IdentityIdle DEF Writing
  <2>5. CASE StopAdvFails(i)
    BY <2>5, IdentityIdle DEF StopAdvFails, Stopped, Goto, homeVars, Writing
  <2>6. CASE Crash(i) \/ CtrlC(i) \/ Kill(i) \/ StartFails(i) \/ StopScannerFails(i)
    BY <2>6, IdentityEnd DEF Crash, CtrlC, Kill, StartFails, StopScannerFails, Ends
  <2>7. ASSUME NEW by, Interrupt(i, by) PROVE IdentityInv'
    BY <2>7, IdentityEnd DEF Interrupt
  <2>8. CASE ReadFails(i)
    <3>1. drawn + 2 # 0
      BY DEF Typed
    <3>2. QED
      BY <2>8, <3>1, RewriteKeeps DEF ReadFails, Writing
  <2> QED
    BY <1>5, <2>1, <2>2, <2>3, <2>4, <2>5, <2>6, <2>7, <2>8 DEF Environment
<1>6. ASSUME NEW h \in Homes, Sync(h) PROVE IdentityInv'
  BY <1>1, <1>6 DEF Sync
<1> QED
  BY <1>2, <1>3, <1>4, <1>5, <1>6, PowerLossKeeps DEF Next

(* Whatever is in S is x.                                                  *)
LEMMA AtMostOne ==
    ASSUME NEW S, NEW x, S \subseteq {x}
    PROVE  Cardinality(S) <= 1
<1>1. S = {} \/ S = {x}
  OBVIOUS
<1>2. Cardinality({}) = 0
  BY FS_EmptySet
<1>3. Cardinality({x}) = 1
  BY FS_Singleton
<1>4. QED
  BY <1>1, <1>2, <1>3

LEMMA ExtendsKept ==
    ASSUME NEW h \in Homes, NEW k, \A u \in used[h] : Extends(k, u)
    PROVE  Kept(h)
<1>1. {u.sign : u \in used[h]} \subseteq {k.sign} /\ {u.noise : u \in used[h]} \ {0} \subseteq {k.noise}
  BY DEF Extends
<1>2. QED
  BY <1>1, AtMostOne DEF Kept

(* The node keeps its identity: what was shown to a phone once is what is  *)
(* shown ever after, wherever a crash or a failed write comes in between,  *)
(* except in a home that one of the three things spoilt which the code     *)
(* lets pass.                                                              *)
THEOREM IdentityIsKept == Spec => []IdentityKept
<1>1. ASSUME Typed, IdentityInv PROVE IdentityKept
  <2> SUFFICES ASSUME NEW h \in Homes, h \notin spoilt PROVE Kept(h)
    BY DEF IdentityKept
  <2>1. FileOK(h) /\ file[h] \in Identities \cup {None, Torn}
    BY <1>1 DEF IdentityInv, Typed, TypeOK
  <2>2. CASE file[h] \in Identities
    BY <2>1, <2>2, ExtendsKept DEF FileOK
  <2>3. CASE used[h] = {}
    BY <2>3, ExtendsKept
  <2>4. CASE file[h] = Torn /\ used[h] # {}
    <3>1. PICK i \in Instances : Home[i] = h /\ pc[i] = "upgrading"
      BY <2>1, <2>4 DEF FileOK
    <3>2. WriterOK(i)
      BY <1>1 DEF IdentityInv
    <3>3. QED
      BY <3>1, <3>2, ExtendsKept DEF WriterOK
  <2>5. QED
    BY <2>1, <2>2, <2>3, <2>4 DEF FileOK
<1>2. QED
  BY <1>1, TypedInit, TypedStep, LockInit, LockStep, IdentityInit, IdentityStep, PTL DEF Spec

=============================================================================
