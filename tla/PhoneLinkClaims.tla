-------------------------- MODULE PhoneLinkClaims --------------------------
(***************************************************************************)
(* What the repository's own text says of sessions and queued messages and *)
(* the code does not do.  The README gives the constants each was refuted  *)
(* with.                                                                   *)
(***************************************************************************)
EXTENDS PhoneLink

(* The comment on _PENDING_SEND_TTL: queued messages are dropped after     *)
(* that long, and IPC_API: they are delivered once there is a session.     *)
QueuedTextsSurvive == \A t \in Texts : fate[t] \notin {"left", "timedOut"}

(* IPC_API: the queued messages are delivered once the session is          *)
(* established.                                                            *)
DrainsWholeQueue == \A t \in Texts : fate[t] # "crashed"

(* CHANGELOG: what a completed image cancels is the queued auto-replies.   *)
OnlyRepliesCancelled == \A t \in Texts : fate[t] = "cancelled" => t \in Autos

(* IPC_API: a silent peer stays in the list of peers.                      *)
StaysUntilItLeaves == [][\A p \in peers \ peers' : up[p]' # up[p]]_vars

(* _handle_announce resets stale sessions: never one the phone established *)
(* with the very key it announces.                                         *)
ResetsOnlyStale ==
    [][\A p \in Peers :
          Shared(p) /\ peerNoisePub[p]' # peerNoisePub[p] /\ peerNoisePub[p]' = install[p]
              => Shared(p)']_vars

(* daemon.py: LEAVE must not be sent to a phone with an active session,    *)
(* which it would kill.                                                    *)
Leaves(q) == Cardinality({i \in DOMAIN q : q[i] = LEAVE})

NoLeaveToActive == [][\A p \in Peers : Leaves(down[p]') > Leaves(down[p]) => ~Shared(p)]_vars

(* A cached second message belongs to the handshake the session is in.     *)
CachedAnswerIsCurrent ==
    \A p \in Peers :
        pendingMsg2[p] # None => /\ sessions[p] # None /\ sessions[p].st = "wrote"
                                /\ pendingMsg2[p] = Msg2(sessions[p].ei, sessions[p].er)

(* Between two ends of an established session, what one encrypts the other *)
(* decrypts.                                                               *)
SharedMeansReadable ==
    \A p \in Peers : \A i \in DOMAIN down[p] :
        down[p][i].type = "noise" /\ Shared(p) /\ down[p][i].keys.er = phone[p].er
            => down[p][i].keys.epoch = 0

=============================================================================
