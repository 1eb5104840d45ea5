--------------------------- MODULE MessageService ---------------------------
(***************************************************************************)
(* What the daemon promises of the texts it is given: whatever becomes of  *)
(* sessions, queues and packets, every text is accepted or refused once,   *)
(* an accepted one is sent or dropped once, and a text that was sent       *)
(* reaches the phone it is for at most once and nobody else.               *)
(***************************************************************************)
EXTENDS Naturals, Sequences

CONSTANTS
    Peers,   \* the phones
    Texts,   \* what is sent to them
    To       \* the phone each text is for

VARIABLES
    status,  \* of each text: new, queued, sent, dropped or refused
    heard    \* per phone: the texts it has read, in order

vars == <<status, heard>>

Init ==
    /\ status = [t \in Texts |-> "new"]
    /\ heard = [p \in Peers |-> <<>>]

(* A send command: the text is queued, sent or refused.                    *)
Accept(t) ==
    /\ status[t] = "new"
    /\ \E s \in {"queued", "sent", "refused"} : status' = [status EXCEPT ![t] = s]
    /\ UNCHANGED heard

(* Texts that are queued are settled together, each in its way.            *)
Settle ==
    /\ \E f \in [Texts -> {"sent", "dropped"}], S \in SUBSET {t \in Texts : status[t] = "queued"} :
          status' = [t \in Texts |-> IF t \in S THEN f[t] ELSE status[t]]
    /\ UNCHANGED heard

Hear(p, t) ==
    /\ To[t] = p
    /\ status[t] = "sent"
    /\ \A i \in DOMAIN heard[p] : heard[p][i] # t
    /\ heard' = [heard EXCEPT ![p] = Append(@, t)]
    /\ UNCHANGED status

Next ==
    \/ \E t \in Texts : Accept(t)
    \/ Settle
    \/ \E p \in Peers, t \in Texts : Hear(p, t)

Spec == Init /\ [][Next]_vars

=============================================================================
