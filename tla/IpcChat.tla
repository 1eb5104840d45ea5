------------------------------ MODULE IpcChat ------------------------------
(***************************************************************************)
(* The chat window in client/tui.py and the daemon it is connected to:     *)
(* commands and their replies (server/bitchatd/api/server.py,              *)
(* SessionManager._dispatch_command), events, and the ticks that receipts  *)
(* put behind the rows of the chats.                                       *)
(*                                                                         *)
(* Each direction of the socket, with the queue between the window's two   *)
(* threads, is one queue of lines.  The server reads a command when it has *)
(* replied to the one before.  A message is its own msg_id.                *)
(***************************************************************************)
EXTENDS Naturals, Sequences

CONSTANTS
    None,
    Chats,       \* the peers, and the global chat
    Typed,       \* messages the user may type
    Autos,       \* messages the daemon may send by itself
    Place,       \* the chat each message is in
    Files,       \* those of Typed that are files
    Broadcasts,  \* those of Typed for everybody
    MaxRows,     \* rows a chat keeps
    MaxOthers,   \* bound: rows that are nobody's message
    MaxLines     \* bound: lines on their way when an event is published

Messages == Typed \cup Autos

ASSUME MessageAssumption ==
    /\ Place \in [Messages -> Chats]
    /\ Files \subseteq Typed /\ Broadcasts \subseteq Typed /\ Typed \cap Autos = {}
    /\ None \notin Messages
ASSUME RowAssumption ==
    /\ MaxRows \in Nat \ {0} /\ MaxOthers \in Nat /\ MaxLines \in Nat
    /\ None \notin [chat : Chats, idx : 1 .. MaxRows]

VARIABLES
    chats,       \* rows of each chat
    ackPending,  \* _ack_pending
    uuidToLoc,   \* _uuid_to_loc
    commands,    \* commands on their way
    lines,       \* replies and events on their way
    typed,       \* what was typed
    sent,        \* what the daemon said ok to, or sent by itself
    failed,      \* what it answered with an error
    receipts,    \* what the phones acknowledged
    others       \* rows of others' messages announced

window == <<chats, ackPending, uuidToLoc>>
daemon == <<sent, failed, receipts, others>>
vars == <<window, commands, lines, typed, daemon>>

-----------------------------------------------------------------------------
(* Rows                                                                    *)

Kept(rows) ==
    IF Len(rows) > MaxRows THEN SubSeq(rows, Len(rows) - MaxRows + 1, Len(rows)) ELSE rows

NewRow(m) == [msg |-> m, tick |-> "none"]

(* _add_msg                                                                *)
AddMsg(c, m) == chats' = [chats EXCEPT ![c] = Kept(Append(@, NewRow(m)))]

LastRow(c) == [chat |-> c, idx |-> Len(chats'[c])]

-----------------------------------------------------------------------------
(* The user and the daemon                                                 *)

(* _send_input: the row is there at once; its place waits for a msg_id,    *)
(* which a broadcast has no use for.                                       *)
SendInput(m) ==
    /\ m \in Typed \ typed
    /\ typed' = typed \cup {m}
    /\ AddMsg(Place[m], m)
    /\ ackPending' = IF m \in Broadcasts THEN ackPending ELSE Append(ackPending, LastRow(Place[m]))
    /\ commands' = Append(commands, m)
    /\ UNCHANGED <<uuidToLoc, lines, daemon>>

Say(kind, m) == lines' = Append(lines, [kind |-> kind, msg |-> m])

(* The handler sends or queues the message and the reply has its msg_id;   *)
(* or there is no session for a file, a text is too long, the handler      *)
(* raises.  (The echo of a message typed here changes nothing.)            *)
HandleCommand ==
    /\ commands # <<>>
    /\ commands' = Tail(commands)
    /\ LET m == Head(commands)
       IN  \/ Say("ok", m) /\ sent' = sent \cup {m} /\ UNCHANGED failed
           \/ Say("error", None) /\ failed' = failed \cup {m} /\ UNCHANGED sent
    /\ UNCHANGED <<window, typed, receipts, others>>

(* The daemon tells a sender of its own accord that a transfer failed.     *)
AutoReply(m) ==
    /\ m \in Autos \ sent /\ Len(lines) < MaxLines
    /\ sent' = sent \cup {m}
    /\ Say("auto", m)
    /\ UNCHANGED <<window, commands, typed, failed, receipts, others>>

(* A phone acknowledges a message, in whatever order.                      *)
Acknowledge(m, tick) ==
    /\ m \in sent \ Broadcasts /\ <<m, tick>> \notin receipts /\ Len(lines) < MaxLines
    /\ receipts' = receipts \cup {<<m, tick>>}
    /\ Say(tick, m)
    /\ UNCHANGED <<window, commands, typed, sent, failed, others>>

(* Somebody else's message; or a file, or news of a transfer.              *)
OtherMessage ==
    /\ others < MaxOthers /\ Len(lines) < MaxLines
    /\ others' = others + 1
    /\ \E kind \in {"other", "notice"} : Say(kind, None)
    /\ UNCHANGED <<window, commands, typed, sent, failed, receipts>>

-----------------------------------------------------------------------------
(* _handle_ipc_event                                                       *)

(* Mutant: the reply is for the last row.                                  *)
AckedLast(q) == [loc |-> q[Len(q)], rest |-> SubSeq(q, 1, Len(q) - 1)]

(* Mutant: the row goes on waiting.                                        *)
AckedKept(q) == [loc |-> Head(q), rest |-> q]

Acked(q) == [loc |-> Head(q), rest |-> Tail(q)]

(* A msg_id goes to the row that has waited longest.                       *)
AssignId(m) ==
    IF ackPending = <<>>
    THEN UNCHANGED window
    ELSE /\ uuidToLoc' = [uuidToLoc EXCEPT ![m] = Acked(ackPending).loc]
         /\ ackPending' = Acked(ackPending).rest
         /\ UNCHANGED chats

ShowAuto(m) ==
    /\ AddMsg(Place[m], m)
    /\ uuidToLoc' = [uuidToLoc EXCEPT ![m] = LastRow(Place[m])]
    /\ UNCHANGED ackPending

(* Mutant: every receipt leaves the msg_id where it is.                    *)
LocAfterKept(m, tick) == uuidToLoc

LocAfter(m, tick) == IF tick = "read" THEN [uuidToLoc EXCEPT ![m] = None] ELSE uuidToLoc

(* A row of a file gets no tick.                                           *)
ShowTick(m, tick) ==
    /\ uuidToLoc' = LocAfter(m, tick)
    /\ LET loc == uuidToLoc[m]
       IN  IF loc = None
           THEN UNCHANGED chats
           ELSE IF loc.idx <= Len(chats[loc.chat]) /\ chats[loc.chat][loc.idx].msg \notin Files
                THEN chats' = [chats EXCEPT ![loc.chat][loc.idx].tick = tick]
                ELSE UNCHANGED chats
    /\ UNCHANGED ackPending

AddNobodys(c) == AddMsg(c, None) /\ UNCHANGED <<ackPending, uuidToLoc>>

(* Somebody else's message, in the chat with them or the global one.       *)
ShowOther == \E c \in Chats : AddNobodys(c)

(* An error, in the chat that is open.  It takes no row off _ack_pending.  *)
ShowError == \E c \in Chats : AddNobodys(c)

(* A file is announced in two rows; what became of a transfer in two, in   *)
(* one or, when the daemon tells the sender or it is complete, in none.    *)
ShowNotice ==
    \/ UNCHANGED window
    \/ \E c \in Chats : AddNobodys(c)
    \/ /\ \E c \in Chats :
              chats' = [chats EXCEPT ![c] = Kept(@ \o <<NewRow(None), NewRow(None)>>)]
       /\ UNCHANGED <<ackPending, uuidToLoc>>

HandleIpcEvent ==
    /\ lines # <<>>
    /\ lines' = Tail(lines)
    /\ LET l == Head(lines)
       IN  \/ l.kind = "ok" /\ AssignId(l.msg)
           \/ l.kind = "error" /\ ShowError
           \/ l.kind = "other" /\ ShowOther
           \/ l.kind = "notice" /\ ShowNotice
           \/ l.kind = "auto" /\ ShowAuto(l.msg)
           \/ l.kind \in {"delivered", "read"} /\ ShowTick(l.msg, l.kind)
    /\ UNCHANGED <<commands, typed, daemon>>

-----------------------------------------------------------------------------

Init ==
    /\ chats = [c \in Chats |-> <<>>] /\ ackPending = <<>>
    /\ uuidToLoc = [m \in Messages |-> None]
    /\ commands = <<>> /\ lines = <<>>
    /\ typed = {} /\ sent = {} /\ failed = {} /\ receipts = {} /\ others = 0

Next ==
    \/ \E m \in Typed : SendInput(m)
    \/ \E m \in Autos : AutoReply(m)
    \/ \E m \in Messages, tick \in {"delivered", "read"} : Acknowledge(m, tick)
    \/ HandleCommand \/ OtherMessage \/ HandleIpcEvent

Spec == Init /\ [][Next]_vars

-----------------------------------------------------------------------------

Rows == {r \in Chats \X (1 .. MaxRows) : r[2] <= Len(chats[r[1]])}
Row(r) == chats[r[1]][r[2]]

TypeOK ==
    /\ \A c \in Chats : Len(chats[c]) <= MaxRows
    /\ \A r \in Rows : Row(r) \in [msg : Messages \cup {None}, tick : {"none", "delivered", "read"}]
    /\ \A i \in DOMAIN ackPending : ackPending[i] \in [chat : Chats, idx : 1 .. MaxRows]
    /\ uuidToLoc \in [Messages -> [chat : Chats, idx : 1 .. MaxRows] \cup {None}]

(* Replies answer the rows in the order these were typed as long as no     *)
(* reply is an error, which takes no row, and none is a broadcast's, which *)
(* takes one that is not its own.                                          *)
Undisturbed == failed = {} /\ typed \cap Broadcasts = {}

(* A tick means what it says: the very message of its row was delivered,   *)
(* or read.                                                                *)
TicksTruthful ==
    Undisturbed => \A r \in Rows : Row(r).tick # "none" => <<Row(r).msg, Row(r).tick>> \in receipts

(* And none is missing: once everything has arrived, every text whose      *)
(* receipts came is ticked, as read when it was read, though the receipts  *)
(* may have come in the other order.                                       *)
TicksComplete ==
    Undisturbed /\ lines = <<>> =>
        \A r \in Rows :
            LET m == Row(r).msg
            IN  /\ <<m, "read">> \in receipts /\ m \notin Files => Row(r).tick = "read"
                /\ <<m, "delivered">> \in receipts /\ m \notin Files => Row(r).tick # "none"

(* Whatever fails, two messages never share a row, until a chat outgrows   *)
(* MaxRows and is trimmed, which moves its rows and not the places.        *)
IdsApart ==
    \A m, n \in Messages : uuidToLoc[m] # None /\ uuidToLoc[m] = uuidToLoc[n] => m = n

=============================================================================
