------------------------------ MODULE IpcProofs ------------------------------
(***************************************************************************)
(* That the ticks of the chat window are true and none is missing, and no  *)
(* two messages share a row, as long as no chat has lost a row to its      *)
(* limit: for any number of chats, messages and lines on their way.  And,  *)
(* from "The tasks and the lines of a queue" on, that what publish sends   *)
(* to many clients reaches each once and in order, and that the peers a    *)
(* window shows are the daemon's: for any number of clients and events.    *)
(***************************************************************************)
EXTENDS IpcChat, IpcFanout, SequenceTheorems, NaturalsInduction, WellFoundedInduction, TLAPS

-----------------------------------------------------------------------------
(* Queues.                                                                 *)

(* What stays where it is when something is put behind a queue.            *)
Longer(q, r, e) ==
    /\ DOMAIN r = DOMAIN q \cup {Len(q) + 1} /\ Len(q) + 1 \notin DOMAIN q
    /\ DOMAIN q \subseteq Nat /\ Len(q) + 1 \in Nat
    /\ \A i \in DOMAIN q : i < Len(q) + 1 /\ r[i] = q[i]
    /\ r[Len(q) + 1] = e

LEMMA AppendFacts ==
    ASSUME NEW S, NEW q \in Seq(S), NEW e \in S
    PROVE  Append(q, e) \in Seq(S) /\ Longer(q, Append(q, e), e)
  BY DEF Longer

(* And where everything is when the first of it is taken.                  *)
Shorter(q, r) ==
    /\ 1 \in DOMAIN q /\ DOMAIN q \subseteq Nat /\ DOMAIN r \subseteq Nat
    /\ \A i \in DOMAIN q : i >= 1 /\ (i # 1 => i - 1 \in DOMAIN r /\ r[i - 1] = q[i])
    /\ \A i \in DOMAIN r : i >= 1 /\ i + 1 \in DOMAIN q /\ r[i] = q[i + 1]

LEMMA TailFacts ==
    ASSUME NEW S, NEW q \in Seq(S), q # <<>>
    PROVE  /\ Tail(q) \in Seq(S) /\ Shorter(q, Tail(q))
           /\ Head(q) = q[1] /\ Head(q) \in S
  BY HeadTailProperties DEF Shorter

-----------------------------------------------------------------------------
(* The chat window.                                                        *)

Ticks == {"delivered", "read"}
RowType == [msg : Messages \cup {None}, tick : {"none"} \cup Ticks]
LocType == [chat : Chats, idx : 1 .. MaxRows]
LineType == [kind : {"ok", "error", "auto", "other", "notice"} \cup Ticks, msg : Messages \cup {None}]

(* No chat is full: no row was ever trimmed away and none moved.           *)
Untrimmed == \A c \in Chats : Len(chats[c]) < MaxRows

ChatShaped ==
    /\ chats \in [Chats -> Seq(RowType)]
    /\ \A c \in Chats : Len(chats[c]) <= MaxRows
    /\ ackPending \in Seq(LocType)
    /\ uuidToLoc \in [Messages -> LocType \cup {None}]
    /\ commands \in Seq(Typed)
    /\ lines \in Seq(LineType)
    /\ \A i \in DOMAIN lines :
          /\ lines[i].kind = "ok" => lines[i].msg \in Typed
          /\ lines[i].kind = "auto" => lines[i].msg \in Autos
          /\ lines[i].kind \in Ticks => lines[i].msg \in Messages
    /\ typed \subseteq Typed /\ sent \subseteq Messages /\ failed \subseteq Typed
    /\ receipts \subseteq Messages \X Ticks
    /\ others \in Nat

-----------------------------------------------------------------------------
(* Types.                                                                  *)

LEMMA KeptType ==
    ASSUME NEW rows \in Seq(RowType)
    PROVE  /\ Kept(rows) \in Seq(RowType) /\ Len(Kept(rows)) <= MaxRows
           /\ Len(rows) > 0 => Len(Kept(rows)) \in 1 .. MaxRows
           /\ Len(Kept(rows)) < MaxRows => Kept(rows) = rows
<1>1. CASE Len(rows) > MaxRows
  <2>1. Kept(rows) = SubSeq(rows, Len(rows) - MaxRows + 1, Len(rows))
    BY <1>1 DEF Kept
  <2>2. \A i \in Len(rows) - MaxRows + 1 .. Len(rows) : rows[i] \in RowType
    BY <1>1, RowAssumption
  <2>3. Kept(rows) \in Seq(RowType) /\ Len(Kept(rows)) = MaxRows
    BY <1>1, <2>1, <2>2, SubSeqProperties, RowAssumption
  <2>4. QED
    BY <1>1, <2>3, RowAssumption
<1>2. CASE ~(Len(rows) > MaxRows)
  BY <1>2, RowAssumption DEF Kept
<1>3. QED
  BY <1>1, <1>2

LEMMA NewRowType ==
    ASSUME NEW m \in Messages \cup {None}
    PROVE  NewRow(m) \in RowType
  BY DEF NewRow, RowType

(* The chat that gets the rows, the only one that changes.                 *)
LEMMA RowsPut ==
    ASSUME ChatShaped, NEW c \in Chats, NEW rows \in Seq(RowType), Len(rows) > 0,
           chats' = [chats EXCEPT ![c] = Kept(@ \o rows)]
    PROVE  /\ chats' \in [Chats -> Seq(RowType)]
           /\ \A d \in Chats : Len(chats'[d]) <= MaxRows
           /\ Len(chats'[c]) \in 1 .. MaxRows
<1> DEFINE all == chats[c] \o rows
<1>1. chats[c] \in Seq(RowType) /\ Len(chats[c]) \in Nat
  BY DEF ChatShaped
<1>2. all \in Seq(RowType) /\ Len(all) > 0
  BY <1>1, ConcatProperties
<1>3. /\ Kept(all) \in Seq(RowType) /\ Len(Kept(all)) <= MaxRows
      /\ Len(Kept(all)) \in 1 .. MaxRows
  BY <1>2, KeptType
<1>4. chats' = [chats EXCEPT ![c] = Kept(all)]
  OBVIOUS
<1> HIDE DEF all
<1>5. QED
  BY <1>3, <1>4 DEF ChatShaped

LEMMA RowPut ==
    ASSUME ChatShaped, NEW c \in Chats, NEW m \in Messages \cup {None}, AddMsg(c, m)
    PROVE  /\ chats' \in [Chats -> Seq(RowType)]
           /\ \A d \in Chats : Len(chats'[d]) <= MaxRows
           /\ LastRow(c) \in LocType
<1> DEFINE one == <<NewRow(m)>>
<1>1. NewRow(m) \in RowType /\ chats[c] \in Seq(RowType)
  BY NewRowType DEF ChatShaped
<1>2. one \in Seq(RowType) /\ Len(one) > 0 /\ Append(chats[c], NewRow(m)) = chats[c] \o one
  BY <1>1
<1>3. chats' = [chats EXCEPT ![c] = Kept(@ \o one)]
  BY <1>2 DEF AddMsg
<1> HIDE DEF one
<1>4. /\ chats' \in [Chats -> Seq(RowType)]
      /\ \A d \in Chats : Len(chats'[d]) <= MaxRows
      /\ Len(chats'[c]) \in 1 .. MaxRows
  BY <1>2, <1>3, RowsPut
<1>5. QED
  BY <1>4 DEF LastRow, LocType

LEMMA ShapedSendInput ==
    ASSUME ChatShaped, NEW m \in Typed, SendInput(m)
    PROVE  ChatShaped'
<1>1. m \in Messages /\ Place[m] \in Chats
  BY MessageAssumption DEF Messages
<1>2. /\ chats' \in [Chats -> Seq(RowType)]
      /\ \A d \in Chats : Len(chats'[d]) <= MaxRows
      /\ LastRow(Place[m]) \in LocType
  BY <1>1, RowPut DEF SendInput
<1>3. ackPending' \in Seq(LocType)
  BY <1>2, AppendFacts DEF SendInput, ChatShaped
<1>4. commands' \in Seq(Typed)
  BY AppendFacts DEF SendInput, ChatShaped
<1>5. QED
  BY <1>2, <1>3, <1>4 DEF SendInput, ChatShaped, daemon

(* What a line on its way is about.                                        *)
LineWell(l) ==
    /\ l \in LineType
    /\ l.kind = "ok" => l.msg \in Typed
    /\ l.kind = "auto" => l.msg \in Autos
    /\ l.kind \in Ticks => l.msg \in Messages

LEMMA ShapedSay ==
    ASSUME ChatShaped, NEW kind, NEW m, Say(kind, m), LineWell([kind |-> kind, msg |-> m]),
           UNCHANGED window,
           commands' = commands \/ (commands' = Tail(commands) /\ commands # <<>>),
           typed' \subseteq Typed, sent' \subseteq Messages, failed' \subseteq Typed,
           receipts' \subseteq Messages \X Ticks, others' \in Nat
    PROVE  ChatShaped'
<1> DEFINE l == [kind |-> kind, msg |-> m]
<1>1. lines' = Append(lines, l) /\ LineWell(l)
  BY DEF Say
<1> HIDE DEF l
<1>2. l \in LineType
  BY <1>1 DEF LineWell
<1>3. lines' \in Seq(LineType) /\ Longer(lines, lines', l)
  BY <1>1, <1>2, AppendFacts DEF ChatShaped
<1>4. \A i \in DOMAIN lines' : lines'[i] = l \/ (i \in DOMAIN lines /\ lines'[i] = lines[i])
  BY <1>3 DEF Longer
<1>5. \A i \in DOMAIN lines' : /\ lines'[i].kind = "ok" => lines'[i].msg \in Typed
                               /\ lines'[i].kind = "auto" => lines'[i].msg \in Autos
                               /\ lines'[i].kind \in Ticks => lines'[i].msg \in Messages
  BY <1>1, <1>4 DEF ChatShaped, LineWell
<1>6. commands' \in Seq(Typed)
  BY TailFacts DEF ChatShaped
<1>7. QED
  BY <1>3, <1>5, <1>6 DEF ChatShaped, window

LEMMA ShapedHandleCommand ==
    ASSUME ChatShaped, HandleCommand
    PROVE  ChatShaped'
<1> DEFINE m == Head(commands)
<1>1. commands # <<>> /\ m \in Typed /\ m \in Messages
  BY TailFacts DEF ChatShaped, HandleCommand, Messages
<1>2. CASE Say("ok", m) /\ sent' = sent \cup {m} /\ UNCHANGED failed
  <2>1. LineWell([kind |-> "ok", msg |-> m])
    BY <1>1 DEF LineWell, LineType, Ticks
  <2>2. QED
    BY <1>1, <1>2, <2>1, ShapedSay DEF ChatShaped, HandleCommand
<1>3. CASE Say("error", None) /\ failed' = failed \cup {m} /\ UNCHANGED sent
  <2>1. LineWell([kind |-> "error", msg |-> None])
    BY DEF LineWell, LineType, Ticks
  <2>2. QED
    BY <1>1, <1>3, <2>1, ShapedSay DEF ChatShaped, HandleCommand
<1>4. QED
  BY <1>2, <1>3 DEF HandleCommand

LEMMA ShapedAutoReply ==
    ASSUME ChatShaped, NEW m \in Autos, AutoReply(m)
    PROVE  ChatShaped'
<1>1. LineWell([kind |-> "auto", msg |-> m])
  BY DEF LineWell, LineType, Ticks, Messages
<1>2. QED
  BY <1>1, ShapedSay DEF ChatShaped, AutoReply, Messages

LEMMA ShapedAcknowledge ==
    ASSUME ChatShaped, NEW m \in Messages, NEW tick \in Ticks, Acknowledge(m, tick)
    PROVE  ChatShaped'
<1>1. LineWell([kind |-> tick, msg |-> m])
  BY DEF LineWell, LineType, Ticks
<1>2. receipts' \subseteq Messages \X Ticks
  BY DEF ChatShaped, Acknowledge
<1>3. QED
  BY <1>1, <1>2, ShapedSay DEF ChatShaped, Acknowledge

LEMMA ShapedOtherMessage ==
    ASSUME ChatShaped, OtherMessage
    PROVE  ChatShaped'
<1>1. PICK kind \in {"other", "notice"} : Say(kind, None)
  BY DEF OtherMessage
<1>2. LineWell([kind |-> kind, msg |-> None])
  BY DEF LineWell, LineType, Ticks
<1>3. others' \in Nat
  BY DEF ChatShaped, OtherMessage
<1>4. /\ UNCHANGED window /\ commands' = commands
      /\ typed' = typed /\ sent' = sent /\ failed' = failed /\ receipts' = receipts
  BY DEF OtherMessage
<1>5. QED
  BY <1>1, <1>2, <1>3, <1>4, ShapedSay DEF ChatShaped

(* What the window shows.                                                  *)
LEMMA ShapedAssignId ==
    ASSUME ChatShaped, NEW m \in Messages, AssignId(m)
    PROVE  /\ chats' = chats /\ ackPending' \in Seq(LocType)
           /\ uuidToLoc' \in [Messages -> LocType \cup {None}]
<1>1. CASE ackPending = <<>>
  BY <1>1 DEF AssignId, window, ChatShaped
<1>2. CASE ackPending # <<>>
  <2>1. Head(ackPending) \in LocType /\ Tail(ackPending) \in Seq(LocType)
    BY <1>2, TailFacts DEF ChatShaped
  <2>2. QED
    BY <1>2, <2>1 DEF AssignId, Acked, ChatShaped
<1>3. QED
  BY <1>1, <1>2

LEMMA ShapedShowTick ==
    ASSUME ChatShaped, NEW m \in Messages, NEW tick \in Ticks, ShowTick(m, tick)
    PROVE  /\ ackPending' = ackPending
           /\ uuidToLoc' \in [Messages -> LocType \cup {None}]
           /\ chats' \in [Chats -> Seq(RowType)]
           /\ \A c \in Chats : Len(chats'[c]) = Len(chats[c])
<1> DEFINE loc == uuidToLoc[m]
<1>1. uuidToLoc' \in [Messages -> LocType \cup {None}]
  BY DEF ShowTick, LocAfter, ChatShaped
<1>2. CASE chats' = chats
  BY <1>1, <1>2 DEF ShowTick, ChatShaped
<1>3. CASE /\ loc # None /\ loc.idx <= Len(chats[loc.chat])
           /\ chats' = [chats EXCEPT ![loc.chat][loc.idx].tick = tick]
  <2> DEFINE c == loc.chat
             i == loc.idx
             row == [chats[c][i] EXCEPT !.tick = tick]
             rows == [chats[c] EXCEPT ![i] = row]
  <2>1. c \in Chats /\ i \in 1 .. MaxRows /\ chats[c] \in Seq(RowType)
    BY <1>3 DEF ChatShaped, LocType
  <2>2. i \in 1 .. Len(chats[c]) /\ chats[c][i] \in RowType
    BY <1>3, <2>1
  <2>3. row \in RowType
    BY <2>2 DEF RowType
  <2>4. chats' = [chats EXCEPT ![c] = rows]
    BY <1>3
  <2> HIDE DEF row
  <2>5. rows \in Seq(RowType) /\ Len(rows) = Len(chats[c])
    BY <2>1, <2>2, <2>3, ExceptSeq
  <2> HIDE DEF c, i, rows
  <2>6. QED
    BY <1>1, <2>1, <2>4, <2>5 DEF ShowTick, ChatShaped
<1>4. QED
  BY <1>2, <1>3 DEF ShowTick

LEMMA ShapedNobodys ==
    ASSUME ChatShaped, NEW c \in Chats, AddNobodys(c)
    PROVE  /\ chats' \in [Chats -> Seq(RowType)]
           /\ \A d \in Chats : Len(chats'[d]) <= MaxRows
           /\ UNCHANGED <<ackPending, uuidToLoc>>
  BY RowPut DEF AddNobodys

LEMMA ShapedNotice ==
    ASSUME ChatShaped, ShowNotice
    PROVE  /\ chats' \in [Chats -> Seq(RowType)]
           /\ \A d \in Chats : Len(chats'[d]) <= MaxRows
           /\ UNCHANGED <<ackPending, uuidToLoc>>
<1> DEFINE two == <<NewRow(None), NewRow(None)>>
<1>1. two \in Seq(RowType) /\ Len(two) > 0
  BY NewRowType
<1>2. ASSUME NEW c \in Chats, chats' = [chats EXCEPT ![c] = Kept(@ \o two)]
      PROVE  /\ chats' \in [Chats -> Seq(RowType)]
             /\ \A d \in Chats : Len(chats'[d]) <= MaxRows
  <2> HIDE DEF two
  <2>1. QED
    BY <1>1, <1>2, RowsPut
<1>3. CASE UNCHANGED window
  BY <1>3 DEF window, ChatShaped
<1>4. CASE \E c \in Chats : AddNobodys(c)
  BY <1>4, ShapedNobodys
<1>5. QED
  BY <1>2, <1>3, <1>4 DEF ShowNotice

LEMMA ShapedHandleIpcEvent ==
    ASSUME ChatShaped, HandleIpcEvent
    PROVE  ChatShaped'
<1> DEFINE l == Head(lines)
<1>1. lines' \in Seq(LineType) /\ Shorter(lines, lines') /\ l = lines[1]
  BY TailFacts DEF ChatShaped, HandleIpcEvent
<1>2. \A i \in DOMAIN lines' : /\ lines'[i].kind = "ok" => lines'[i].msg \in Typed
                               /\ lines'[i].kind = "auto" => lines'[i].msg \in Autos
                               /\ lines'[i].kind \in Ticks => lines'[i].msg \in Messages
  BY <1>1 DEF ChatShaped, Shorter
<1>3. /\ l.kind = "ok" => l.msg \in Messages
      /\ l.kind = "auto" => l.msg \in Autos /\ l.msg \in Messages
      /\ l.kind \in Ticks => l.msg \in Messages
  BY <1>1 DEF ChatShaped, Shorter, Messages
<1> HIDE DEF l
<1>4. /\ chats' \in [Chats -> Seq(RowType)]
      /\ \A c \in Chats : Len(chats'[c]) <= MaxRows
      /\ ackPending' \in Seq(LocType)
      /\ uuidToLoc' \in [Messages -> LocType \cup {None}]
  <2>1. CASE l.kind = "ok" /\ AssignId(l.msg)
    BY <1>3, <2>1, ShapedAssignId DEF ChatShaped
  <2>2. CASE ShowError \/ ShowOther
    BY <2>2, ShapedNobodys DEF ShowError, ShowOther, ChatShaped
  <2>3. CASE ShowNotice
    BY <2>3, ShapedNotice DEF ChatShaped
  <2>4. CASE l.kind = "auto" /\ ShowAuto(l.msg)
    <3>1. Place[l.msg] \in Chats /\ l.msg \in Messages
      BY <1>3, <2>4, MessageAssumption
    <3>2. QED
      BY <2>4, <3>1, RowPut DEF ShowAuto, ChatShaped
  <2>5. CASE l.kind \in {"delivered", "read"} /\ ShowTick(l.msg, l.kind)
    BY <1>3, <2>5, ShapedShowTick DEF ChatShaped, Ticks
  <2> QED BY <2>1, <2>2, <2>3, <2>4, <2>5 DEF HandleIpcEvent, l
<1>5. QED
  BY <1>1, <1>2, <1>4 DEF HandleIpcEvent, ChatShaped, daemon

LEMMA ShapedNext ==
    ASSUME ChatShaped, [Next]_vars
    PROVE  ChatShaped'
<1>1. CASE UNCHANGED vars
  BY <1>1 DEF vars, window, daemon, ChatShaped
<1>2. CASE \E m \in Typed : SendInput(m)
  BY <1>2, ShapedSendInput
<1>3. CASE \E m \in Autos : AutoReply(m)
  BY <1>3, ShapedAutoReply
<1>4. CASE \E m \in Messages, tick \in {"delivered", "read"} : Acknowledge(m, tick)
  BY <1>4, ShapedAcknowledge DEF Ticks
<1>5. QED
  BY <1>1, <1>2, <1>3, <1>4, ShapedHandleCommand, ShapedOtherMessage, ShapedHandleIpcEvent
     DEF Next

LEMMA ShapedInit == Init => ChatShaped
  BY RowAssumption DEF Init, ChatShaped

LEMMA ShapedAlways == Spec => []ChatShaped
<1>1. Init => ChatShaped
  BY ShapedInit
<1>2. ChatShaped /\ [Next]_vars => ChatShaped'
  BY ShapedNext
<1>3. QED
  BY <1>1, <1>2, PTL DEF Spec

(* The state of the window and of what is on its way to it is well formed, *)
(* however long the chats grow: no receipt or reply of _handle_ipc_event   *)
(* is put where there can be no row.                                       *)
THEOREM ChatTypeCorrect == Spec => []TypeOK
<1>1. ChatShaped => TypeOK
  <2> SUFFICES ASSUME ChatShaped PROVE TypeOK
    OBVIOUS
  <2>1. \A r \in Rows : Row(r) \in RowType
    BY DEF Rows, Row, ChatShaped
  <2>2. \A i \in DOMAIN ackPending : ackPending[i] \in LocType
    BY DEF ChatShaped
  <2>3. QED
    BY <2>1, <2>2 DEF TypeOK, ChatShaped, RowType, LocType, Ticks
<1>2. QED
  BY <1>1, ShapedAlways, PTL

(* A place that waits for an id, or that an id leads to, is a row there is;*)
(* and there is one claim to it.                                           *)
RowThere(loc) == <<loc.chat, loc.idx>> \in Rows

PlacesApart ==
    /\ \A i \in DOMAIN ackPending : RowThere(ackPending[i])
    /\ \A m \in Messages : uuidToLoc[m] # None => RowThere(uuidToLoc[m])
    /\ \A i, j \in DOMAIN ackPending : ackPending[i] = ackPending[j] => i = j
    /\ \A i \in DOMAIN ackPending, m \in Messages : uuidToLoc[m] # None => uuidToLoc[m] # ackPending[i]
    /\ IdsApart

-----------------------------------------------------------------------------
(* While nothing has failed and nothing was broadcast.                     *)

MsgAt(loc) == Row(<<loc.chat, loc.idx>>).msg
Waits(i) == MsgAt(ackPending[i])
Leads(m) == MsgAt(uuidToLoc[m])

IsOk(i) == i \in DOMAIN lines /\ lines[i].kind = "ok"
Introduces(i, m) == i \in DOMAIN lines /\ lines[i].kind \in {"ok", "auto"} /\ lines[i].msg = m
Ticked(i, m, k) == i \in DOMAIN lines /\ lines[i].kind = k /\ lines[i].msg = m

(* Each message has one row, if it was typed or has been shown.            *)
RowOnce  == \A r, s \in Rows : Row(r).msg = Row(s).msg /\ Row(r).msg # None => r = s
RowTyped == \A r \in Rows : Row(r).msg \in Typed => Row(r).msg \in typed
RowAuto  ==
    \A r \in Rows : Row(r).msg \in Autos =>
        Row(r).msg \in sent /\ \A i \in DOMAIN lines : ~Introduces(i, Row(r).msg)

RowsOnce == RowOnce /\ RowTyped /\ RowAuto

(* What was typed is among the commands, then among the replies, once.     *)
CommandsUnsent == \A j \in DOMAIN commands : commands[j] \in typed \ sent
CommandsOnce   == \A i, j \in DOMAIN commands : commands[i] = commands[j] => i = j
RepliesSent    == \A i \in DOMAIN lines : lines[i].kind \in {"ok", "auto"} => lines[i].msg \in sent
RepliesOnce    == \A i, j \in DOMAIN lines, m \in Messages : Introduces(i, m) /\ Introduces(j, m) => i = j
SentTyped      == sent \cap Typed \subseteq typed

TypedOnce == CommandsUnsent /\ CommandsOnce /\ RepliesSent /\ RepliesOnce /\ SentTyped

(* The rows that wait are those of the replies and commands under way, and *)
(* wait in the order of these.                                             *)
WaitsForSome ==
    \A a \in DOMAIN ackPending :
        \/ \E i \in DOMAIN lines : IsOk(i) /\ lines[i].msg = Waits(a)
        \/ \E j \in DOMAIN commands : commands[j] = Waits(a)
RepliesAwaited  == \A i \in DOMAIN lines : IsOk(i) => \E a \in DOMAIN ackPending : Waits(a) = lines[i].msg
CommandsAwaited == \A j \in DOMAIN commands : \E a \in DOMAIN ackPending : Waits(a) = commands[j]
RepliesInOrder  ==
    \A a, b \in DOMAIN ackPending, i, j \in DOMAIN lines :
        IsOk(i) /\ IsOk(j) /\ i < j /\ Waits(a) = lines[i].msg /\ Waits(b) = lines[j].msg => a < b
CommandsInOrder ==
    \A a, b \in DOMAIN ackPending, i, j \in DOMAIN commands :
        i < j /\ Waits(a) = commands[i] /\ Waits(b) = commands[j] => a < b
RepliesFirst    ==
    \A a, b \in DOMAIN ackPending, i \in DOMAIN lines, j \in DOMAIN commands :
        IsOk(i) /\ Waits(a) = lines[i].msg /\ Waits(b) = commands[j] => a < b

WaitingInOrder ==
    /\ WaitsForSome /\ RepliesAwaited /\ CommandsAwaited
    /\ RepliesInOrder /\ CommandsInOrder /\ RepliesFirst

(* An id leads to the row of its message; it does so from the reply that   *)
(* brings it to the receipt that it was read, which come in this order.    *)
LeadsRight   == \A m \in Messages : uuidToLoc[m] # None => Leads(m) = m /\ m \in sent
SentReached  ==
    \A m \in sent :
        \/ uuidToLoc[m] # None
        \/ \E i \in DOMAIN lines : Introduces(i, m)
        \/ <<m, "read">> \in receipts /\ \A i \in DOMAIN lines : ~Ticked(i, m, "read")
IdsFirst     ==
    \A m \in Messages, i, j \in DOMAIN lines, k \in Ticks : Introduces(i, m) /\ Ticked(j, m, k) => i < j
IdsToCome    ==
    \A m \in Messages, i \in DOMAIN lines : Introduces(i, m) =>
        /\ uuidToLoc[m] = None
        /\ \A k \in Ticks : <<m, k>> \in receipts => \E j \in DOMAIN lines : Ticked(j, m, k)

IdsLead == LeadsRight /\ SentReached /\ IdsFirst /\ IdsToCome

(* A receipt is under way or shown; nothing else is shown.                 *)
ReceiptsSent   == \A m \in Messages, k \in Ticks : <<m, k>> \in receipts => m \in sent
TicksReceived  ==
    \A m \in Messages, k \in Ticks, i \in DOMAIN lines : Ticked(i, m, k) => <<m, k>> \in receipts
TicksOnce      ==
    \A m \in Messages, k \in Ticks, i, j \in DOMAIN lines : Ticked(i, m, k) /\ Ticked(j, m, k) => i = j
RowsReceived   == \A r \in Rows : Row(r).tick # "none" => <<Row(r).msg, Row(r).tick>> \in receipts
ReadShown      ==
    \A m \in Messages \ Files : <<m, "read">> \in receipts =>
        \/ \E i \in DOMAIN lines : Ticked(i, m, "read")
        \/ uuidToLoc[m] = None /\ \A r \in Rows : Row(r).msg = m => Row(r).tick = "read"
DeliveredShown ==
    \A m \in Messages \ Files : <<m, "delivered">> \in receipts =>
        \/ \E i \in DOMAIN lines : Ticked(i, m, "delivered")
        \/ \A r \in Rows : Row(r).msg = m => Row(r).tick # "none"

TicksExact ==
    ReceiptsSent /\ TicksReceived /\ TicksOnce /\ RowsReceived /\ ReadShown /\ DeliveredShown

-----------------------------------------------------------------------------
(* What a step does to the rows when no chat is full.                      *)

Grows(m) ==
    /\ Rows \subseteq Rows'
    /\ \A r \in Rows : Row(r)' = Row(r)
    /\ \A r \in Rows' \ Rows : Row(r)' = NewRow(m)
    /\ m # None => \A r, s \in Rows' \ Rows : r = s

LEMMA RowsAppended ==
    ASSUME ChatShaped, Untrimmed', NEW c \in Chats, NEW rows \in Seq(RowType),
           NEW m, \A i \in 1 .. Len(rows) : rows[i] = NewRow(m),
           chats' = [chats EXCEPT ![c] = Kept(@ \o rows)],
           m # None => Len(rows) = 1
    PROVE  /\ Grows(m)
           /\ Len(rows) = 1 => <<c, Len(chats'[c])>> \in Rows' \ Rows
<1> DEFINE all == chats[c] \o rows
           n == Len(chats[c])
<1>1. chats[c] \in Seq(RowType) /\ n \in Nat /\ Len(rows) \in Nat
  BY DEF ChatShaped
<1>2. /\ all \in Seq(RowType) /\ Len(all) = n + Len(rows)
      /\ \A i \in 1 .. n : all[i] = chats[c][i]
      /\ \A i \in n + 1 .. Len(all) : all[i] = NewRow(m)
  BY <1>1, ConcatProperties
<1> HIDE DEF all
<1>3. chats'[c] = Kept(all) /\ \A d \in Chats \ {c} : chats'[d] = chats[d]
  BY DEF all, ChatShaped
<1>4. Len(Kept(all)) < MaxRows
  BY <1>3 DEF Untrimmed
<1>5. chats'[c] = all
  BY <1>2, <1>3, <1>4, KeptType
<1>6. Len(all) < MaxRows
  BY <1>4, <1>3, <1>5
<1>7. Rows' = Rows \cup {<<c, i>> : i \in n + 1 .. Len(all)}
  <2>1. \A d \in Chats, i \in 1 .. MaxRows :
            <<d, i>> \in Rows' <=> <<d, i>> \in Rows \/ (d = c /\ i \in n + 1 .. Len(all))
    BY <1>1, <1>2, <1>3, <1>5, RowAssumption DEF Rows
  <2>2. Rows \subseteq Chats \X (1 .. MaxRows) /\ Rows' \subseteq Chats \X (1 .. MaxRows)
    BY DEF Rows
  <2>3. n + 1 .. Len(all) \subseteq 1 .. MaxRows
    BY <1>1, <1>2, <1>6, RowAssumption
  <2>4. QED
    BY <2>1, <2>2, <2>3
<1>8. \A i \in n + 1 .. Len(all) : <<c, i>> \notin Rows
  BY <1>1, <1>2 DEF Rows
<1>9. \A r \in Rows : Row(r)' = Row(r)
  <2> SUFFICES ASSUME NEW r \in Rows PROVE chats'[r[1]][r[2]] = chats[r[1]][r[2]]
    BY DEF Row
  <2>1. r[1] \in Chats /\ r[2] \in 1 .. MaxRows /\ r[2] <= Len(chats[r[1]])
    BY DEF Rows
  <2>2. QED
    BY <1>1, <1>2, <1>3, <1>5, <2>1
<1>10. \A r \in Rows' \ Rows : Row(r)' = NewRow(m)
  <2> SUFFICES ASSUME NEW r \in Rows' \ Rows PROVE chats'[r[1]][r[2]] = NewRow(m)
    BY DEF Row
  <2>1. r[1] = c /\ r[2] \in n + 1 .. Len(all)
    BY <1>7
  <2>2. QED
    BY <1>2, <1>5, <2>1
<1>11. Len(rows) = 1 => \A r, s \in Rows' \ Rows : r = s
  BY <1>1, <1>2, <1>7
<1>12. Len(rows) = 1 => <<c, Len(chats'[c])>> \in Rows' \ Rows
  BY <1>1, <1>2, <1>5, <1>7, <1>8
<1>13. Rows \subseteq Rows'
  BY <1>7
<1>14. QED
  BY <1>9, <1>10, <1>11, <1>12, <1>13 DEF Grows

LEMMA RowAdded ==
    ASSUME ChatShaped, Untrimmed', NEW c \in Chats, NEW m \in Messages \cup {None}, AddMsg(c, m)
    PROVE  Grows(m) /\ <<c, LastRow(c).idx>> \in Rows' \ Rows /\ LastRow(c).chat = c
<1> DEFINE one == <<NewRow(m)>>
<1>1. NewRow(m) \in RowType /\ chats[c] \in Seq(RowType)
  BY NewRowType DEF ChatShaped
<1>2. one \in Seq(RowType) /\ Len(one) = 1 /\ Append(chats[c], NewRow(m)) = chats[c] \o one
  BY <1>1
<1>3. chats' = [chats EXCEPT ![c] = Kept(@ \o one)] /\ \A i \in 1 .. Len(one) : one[i] = NewRow(m)
  BY <1>2 DEF AddMsg
<1> HIDE DEF one
<1>4. Grows(m) /\ <<c, Len(chats'[c])>> \in Rows' \ Rows
  BY <1>2, <1>3, RowsAppended
<1>5. QED
  BY <1>4 DEF LastRow

(* Rows that are nobody's message.                                         *)
LEMMA NoticeAdded ==
    ASSUME ChatShaped, Untrimmed', ShowNotice
    PROVE  Grows(None) /\ UNCHANGED <<ackPending, uuidToLoc>>
<1> DEFINE two == <<NewRow(None), NewRow(None)>>
<1>1. two \in Seq(RowType) /\ \A i \in 1 .. Len(two) : two[i] = NewRow(None)
  BY NewRowType
<1>2. ASSUME NEW c \in Chats, chats' = [chats EXCEPT ![c] = Kept(@ \o two)]
      PROVE  Grows(None)
  <2> HIDE DEF two
  <2>1. QED
    BY <1>1, <1>2, RowsAppended
<1>3. CASE UNCHANGED window
  <2>1. Rows' = Rows /\ \A r \in Rows : Row(r)' = Row(r)
    BY <1>3 DEF window, Rows, Row
  <2>2. QED
    BY <1>3, <2>1 DEF window, Grows
<1>4. CASE \E c \in Chats : AddNobodys(c)
  BY <1>4, RowAdded DEF AddNobodys
<1>5. QED
  BY <1>2, <1>3, <1>4 DEF ShowNotice

(* Nothing that is shown by a tick or put in the rows moves a row.         *)
LEMMA RowsSame ==
    ASSUME UNCHANGED chats
    PROVE  Rows' = Rows /\ \A r \in Rows : Row(r)' = Row(r)
  BY DEF Rows, Row

LEMMA RowTicked ==
    ASSUME ChatShaped, NEW m \in Messages, NEW tick \in Ticks, ShowTick(m, tick),
           uuidToLoc[m] # None => RowThere(uuidToLoc[m])
    PROVE  /\ Rows' = Rows
           /\ \A r \in Rows :
                 IF /\ uuidToLoc[m] # None /\ r = <<uuidToLoc[m].chat, uuidToLoc[m].idx>>
                    /\ Row(r).msg \notin Files
                 THEN Row(r)' = [msg |-> Row(r).msg, tick |-> tick]
                 ELSE Row(r)' = Row(r)
<1> DEFINE loc == uuidToLoc[m]
<1>1. Rows' = Rows
  BY ShapedShowTick DEF Rows
<1>2. CASE loc = None
  BY <1>1, <1>2, RowsSame DEF ShowTick
<1>3. CASE loc # None
  <2>1. PICK c \in Chats, i \in 1 .. MaxRows :
            c = loc.chat /\ i = loc.idx /\ <<c, i>> \in Rows
    BY <1>3 DEF RowThere, Rows
  <2>2. i <= Len(chats[c]) /\ chats[c] \in Seq(RowType)
    BY <2>1 DEF Rows, ChatShaped
  <2>3. i \in 1 .. Len(chats[c]) /\ chats[c][i] \in RowType
    BY <2>2
  <2>4. Row(<<c, i>>) = chats[c][i]
    BY DEF Row
  <2>5. CASE chats[c][i].msg \in Files
    <3>1. UNCHANGED chats
      BY <1>3, <2>1, <2>5 DEF ShowTick
    <3>2. QED
      BY <1>1, <2>1, <2>4, <2>5, <3>1, RowsSame
  <2>6. CASE chats[c][i].msg \notin Files
    <3> DEFINE row == [chats[c][i] EXCEPT !.tick = tick]
               rows == [chats[c] EXCEPT ![i] = row]
    <3>1. chats' = [chats EXCEPT ![c] = rows]
      BY <1>3, <2>1, <2>2, <2>6 DEF ShowTick
    <3>2. row = [msg |-> chats[c][i].msg, tick |-> tick]
      BY <2>3 DEF RowType
    <3> HIDE DEF row
    <3>3. /\ chats'[c] = rows /\ \A d \in Chats \ {c} : chats'[d] = chats[d]
      BY <2>2, <3>1 DEF ChatShaped
    <3>4. rows[i] = row /\ \A j \in 1 .. Len(chats[c]) : j # i => rows[j] = chats[c][j]
      BY <2>2, <2>3
    <3> HIDE DEF rows
    <3>5. Row(<<c, i>>)' = [msg |-> Row(<<c, i>>).msg, tick |-> tick]
      BY <2>4, <3>2, <3>3, <3>4 DEF Row
    <3>6. ASSUME NEW r \in Rows, r # <<c, i>> PROVE Row(r)' = Row(r)
      <4>1. r[1] \in Chats /\ r[2] \in 1 .. Len(chats[r[1]]) /\ r = <<r[1], r[2]>>
        BY <3>6 DEF Rows, ChatShaped
      <4>2. r[1] # c \/ r[2] # i
        BY <3>6, <4>1
      <4>3. QED
        BY <3>3, <3>4, <4>1, <4>2 DEF Row
    <3>7. QED
      BY <1>1, <1>3, <2>1, <2>4, <2>6, <3>5, <3>6
  <2>7. QED
    BY <2>5, <2>6
<1>4. QED
  BY <1>2, <1>3

-----------------------------------------------------------------------------
(* A place waits or is led to once.                                        *)

(* Rows may come as long as the places stay.                               *)
LEMMA ApartKept ==
    ASSUME PlacesApart, Rows \subseteq Rows', ackPending' = ackPending,
           \A m \in Messages : uuidToLoc'[m] \in {uuidToLoc[m], None}
    PROVE  PlacesApart'
<1>1. \A m \in Messages : uuidToLoc'[m] # None => uuidToLoc'[m] = uuidToLoc[m]
  OBVIOUS
<1>2. \A i \in DOMAIN ackPending : RowThere(ackPending[i])'
  BY DEF PlacesApart, RowThere
<1>3. \A m \in Messages : uuidToLoc'[m] # None => RowThere(uuidToLoc[m])'
  BY <1>1 DEF PlacesApart, RowThere
<1>4. IdsApart'
  BY <1>1 DEF PlacesApart, IdsApart
<1>5. \A i \in DOMAIN ackPending, m \in Messages : uuidToLoc'[m] # None => uuidToLoc'[m] # ackPending'[i]
  BY <1>1 DEF PlacesApart
<1>6. QED
  BY <1>1, <1>2, <1>3, <1>4, <1>5 DEF PlacesApart, RowThere

LEMMA ApartSendInput ==
    ASSUME ChatShaped, PlacesApart, Untrimmed', NEW m \in Typed, SendInput(m)
    PROVE  PlacesApart'
<1> DEFINE loc == LastRow(Place[m])
<1>1. m \in Messages /\ Place[m] \in Chats
  BY MessageAssumption DEF Messages
<1>2. /\ Rows \subseteq Rows' /\ <<loc.chat, loc.idx>> \in Rows' \ Rows
      /\ loc \in LocType
  BY <1>1, RowAdded, RowPut DEF SendInput, Grows
<1>3. uuidToLoc' = uuidToLoc
  BY DEF SendInput
<1>4. CASE m \in Broadcasts
  <2>1. ackPending' = ackPending
    BY <1>4 DEF SendInput
  <2>2. QED
    BY <1>2, <1>3, <2>1, ApartKept
<1>5. CASE m \notin Broadcasts
  <2>1. ackPending' = Append(ackPending, loc)
    BY <1>5 DEF SendInput
  <2> HIDE DEF loc
  <2>2. Longer(ackPending, ackPending', loc)
    BY <1>2, <2>1, AppendFacts DEF ChatShaped
  <2>3. \A i \in DOMAIN ackPending' :
            ackPending'[i] = loc \/ (i \in DOMAIN ackPending /\ ackPending'[i] = ackPending[i])
    BY <2>2 DEF Longer
  <2>4. \A i \in DOMAIN ackPending : ackPending[i] # loc
    BY <1>2 DEF PlacesApart, RowThere
  <2>5. \A n \in Messages : uuidToLoc[n] # None => uuidToLoc[n] # loc
    BY <1>2 DEF PlacesApart, RowThere
  <2>6. \A i \in DOMAIN ackPending' : RowThere(ackPending[i])'
    BY <1>2, <2>3 DEF PlacesApart, RowThere
  <2>7. \A n \in Messages : uuidToLoc'[n] # None => RowThere(uuidToLoc[n])'
    BY <1>2, <1>3 DEF PlacesApart, RowThere
  <2>8. \A i, j \in DOMAIN ackPending' : ackPending'[i] = ackPending'[j] => i = j
    BY <2>2, <2>4 DEF PlacesApart, Longer
  <2>9. \A i \in DOMAIN ackPending', n \in Messages :
            uuidToLoc'[n] # None => uuidToLoc'[n] # ackPending'[i]
    BY <1>3, <2>3, <2>5 DEF PlacesApart
  <2>10. IdsApart'
    BY <1>3 DEF PlacesApart, IdsApart
  <2>11. QED
    BY <2>6, <2>7, <2>8, <2>9, <2>10 DEF PlacesApart
<1>6. QED
  BY <1>4, <1>5

(* The place that waited is the id's.                                      *)
LEMMA ApartAssignId ==
    ASSUME ChatShaped, PlacesApart, NEW m \in Messages, AssignId(m)
    PROVE  PlacesApart'
<1>1. CASE ackPending = <<>>
  BY <1>1, RowsSame, ApartKept DEF AssignId, window
<1>2. CASE ackPending # <<>>
  <2> DEFINE loc == ackPending[1]
  <2>1. /\ uuidToLoc' = [uuidToLoc EXCEPT ![m] = loc]
        /\ ackPending' = Tail(ackPending) /\ UNCHANGED chats
        /\ Shorter(ackPending, ackPending')
    <3>1. ackPending \in Seq(LocType)
      BY DEF ChatShaped
    <3>2. Shorter(ackPending, Tail(ackPending)) /\ Head(ackPending) = loc
      BY <1>2, <3>1, TailFacts
    <3>3. /\ uuidToLoc' = [uuidToLoc EXCEPT ![m] = Head(ackPending)]
          /\ ackPending' = Tail(ackPending) /\ UNCHANGED chats
      BY <1>2 DEF AssignId, Acked
    <3> QED BY <3>2, <3>3
  <2>2. 1 \in DOMAIN ackPending
    BY <2>1 DEF Shorter
  <2>3. \A n \in Messages : uuidToLoc'[n] = IF n = m THEN loc ELSE uuidToLoc[n]
    BY <2>1 DEF ChatShaped
  <2>4. \A n \in Messages : uuidToLoc[n] # None => uuidToLoc[n] # loc
    BY <2>2 DEF PlacesApart
  <2>5. \A i \in DOMAIN ackPending' :
            /\ i + 1 \in DOMAIN ackPending /\ ackPending'[i] = ackPending[i + 1]
            /\ ackPending'[i] # loc
    BY <2>1, <2>2 DEF Shorter, PlacesApart
  <2>6. Rows' = Rows /\ RowThere(loc)
    BY <2>1, <2>2, RowsSame DEF PlacesApart
  <2> HIDE DEF loc
  <2>7. \A i \in DOMAIN ackPending' : RowThere(ackPending[i])'
    BY <2>5, <2>6 DEF PlacesApart, RowThere
  <2>8. \A n \in Messages : uuidToLoc'[n] # None => RowThere(uuidToLoc[n])'
    BY <2>3, <2>6 DEF PlacesApart, RowThere
  <2>9. \A i, j \in DOMAIN ackPending' : ackPending'[i] = ackPending'[j] => i = j
    <3> SUFFICES ASSUME NEW i \in DOMAIN ackPending', NEW j \in DOMAIN ackPending',
                        ackPending'[i] = ackPending'[j]
                 PROVE  i = j
      OBVIOUS
    <3>1. i + 1 = j + 1
      BY <2>5 DEF PlacesApart
    <3>2. QED
      BY <2>1, <3>1 DEF Shorter
  <2>10. \A i \in DOMAIN ackPending', n \in Messages :
             uuidToLoc'[n] # None => uuidToLoc'[n] # ackPending'[i]
    BY <2>3, <2>5 DEF PlacesApart
  <2>11. IdsApart'
    BY <2>3, <2>4 DEF PlacesApart, IdsApart
  <2>12. QED
    BY <2>7, <2>8, <2>9, <2>10, <2>11 DEF PlacesApart
<1>3. QED
  BY <1>1, <1>2

LEMMA ApartShowAuto ==
    ASSUME ChatShaped, PlacesApart, Untrimmed', NEW m \in Messages, ShowAuto(m)
    PROVE  PlacesApart'
<1> DEFINE loc == LastRow(Place[m])
<1>1. Place[m] \in Chats
  BY MessageAssumption
<1>2. /\ Rows \subseteq Rows' /\ <<loc.chat, loc.idx>> \in Rows' \ Rows
      /\ loc \in LocType
  BY <1>1, RowAdded, RowPut DEF ShowAuto, Grows
<1>3. ackPending' = ackPending /\ \A n \in Messages : uuidToLoc'[n] = IF n = m THEN loc ELSE uuidToLoc[n]
  BY DEF ShowAuto, ChatShaped
<1> HIDE DEF loc
<1>4. \A i \in DOMAIN ackPending : ackPending[i] # loc
  BY <1>2 DEF PlacesApart, RowThere
<1>5. \A n \in Messages : uuidToLoc[n] # None => uuidToLoc[n] # loc
  BY <1>2 DEF PlacesApart, RowThere
<1>6. \A i \in DOMAIN ackPending' : RowThere(ackPending[i])'
  BY <1>2, <1>3 DEF PlacesApart, RowThere
<1>7. \A n \in Messages : uuidToLoc'[n] # None => RowThere(uuidToLoc[n])'
  BY <1>2, <1>3 DEF PlacesApart, RowThere
<1>8. \A i \in DOMAIN ackPending', n \in Messages :
          uuidToLoc'[n] # None => uuidToLoc'[n] # ackPending'[i]
  BY <1>3, <1>4 DEF PlacesApart
<1>9. IdsApart'
  BY <1>3, <1>5 DEF PlacesApart, IdsApart
<1>10. QED
  BY <1>3, <1>6, <1>7, <1>8, <1>9 DEF PlacesApart

LEMMA ApartNext ==
    ASSUME ChatShaped, PlacesApart, Untrimmed', [Next]_vars
    PROVE  PlacesApart'
<1>1. CASE UNCHANGED window
  BY <1>1, RowsSame, ApartKept DEF window
<1>2. CASE \E m \in Typed : SendInput(m)
  BY <1>2, ApartSendInput
<1>3. CASE HandleIpcEvent
  <2> DEFINE l == Head(lines)
  <2>1. /\ l.kind = "ok" => l.msg \in Messages
        /\ l.kind = "auto" => l.msg \in Messages
        /\ l.kind \in Ticks => l.msg \in Messages
    BY <1>3, TailFacts DEF HandleIpcEvent, Shorter, ChatShaped, Messages
  <2> HIDE DEF l
  <2>2. CASE l.kind = "ok" /\ AssignId(l.msg)
    BY <2>1, <2>2, ApartAssignId
  <2>3. CASE ShowError \/ ShowOther
    <3>1. PICK c \in Chats : AddNobodys(c)
      BY <2>3 DEF ShowError, ShowOther
    <3>2. Rows \subseteq Rows' /\ UNCHANGED <<ackPending, uuidToLoc>>
      BY <3>1, RowAdded DEF AddNobodys, Grows
    <3>3. QED
      BY <3>2, ApartKept
  <2>4. CASE ShowNotice
    BY <2>4, NoticeAdded, ApartKept DEF Grows
  <2>5. CASE l.kind = "auto" /\ ShowAuto(l.msg)
    BY <2>1, <2>5, ApartShowAuto
  <2>6. CASE l.kind \in {"delivered", "read"} /\ ShowTick(l.msg, l.kind)
    <3>1. l.msg \in Messages /\ l.kind \in Ticks
      BY <2>1, <2>6 DEF Ticks
    <3>2. Rows' = Rows /\ ackPending' = ackPending
      BY <2>6, <3>1, RowTicked, ShapedShowTick DEF PlacesApart
    <3>3. \A m \in Messages : uuidToLoc'[m] \in {uuidToLoc[m], None}
      BY <2>6, <3>1 DEF ShowTick, LocAfter, ChatShaped
    <3>4. QED
      BY <3>2, <3>3, ApartKept
  <2>7. QED
    BY <1>3, <2>2, <2>3, <2>4, <2>5, <2>6 DEF HandleIpcEvent, l
<1>4. QED
  BY <1>1, <1>2, <1>3
     DEF Next, vars, HandleCommand, AutoReply, Acknowledge, OtherMessage

(* Whatever fails and in whatever order commands, replies and events come, *)
(* an id leads _on_delivery_event and _on_read_event to a row no other id  *)
(* leads to.                                                               *)
THEOREM IdsApartAlways == Spec /\ []Untrimmed => []IdsApart
<1>1. Init => PlacesApart
  BY DEF Init, PlacesApart, IdsApart
<1>2. ChatShaped /\ PlacesApart /\ Untrimmed' /\ [Next]_vars => PlacesApart'
  BY ApartNext
<1>3. PlacesApart => IdsApart
  BY DEF PlacesApart
<1>4. QED
  BY <1>1, <1>2, <1>3, ShapedAlways, PTL DEF Spec

-----------------------------------------------------------------------------
(* Ticks are exact while nothing fails and nothing is broadcast.           *)

Exact == RowsOnce /\ TypedOnce /\ WaitingInOrder /\ IdsLead /\ TicksExact

(* Its parts, to be cited in one go.                                       *)
LEMMA ExactParts ==
    Exact <=>
        /\ RowOnce /\ RowTyped /\ RowAuto
        /\ CommandsUnsent /\ CommandsOnce /\ RepliesSent /\ RepliesOnce /\ SentTyped
        /\ WaitsForSome /\ RepliesAwaited /\ CommandsAwaited
        /\ RepliesInOrder /\ CommandsInOrder /\ RepliesFirst
        /\ LeadsRight /\ SentReached /\ IdsFirst /\ IdsToCome
        /\ ReceiptsSent /\ TicksReceived /\ TicksOnce /\ RowsReceived /\ ReadShown /\ DeliveredShown
  BY DEF Exact, RowsOnce, TypedOnce, WaitingInOrder, IdsLead, TicksExact


(* The rows there were are still there, with the same messages; what is    *)
(* waiting or led to is among them.                                        *)
RowsKept == Rows \subseteq Rows' /\ \A r \in Rows : Row(r)'.msg = Row(r).msg

LEMMA WaitsKept ==
    ASSUME PlacesApart, RowsKept, NEW i, NEW j \in DOMAIN ackPending, ackPending'[i] = ackPending[j]
    PROVE  Waits(i)' = Waits(j)
  BY DEF PlacesApart, RowThere, RowsKept, Waits, MsgAt

LEMMA LeadsKept ==
    ASSUME PlacesApart, RowsKept, NEW m \in Messages, uuidToLoc[m] # None, uuidToLoc'[m] = uuidToLoc[m]
    PROVE  Leads(m)' = Leads(m)
  BY DEF PlacesApart, RowThere, RowsKept, Leads, MsgAt

LEMMA ExactSendInput ==
    ASSUME ChatShaped, PlacesApart, Exact, Untrimmed',
           NEW m \in Typed, SendInput(m), m \notin Broadcasts
    PROVE  Exact'
<1> DEFINE loc == LastRow(Place[m])
<1>1. m \in Messages /\ Place[m] \in Chats /\ m # None
  BY MessageAssumption DEF Messages
<1>2. /\ Grows(m) /\ <<loc.chat, loc.idx>> \in Rows' \ Rows /\ loc \in LocType
  BY <1>1, RowAdded, RowPut DEF SendInput
<1>3. /\ uuidToLoc' = uuidToLoc /\ lines' = lines /\ sent' = sent /\ receipts' = receipts
      /\ typed' = typed \cup {m} /\ m \notin typed
  BY DEF SendInput, daemon
<1>4. ackPending' = Append(ackPending, loc)
  BY DEF SendInput
<1> HIDE DEF loc
<1>5. Longer(ackPending, ackPending', loc) /\ Longer(commands, commands', m)
  BY <1>2, <1>4, AppendFacts DEF ChatShaped, SendInput
<1>6. NewRow(m).msg = m /\ NewRow(m).tick = "none"
  BY DEF NewRow
<1>7. m \notin sent /\ \A r \in Rows : Row(r).msg # m
  BY <1>3, ExactParts DEF RowTyped, SentTyped
<1>8. /\ \A r \in Rows : r \in Rows' /\ Row(r)' = Row(r)
      /\ \A r \in Rows' : r \in Rows \/ (Row(r)' = NewRow(m) /\ r = <<loc.chat, loc.idx>>)
  BY <1>1, <1>2 DEF Grows
<1>9. RowsKept
  BY <1>8 DEF RowsKept
<1>10. \A i \in DOMAIN ackPending : i \in DOMAIN ackPending' /\ Waits(i)' = Waits(i)
  BY <1>5, <1>9, WaitsKept DEF Longer
<1>11. PICK last \in Nat : /\ DOMAIN ackPending' = DOMAIN ackPending \cup {last}
                           /\ ackPending'[last] = loc
                           /\ \A i \in DOMAIN ackPending : i < last
  BY <1>5 DEF Longer
<1>12. Waits(last)' = m
  BY <1>2, <1>6, <1>8, <1>11 DEF Waits, MsgAt
<1>13. PICK end \in Nat : /\ DOMAIN commands' = DOMAIN commands \cup {end} /\ commands'[end] = m
                          /\ \A i \in DOMAIN commands : i < end /\ i \in Nat /\ commands'[i] = commands[i]
  BY <1>5 DEF Longer
<1>14. \A i \in DOMAIN ackPending : Waits(i) # m
  BY <1>7 DEF PlacesApart, RowThere, Waits, MsgAt
<1>15. \A n \in Messages : uuidToLoc[n] # None => Leads(n)' = Leads(n)
  BY <1>3, <1>9, LeadsKept
<1>16. /\ \A i \in DOMAIN commands : commands[i] # m
       /\ \A i \in DOMAIN lines : IsOk(i) => lines[i].msg # m
  BY <1>3, <1>7, ExactParts DEF CommandsUnsent, RepliesSent, IsOk
<1>20. RowOnce' /\ RowTyped'
  BY <1>1, <1>3, <1>6, <1>7, <1>8, ExactParts DEF RowOnce, RowTyped
<1>21. RowAuto'
  BY <1>3, <1>6, <1>8, ExactParts, MessageAssumption DEF RowAuto, Introduces
<1>22. CommandsUnsent' /\ CommandsOnce'
  BY <1>3, <1>7, <1>13, <1>16, ExactParts DEF CommandsUnsent, CommandsOnce
<1>23. RepliesSent' /\ RepliesOnce' /\ SentTyped'
  BY <1>3, ExactParts DEF RepliesSent, RepliesOnce, SentTyped, Introduces
<1>24. WaitsForSome'
  <2>1. \A a \in DOMAIN ackPending : \/ \E i \in DOMAIN lines : IsOk(i) /\ lines[i].msg = Waits(a)
                                     \/ \E j \in DOMAIN commands : commands[j] = Waits(a)
    BY ExactParts DEF WaitsForSome
  <2>2. QED
    BY <1>3, <1>10, <1>11, <1>12, <1>13, <2>1 DEF WaitsForSome, IsOk
<1>25. RepliesAwaited'
  BY <1>3, <1>10, ExactParts DEF RepliesAwaited, IsOk
<1>26. CommandsAwaited'
  BY <1>10, <1>11, <1>12, <1>13, ExactParts DEF CommandsAwaited
<1>27. RepliesInOrder'
  BY <1>3, <1>10, <1>11, <1>12, <1>16, ExactParts DEF RepliesInOrder, IsOk
<1>28. CommandsInOrder'
  BY <1>10, <1>11, <1>12, <1>13, <1>14, <1>16, ExactParts DEF CommandsInOrder
<1>29. RepliesFirst'
  BY <1>3, <1>10, <1>11, <1>12, <1>13, <1>14, <1>16, ExactParts DEF RepliesFirst, IsOk
<1>30. LeadsRight' /\ SentReached' /\ IdsFirst' /\ IdsToCome'
  BY <1>3, <1>15, ExactParts DEF LeadsRight, SentReached, IdsFirst, IdsToCome, Introduces, Ticked
<1>31. ReceiptsSent' /\ TicksReceived' /\ TicksOnce'
  BY <1>3, ExactParts DEF ReceiptsSent, TicksReceived, TicksOnce, Ticked
<1>32. RowsReceived'
  BY <1>3, <1>6, <1>8, ExactParts DEF RowsReceived
<1>33. \A k \in Ticks : <<m, k>> \notin receipts
  BY <1>1, <1>7, ExactParts DEF ReceiptsSent
<1>34. ReadShown' /\ DeliveredShown'
  BY <1>3, <1>6, <1>8, <1>33, ExactParts DEF ReadShown, DeliveredShown, Ticked, Ticks
<1>35. QED
  BY <1>20, <1>21, <1>22, <1>23, <1>24, <1>25, <1>26, <1>27, <1>28, <1>29, <1>30, <1>31, <1>32, <1>34
     DEF Exact, RowsOnce, TypedOnce, WaitingInOrder, IdsLead, TicksExact

(* What is said changes nothing in the window.                             *)
LEMMA WindowSame ==
    ASSUME UNCHANGED window
    PROVE  /\ Rows' = Rows /\ \A r : Row(r)' = Row(r)
           /\ ackPending' = ackPending /\ uuidToLoc' = uuidToLoc
           /\ \A i : Waits(i)' = Waits(i)
           /\ \A m : Leads(m)' = Leads(m)
  BY DEF window, Rows, Row, Waits, Leads, MsgAt

LEMMA SaidAtEnd ==
    ASSUME ChatShaped, NEW l \in LineType, lines' = Append(lines, l)
    PROVE  \E end \in Nat :
               /\ DOMAIN lines' = DOMAIN lines \cup {end} /\ lines'[end] = l
               /\ \A i \in DOMAIN lines : i \in Nat /\ i < end /\ lines'[i] = lines[i]
<1>1. Longer(lines, lines', l)
  BY AppendFacts DEF ChatShaped
<1>2. WITNESS Len(lines) + 1 \in Nat
<1>3. QED
  BY <1>1 DEF Longer

LEMMA ExactHandleCommand ==
    ASSUME ChatShaped, Exact, NEW m, m = Head(commands), HandleCommand,
           Say("ok", m), sent' = sent \cup {m}
    PROVE  Exact'
<1>1. /\ m \in Typed /\ m \in Messages /\ m = commands[1] /\ Shorter(commands, commands')
  BY TailFacts DEF ChatShaped, HandleCommand, Messages
<1>2. [kind |-> "ok", msg |-> m] \in LineType
  BY <1>1 DEF LineType, Ticks
<1>3. PICK end \in Nat :
          /\ DOMAIN lines' = DOMAIN lines \cup {end}
          /\ lines'[end] = [kind |-> "ok", msg |-> m]
          /\ \A i \in DOMAIN lines : i \in Nat /\ i < end /\ lines'[i] = lines[i]
  BY <1>2, SaidAtEnd DEF Say
<1>4. /\ Rows' = Rows /\ \A r : Row(r)' = Row(r)
      /\ ackPending' = ackPending /\ uuidToLoc' = uuidToLoc
      /\ \A i : Waits(i)' = Waits(i)
      /\ \A n : Leads(n)' = Leads(n)
  BY WindowSame DEF HandleCommand
<1>5. typed' = typed /\ receipts' = receipts
  BY DEF HandleCommand
<1>6. 1 \in DOMAIN commands /\ m \in typed /\ m \notin sent
  BY <1>1, ExactParts DEF Shorter, CommandsUnsent
<1>7. /\ \A i \in DOMAIN lines : ~Introduces(i, m)
      /\ \A k \in Ticks : <<m, k>> \notin receipts
      /\ \A i \in DOMAIN lines, k \in Ticks : ~Ticked(i, m, k)
      /\ uuidToLoc[m] = None
  BY <1>1, <1>6, ExactParts
     DEF RepliesSent, Introduces, ReceiptsSent, TicksReceived, LeadsRight
<1>8. /\ \A j \in DOMAIN commands' : /\ j + 1 \in DOMAIN commands /\ j + 1 # 1
                                     /\ commands'[j] = commands[j + 1] /\ j \in Nat
      /\ \A j \in DOMAIN commands : j = 1 \/ (j - 1 \in DOMAIN commands' /\ commands'[j - 1] = commands[j])
  BY <1>1 DEF Shorter
<1>9. RowOnce' /\ RowTyped'
  BY <1>4, <1>5, ExactParts DEF RowOnce, RowTyped
<1>10. RowAuto'
  BY <1>1, <1>3, <1>4, ExactParts, MessageAssumption DEF RowAuto, Introduces
<1>11. CommandsUnsent'
  BY <1>1, <1>5, <1>6, <1>8, ExactParts DEF CommandsUnsent, CommandsOnce
<1>12. CommandsOnce'
  BY <1>8, ExactParts DEF CommandsOnce
<1>13. RepliesSent' /\ SentTyped'
  BY <1>3, <1>5, <1>6, ExactParts DEF RepliesSent, SentTyped
<1>14. RepliesOnce'
  BY <1>3, <1>7, ExactParts DEF RepliesOnce, Introduces
<1>15. WaitsForSome'
  <2> SUFFICES ASSUME NEW a \in DOMAIN ackPending
               PROVE  \/ \E i \in DOMAIN lines' : IsOk(i)' /\ lines'[i].msg = Waits(a)
                      \/ \E j \in DOMAIN commands' : commands'[j] = Waits(a)
    BY <1>4 DEF WaitsForSome
  <2>1. CASE \E i \in DOMAIN lines : IsOk(i) /\ lines[i].msg = Waits(a)
    BY <1>3, <2>1 DEF IsOk
  <2>2. CASE \E j \in DOMAIN commands : commands[j] = Waits(a)
    BY <1>1, <1>3, <1>8, <2>2 DEF IsOk
  <2>3. QED
    BY <2>1, <2>2, ExactParts DEF WaitsForSome
<1>16. RepliesAwaited'
  BY <1>1, <1>3, <1>4, <1>6, ExactParts DEF RepliesAwaited, CommandsAwaited, IsOk
<1>17. CommandsAwaited'
  BY <1>4, <1>8, ExactParts DEF CommandsAwaited
<1>18. RepliesInOrder'
  BY <1>1, <1>3, <1>4, <1>6, ExactParts DEF RepliesInOrder, RepliesFirst, IsOk
<1>19. CommandsInOrder'
  <2> SUFFICES ASSUME NEW a \in DOMAIN ackPending, NEW b \in DOMAIN ackPending,
                      NEW i \in DOMAIN commands', NEW j \in DOMAIN commands',
                      i < j, Waits(a) = commands'[i], Waits(b) = commands'[j]
               PROVE  a < b
    BY <1>4 DEF CommandsInOrder
  <2>1. i + 1 \in DOMAIN commands /\ j + 1 \in DOMAIN commands /\ i + 1 < j + 1
    BY <1>8
  <2>2. QED
    BY <1>8, <2>1, ExactParts DEF CommandsInOrder
<1>20. RepliesFirst'
  <2> SUFFICES ASSUME NEW a \in DOMAIN ackPending, NEW b \in DOMAIN ackPending,
                      NEW i \in DOMAIN lines', NEW j \in DOMAIN commands',
                      lines'[i].kind = "ok", Waits(a) = lines'[i].msg, Waits(b) = commands'[j]
               PROVE  a < b
    BY <1>4 DEF RepliesFirst, IsOk
  <2>1. j + 1 \in DOMAIN commands /\ 1 < j + 1 /\ Waits(b) = commands[j + 1]
    BY <1>1, <1>8 DEF Shorter
  <2>2. CASE i = end
    BY <1>1, <1>3, <1>6, <2>1, <2>2, ExactParts DEF CommandsInOrder
  <2>3. CASE i # end
    BY <1>3, <2>1, <2>3, ExactParts DEF RepliesFirst, IsOk
  <2>4. QED
    BY <2>2, <2>3
<1>21. LeadsRight'
  BY <1>4, ExactParts DEF LeadsRight
<1>22. SentReached'
  <2> SUFFICES ASSUME NEW n \in sent', uuidToLoc'[n] = None, \A i \in DOMAIN lines' : ~Introduces(i, n)'
               PROVE  <<n, "read">> \in receipts' /\ \A i \in DOMAIN lines' : ~Ticked(i, n, "read")'
    BY DEF SentReached
  <2>1. n \in sent
    BY <1>3 DEF Introduces
  <2>2. \A i \in DOMAIN lines : ~Introduces(i, n)
    BY <1>3 DEF Introduces
  <2>3. <<n, "read">> \in receipts /\ \A i \in DOMAIN lines : ~Ticked(i, n, "read")
    BY <1>4, <2>1, <2>2, ExactParts DEF SentReached
  <2>4. QED
    BY <1>3, <1>5, <2>3 DEF Ticked
<1>23. IdsFirst'
  BY <1>3, <1>7, ExactParts DEF IdsFirst, Introduces, Ticked, Ticks
<1>24. IdsToCome'
  BY <1>3, <1>4, <1>5, <1>7, ExactParts DEF IdsToCome, Introduces, Ticked
<1>25. ReceiptsSent' /\ TicksReceived' /\ TicksOnce'
  BY <1>3, <1>5, ExactParts DEF ReceiptsSent, TicksReceived, TicksOnce, Ticked, Ticks
<1>26. RowsReceived' /\ ReadShown' /\ DeliveredShown'
  BY <1>3, <1>4, <1>5, ExactParts DEF RowsReceived, ReadShown, DeliveredShown, Ticked
<1>27. QED
  BY <1>9, <1>10, <1>11, <1>12, <1>13, <1>14, <1>15, <1>16, <1>17, <1>18, <1>19, <1>20, <1>21,
     <1>22, <1>23, <1>24, <1>25, <1>26
     DEF Exact, RowsOnce, TypedOnce, WaitingInOrder, IdsLead, TicksExact

LEMMA ExactAutoReply ==
    ASSUME ChatShaped, Exact, NEW m \in Autos, AutoReply(m)
    PROVE  Exact'
<1>1. m \in Messages /\ m \notin sent /\ sent' = sent \cup {m}
  BY DEF AutoReply, Messages
<1>2. [kind |-> "auto", msg |-> m] \in LineType
  BY <1>1 DEF LineType, Ticks
<1>3. PICK end \in Nat :
          /\ DOMAIN lines' = DOMAIN lines \cup {end}
          /\ lines'[end] = [kind |-> "auto", msg |-> m]
          /\ \A i \in DOMAIN lines : i \in Nat /\ i < end /\ lines'[i] = lines[i]
  BY <1>2, SaidAtEnd DEF AutoReply, Say
<1>4. /\ Rows' = Rows /\ \A r : Row(r)' = Row(r)
      /\ ackPending' = ackPending /\ uuidToLoc' = uuidToLoc
      /\ \A i : Waits(i)' = Waits(i)
      /\ \A n : Leads(n)' = Leads(n)
  BY WindowSame DEF AutoReply
<1>5. commands' = commands /\ typed' = typed /\ receipts' = receipts
  BY DEF AutoReply
<1>6. /\ \A i \in DOMAIN lines : ~Introduces(i, m)
      /\ \A k \in Ticks : <<m, k>> \notin receipts
      /\ \A i \in DOMAIN lines, k \in Ticks : ~Ticked(i, m, k)
      /\ uuidToLoc[m] = None
  BY <1>1, ExactParts
     DEF RepliesSent, Introduces, ReceiptsSent, TicksReceived, LeadsRight
<1>7. m \notin Typed
  BY MessageAssumption
<1>8. \A i \in DOMAIN lines' : IsOk(i)' <=> i \in DOMAIN lines /\ IsOk(i)
  BY <1>3 DEF IsOk
<1>9. RowOnce' /\ RowTyped'
  BY <1>4, <1>5, ExactParts DEF RowOnce, RowTyped
<1>10. RowAuto'
  BY <1>1, <1>3, <1>4, ExactParts DEF RowAuto, Introduces
<1>11. CommandsUnsent' /\ CommandsOnce'
  BY <1>1, <1>5, <1>7, ExactParts DEF CommandsUnsent, CommandsOnce, ChatShaped
<1>12. RepliesSent' /\ SentTyped'
  BY <1>1, <1>3, <1>5, <1>7, ExactParts DEF RepliesSent, SentTyped
<1>13. RepliesOnce'
  BY <1>3, <1>6, ExactParts DEF RepliesOnce, Introduces
<1>14. WaitsForSome' /\ RepliesAwaited' /\ CommandsAwaited'
  BY <1>3, <1>4, <1>5, <1>8, ExactParts DEF WaitsForSome, RepliesAwaited, CommandsAwaited
<1>15. RepliesInOrder' /\ CommandsInOrder' /\ RepliesFirst'
  BY <1>3, <1>4, <1>5, <1>8, ExactParts DEF RepliesInOrder, CommandsInOrder, RepliesFirst
<1>16. LeadsRight'
  BY <1>1, <1>4, ExactParts DEF LeadsRight
<1>17. SentReached'
  <2> SUFFICES ASSUME NEW n \in sent', uuidToLoc'[n] = None, \A i \in DOMAIN lines' : ~Introduces(i, n)'
               PROVE  <<n, "read">> \in receipts' /\ \A i \in DOMAIN lines' : ~Ticked(i, n, "read")'
    BY DEF SentReached
  <2>1. n \in sent
    BY <1>1, <1>3 DEF Introduces
  <2>2. \A i \in DOMAIN lines : ~Introduces(i, n)
    BY <1>3 DEF Introduces
  <2>3. <<n, "read">> \in receipts /\ \A i \in DOMAIN lines : ~Ticked(i, n, "read")
    BY <1>4, <2>1, <2>2, ExactParts DEF SentReached
  <2>4. QED
    BY <1>3, <1>5, <2>3 DEF Ticked
<1>18. IdsFirst'
  BY <1>3, <1>6, ExactParts DEF IdsFirst, Introduces, Ticked, Ticks
<1>19. IdsToCome'
  BY <1>3, <1>4, <1>5, <1>6, ExactParts DEF IdsToCome, Introduces, Ticked
<1>20. ReceiptsSent' /\ TicksReceived' /\ TicksOnce'
  BY <1>1, <1>3, <1>5, ExactParts DEF ReceiptsSent, TicksReceived, TicksOnce, Ticked, Ticks
<1>21. RowsReceived' /\ ReadShown' /\ DeliveredShown'
  BY <1>3, <1>4, <1>5, ExactParts DEF RowsReceived, ReadShown, DeliveredShown, Ticked
<1>22. QED
  BY <1>9, <1>10, <1>11, <1>12, <1>13, <1>14, <1>15, <1>16, <1>17, <1>18, <1>19, <1>20, <1>21
     DEF Exact, RowsOnce, TypedOnce, WaitingInOrder, IdsLead, TicksExact

LEMMA ExactAcknowledge ==
    ASSUME ChatShaped, Exact, NEW m \in Messages, NEW tick \in Ticks, Acknowledge(m, tick)
    PROVE  Exact'
<1>1. m \in sent /\ <<m, tick>> \notin receipts /\ receipts' = receipts \cup {<<m, tick>>}
  BY DEF Acknowledge
<1>2. [kind |-> tick, msg |-> m] \in LineType
  BY DEF LineType, Ticks
<1>3. PICK end \in Nat :
          /\ DOMAIN lines' = DOMAIN lines \cup {end}
          /\ lines'[end] = [kind |-> tick, msg |-> m]
          /\ \A i \in DOMAIN lines : i \in Nat /\ i < end /\ lines'[i] = lines[i]
  BY <1>2, SaidAtEnd DEF Acknowledge, Say
<1>4. /\ Rows' = Rows /\ \A r : Row(r)' = Row(r)
      /\ ackPending' = ackPending /\ uuidToLoc' = uuidToLoc
      /\ \A i : Waits(i)' = Waits(i)
      /\ \A n : Leads(n)' = Leads(n)
  BY WindowSame DEF Acknowledge
<1>5. commands' = commands /\ typed' = typed /\ sent' = sent
  BY DEF Acknowledge
<1>6. /\ \A i \in DOMAIN lines' : IsOk(i)' <=> i \in DOMAIN lines /\ IsOk(i)
      /\ \A n : \A i \in DOMAIN lines' : Introduces(i, n)' <=> i \in DOMAIN lines /\ Introduces(i, n)
      /\ \A n, k : \A i \in DOMAIN lines' :
            Ticked(i, n, k)' <=> (i \in DOMAIN lines /\ Ticked(i, n, k)) \/ (i = end /\ n = m /\ k = tick)
  <2>1. \A i \in DOMAIN lines' : (i \in DOMAIN lines /\ lines'[i] = lines[i]) \/ (i = end /\ i \notin DOMAIN lines)
    BY <1>3
  <2>2. tick \notin {"ok", "auto"}
    BY DEF Ticks
  <2>3. \A i \in DOMAIN lines' : IsOk(i)' <=> i \in DOMAIN lines /\ IsOk(i)
    BY <1>3, <2>1, <2>2 DEF IsOk
  <2>4. \A n : \A i \in DOMAIN lines' : Introduces(i, n)' <=> i \in DOMAIN lines /\ Introduces(i, n)
    BY <1>3, <2>1, <2>2 DEF Introduces
  <2>5. \A n, k : \A i \in DOMAIN lines' :
            Ticked(i, n, k)' <=> (i \in DOMAIN lines /\ Ticked(i, n, k)) \/ (i = end /\ n = m /\ k = tick)
    BY <1>3, <2>1 DEF Ticked
  <2>6. QED
    BY <2>3, <2>4, <2>5
<1>7. \A i \in DOMAIN lines : ~Ticked(i, m, tick)
  BY <1>1, ExactParts DEF TicksReceived
<1>8. RowOnce' /\ RowTyped' /\ RowAuto'
  BY <1>3, <1>4, <1>5, <1>6, ExactParts DEF RowOnce, RowTyped, RowAuto
<1>9. CommandsUnsent' /\ CommandsOnce' /\ SentTyped'
  BY <1>5, ExactParts DEF CommandsUnsent, CommandsOnce, SentTyped
<1>10. RepliesSent' /\ RepliesOnce'
  BY <1>3, <1>5, <1>6, ExactParts DEF RepliesSent, RepliesOnce, Ticks
<1>11. WaitsForSome' /\ RepliesAwaited' /\ CommandsAwaited'
  BY <1>3, <1>4, <1>5, <1>6, ExactParts DEF WaitsForSome, RepliesAwaited, CommandsAwaited
<1>12. RepliesInOrder' /\ CommandsInOrder' /\ RepliesFirst'
  BY <1>3, <1>4, <1>5, <1>6, ExactParts DEF RepliesInOrder, CommandsInOrder, RepliesFirst
<1>13. LeadsRight'
  BY <1>4, <1>5, ExactParts DEF LeadsRight
<1>14. SentReached'
  <2> SUFFICES ASSUME NEW n \in sent', uuidToLoc'[n] = None, \A i \in DOMAIN lines' : ~Introduces(i, n)'
               PROVE  <<n, "read">> \in receipts' /\ \A i \in DOMAIN lines' : ~Ticked(i, n, "read")'
    BY DEF SentReached
  <2>1. n \in sent
    BY <1>5 DEF Introduces
  <2>2. \A i \in DOMAIN lines : ~Introduces(i, n)
    BY <1>3 DEF Introduces
  <2>3. <<n, "read">> \in receipts /\ \A i \in DOMAIN lines : ~Ticked(i, n, "read")
    BY <1>4, <2>1, <2>2, ExactParts DEF SentReached
  <2>4. QED
    BY <1>1, <1>3, <2>3 DEF Ticked
<1>15. IdsFirst'
  BY <1>3, <1>6, ExactParts DEF IdsFirst
<1>16. IdsToCome'
  BY <1>1, <1>3, <1>4, <1>6, ExactParts DEF IdsToCome, Introduces, Ticked, Ticks
<1>17. ReceiptsSent' /\ TicksReceived'
  BY <1>1, <1>3, <1>5, <1>6, ExactParts DEF ReceiptsSent, TicksReceived
<1>18. TicksOnce'
  BY <1>3, <1>6, <1>7, ExactParts DEF TicksOnce
<1>19. RowsReceived'
  BY <1>1, <1>4, ExactParts DEF RowsReceived
<1>20. ReadShown' /\ DeliveredShown'
  BY <1>1, <1>3, <1>4, ExactParts DEF ReadShown, DeliveredShown, Ticked
<1>21. QED
  BY <1>8, <1>9, <1>10, <1>11, <1>12, <1>13, <1>14, <1>15, <1>16, <1>17, <1>18, <1>19, <1>20
     DEF Exact, RowsOnce, TypedOnce, WaitingInOrder, IdsLead, TicksExact

LEMMA ExactOtherMessage ==
    ASSUME ChatShaped, Exact, OtherMessage
    PROVE  Exact'
<1>1. PICK kind \in {"other", "notice"} : Say(kind, None)
  BY DEF OtherMessage
<1>2. [kind |-> kind, msg |-> None] \in LineType
  BY DEF LineType, Ticks
<1>3. PICK end \in Nat :
          /\ DOMAIN lines' = DOMAIN lines \cup {end}
          /\ lines'[end] = [kind |-> kind, msg |-> None]
          /\ \A i \in DOMAIN lines : i \in Nat /\ i < end /\ lines'[i] = lines[i]
  BY <1>1, <1>2, SaidAtEnd DEF Say
<1>4. /\ Rows' = Rows /\ \A r : Row(r)' = Row(r)
      /\ ackPending' = ackPending /\ uuidToLoc' = uuidToLoc
      /\ \A i : Waits(i)' = Waits(i)
      /\ \A n : Leads(n)' = Leads(n)
  BY WindowSame DEF OtherMessage
<1>5. commands' = commands /\ typed' = typed /\ sent' = sent /\ receipts' = receipts
  BY DEF OtherMessage
<1>6. /\ \A i \in DOMAIN lines' : IsOk(i)' <=> i \in DOMAIN lines /\ IsOk(i)
      /\ \A n : \A i \in DOMAIN lines' : Introduces(i, n)' <=> i \in DOMAIN lines /\ Introduces(i, n)
      /\ \A n : \A k \in Ticks, i \in DOMAIN lines' :
            Ticked(i, n, k)' <=> i \in DOMAIN lines /\ Ticked(i, n, k)
  BY <1>3 DEF IsOk, Introduces, Ticked, Ticks
<1>7. RowOnce' /\ RowTyped' /\ RowAuto'
  BY <1>3, <1>4, <1>5, <1>6, ExactParts DEF RowOnce, RowTyped, RowAuto
<1>8. CommandsUnsent' /\ CommandsOnce' /\ SentTyped'
  BY <1>5, ExactParts DEF CommandsUnsent, CommandsOnce, SentTyped
<1>9. RepliesSent' /\ RepliesOnce'
  BY <1>3, <1>5, <1>6, ExactParts DEF RepliesSent, RepliesOnce
<1>10. WaitsForSome' /\ RepliesAwaited' /\ CommandsAwaited'
  BY <1>3, <1>4, <1>5, <1>6, ExactParts DEF WaitsForSome, RepliesAwaited, CommandsAwaited
<1>11. RepliesInOrder' /\ CommandsInOrder' /\ RepliesFirst'
  BY <1>3, <1>4, <1>5, <1>6, ExactParts DEF RepliesInOrder, CommandsInOrder, RepliesFirst
<1>12. LeadsRight' /\ SentReached'
  BY <1>3, <1>4, <1>5, <1>6, ExactParts DEF LeadsRight, SentReached, Introduces, Ticked
<1>13. IdsFirst' /\ IdsToCome'
  BY <1>3, <1>4, <1>5, <1>6, ExactParts DEF IdsFirst, IdsToCome, Introduces, Ticked, Ticks
<1>14. ReceiptsSent' /\ TicksReceived' /\ TicksOnce'
  BY <1>3, <1>5, <1>6, ExactParts DEF ReceiptsSent, TicksReceived, TicksOnce, Ticked, Ticks
<1>15. RowsReceived' /\ ReadShown' /\ DeliveredShown'
  BY <1>3, <1>4, <1>5, <1>6, ExactParts DEF RowsReceived, ReadShown, DeliveredShown, Ticked
<1>16. QED
  BY <1>7, <1>8, <1>9, <1>10, <1>11, <1>12, <1>13, <1>14, <1>15
     DEF Exact, RowsOnce, TypedOnce, WaitingInOrder, IdsLead, TicksExact

(* The line that was handled is gone; the others are one place further.    *)
Handled ==
    /\ 1 \in DOMAIN lines
    /\ \A i \in DOMAIN lines' :
          i \in Nat /\ i + 1 \in DOMAIN lines /\ i + 1 # 1 /\ lines'[i] = lines[i + 1]
    /\ \A i \in DOMAIN lines : i = 1 \/ (i - 1 \in DOMAIN lines' /\ lines'[i - 1] = lines[i])
    /\ \A i \in DOMAIN lines : i \in Nat
    /\ UNCHANGED <<commands, typed, sent, receipts>>

LEMMA HandledFirst ==
    ASSUME ChatShaped, HandleIpcEvent
    PROVE  Handled /\ Head(lines) = lines[1]
  BY TailFacts DEF ChatShaped, HandleIpcEvent, Shorter, Handled, daemon

LEMMA TicksStay ==
    ASSUME Handled, lines[1].kind \notin Ticks, NEW m, NEW k \in Ticks,
           \E i \in DOMAIN lines : Ticked(i, m, k)
    PROVE  \E i \in DOMAIN lines' : Ticked(i, m, k)'
<1>1. PICK i \in DOMAIN lines : Ticked(i, m, k)
  OBVIOUS
<1>2. i # 1
  BY <1>1 DEF Ticked
<1>3. PICK j \in DOMAIN lines' : lines'[j] = lines[i]
  BY <1>2 DEF Handled
<1>4. Ticked(j, m, k)'
  BY <1>1, <1>3 DEF Ticked
<1>5. QED
  BY <1>4

(* What the line handled has nothing to do with stays as it was.           *)
LEMMA HandledKeeps ==
    ASSUME ChatShaped, Exact, Handled
    PROVE  /\ CommandsUnsent' /\ CommandsOnce' /\ SentTyped'
           /\ RepliesSent' /\ RepliesOnce' /\ IdsFirst'
           /\ ReceiptsSent' /\ TicksReceived' /\ TicksOnce'
<1>1. CommandsUnsent' /\ CommandsOnce' /\ SentTyped' /\ ReceiptsSent'
  BY ExactParts DEF Handled, CommandsUnsent, CommandsOnce, SentTyped, ReceiptsSent
<1>2. RepliesSent'
  BY ExactParts DEF Handled, RepliesSent
<1>3. /\ \A m : \A i \in DOMAIN lines' : Introduces(i, m)' => i + 1 \in DOMAIN lines /\ Introduces(i + 1, m)
      /\ \A m, k : \A i \in DOMAIN lines' : Ticked(i, m, k)' => i + 1 \in DOMAIN lines /\ Ticked(i + 1, m, k)
  BY DEF Handled, Introduces, Ticked
<1>4. RepliesOnce'
  <2> SUFFICES ASSUME NEW i \in DOMAIN lines', NEW j \in DOMAIN lines', NEW m \in Messages,
                      Introduces(i, m)', Introduces(j, m)'
               PROVE  i = j
    BY DEF RepliesOnce
  <2>1. i + 1 = j + 1
    BY <1>3, ExactParts DEF RepliesOnce
  <2>2. QED
    BY <2>1 DEF Handled
<1>5. IdsFirst'
  <2> SUFFICES ASSUME NEW i \in DOMAIN lines', NEW j \in DOMAIN lines', NEW m \in Messages,
                      NEW k \in Ticks, Introduces(i, m)', Ticked(j, m, k)'
               PROVE  i < j
    BY DEF IdsFirst
  <2>1. i + 1 < j + 1
    BY <1>3, ExactParts DEF IdsFirst
  <2>2. QED
    BY <2>1 DEF Handled
<1>6. TicksReceived'
  BY <1>3, ExactParts DEF TicksReceived, Handled
<1>7. TicksOnce'
  <2> SUFFICES ASSUME NEW i \in DOMAIN lines', NEW j \in DOMAIN lines', NEW m \in Messages,
                      NEW k \in Ticks, Ticked(i, m, k)', Ticked(j, m, k)'
               PROVE  i = j
    BY DEF TicksOnce
  <2>1. i + 1 = j + 1
    BY <1>3, ExactParts DEF TicksOnce
  <2>2. QED
    BY <2>1 DEF Handled
<1>8. QED
  BY <1>1, <1>2, <1>4, <1>5, <1>6, <1>7

(* A line that takes no row off those that wait changes nothing for these. *)
LEMMA HandledWaits ==
    ASSUME ChatShaped, PlacesApart, Exact, Handled, RowsKept, ~IsOk(1), ackPending' = ackPending
    PROVE  /\ WaitsForSome' /\ RepliesAwaited' /\ CommandsAwaited'
           /\ RepliesInOrder' /\ CommandsInOrder' /\ RepliesFirst'
<1>1. \A a \in DOMAIN ackPending : Waits(a)' = Waits(a)
  BY WaitsKept
<1>2. /\ commands' = commands
      /\ \A i \in DOMAIN lines' : IsOk(i)' => i + 1 \in DOMAIN lines /\ IsOk(i + 1) /\ lines'[i] = lines[i + 1]
  BY DEF Handled, IsOk
<1>3. WaitsForSome'
  <2> SUFFICES ASSUME NEW a \in DOMAIN ackPending
               PROVE  \/ \E i \in DOMAIN lines' : IsOk(i)' /\ lines'[i].msg = Waits(a)
                      \/ \E j \in DOMAIN commands' : commands'[j] = Waits(a)
    BY <1>1 DEF WaitsForSome
  <2>1. CASE \E i \in DOMAIN lines : IsOk(i) /\ lines[i].msg = Waits(a)
    BY <2>1 DEF Handled, IsOk
  <2>2. CASE \E j \in DOMAIN commands : commands[j] = Waits(a)
    BY <1>2, <2>2
  <2>3. QED
    BY <2>1, <2>2, ExactParts DEF WaitsForSome
<1>4. RepliesAwaited' /\ CommandsAwaited'
  BY <1>1, <1>2, ExactParts DEF RepliesAwaited, CommandsAwaited
<1>5. RepliesInOrder'
  <2> SUFFICES ASSUME NEW a \in DOMAIN ackPending, NEW b \in DOMAIN ackPending,
                      NEW i \in DOMAIN lines', NEW j \in DOMAIN lines',
                      IsOk(i)', IsOk(j)', i < j, Waits(a) = lines'[i].msg, Waits(b) = lines'[j].msg
               PROVE  a < b
    BY <1>1 DEF RepliesInOrder
  <2>1. i + 1 < j + 1
    BY DEF Handled
  <2>2. QED
    BY <1>2, <2>1, ExactParts DEF RepliesInOrder
<1>6. CommandsInOrder'
  BY <1>1, <1>2, ExactParts DEF CommandsInOrder
<1>7. RepliesFirst'
  BY <1>1, <1>2, ExactParts DEF RepliesFirst
<1>8. QED
  BY <1>3, <1>4, <1>5, <1>6, <1>7

LEMMA ExactAssignId ==
    ASSUME ChatShaped, PlacesApart, Exact, Handled,
           NEW m \in Typed, lines[1].kind = "ok", lines[1].msg = m, AssignId(m)
    PROVE  Exact'
<1>1. m \in Messages /\ m \in sent
  BY ExactParts DEF Messages, RepliesSent, Handled
<1>2. IsOk(1) /\ Introduces(1, m)
  BY DEF Handled, IsOk, Introduces
<1>3. \A a, b \in DOMAIN ackPending : Waits(a) = Waits(b) => a = b
  <2> SUFFICES ASSUME NEW a \in DOMAIN ackPending, NEW b \in DOMAIN ackPending, Waits(a) = Waits(b)
               PROVE  a = b
    OBVIOUS
  <2>1. Waits(a) # None
    <3>1. \A i \in DOMAIN lines : IsOk(i) => lines[i].msg # None
      BY MessageAssumption DEF IsOk, ChatShaped, Messages
    <3>2. \A j \in DOMAIN commands : commands[j] # None
      BY MessageAssumption DEF ChatShaped, Messages
    <3>3. QED
      BY <3>1, <3>2, ExactParts DEF WaitsForSome
  <2>2. ackPending[a] \in LocType /\ ackPending[b] \in LocType
    BY DEF ChatShaped
  <2>3. <<ackPending[a].chat, ackPending[a].idx>> = <<ackPending[b].chat, ackPending[b].idx>>
    BY <2>1, ExactParts DEF RowOnce, Waits, MsgAt, PlacesApart, RowThere
  <2>4. ackPending[a] = ackPending[b]
    BY <2>2, <2>3 DEF LocType
  <2>5. QED
    BY <2>4 DEF PlacesApart
<1>4. ackPending # <<>> /\ Waits(1) = m
  <2>1. PICK a \in DOMAIN ackPending : Waits(a) = m
    BY <1>2, ExactParts DEF RepliesAwaited, Handled
  <2>2. DOMAIN ackPending = 1 .. Len(ackPending) /\ Len(ackPending) \in Nat
    BY DEF ChatShaped
  <2>3. 1 \in DOMAIN ackPending /\ a >= 1 /\ a \in Nat
    BY <2>2
  <2>4. CASE \E i \in DOMAIN lines : IsOk(i) /\ lines[i].msg = Waits(1)
    <3>1. PICK i \in DOMAIN lines : IsOk(i) /\ lines[i].msg = Waits(1)
      BY <2>4
    <3>2. CASE i = 1
      BY <2>3, <3>1, <3>2
    <3>3. CASE i # 1
      <4>1. 1 < i
        BY <3>3, TailFacts DEF ChatShaped
      <4>2. a < 1
        BY <1>2, <2>1, <2>3, <3>1, <4>1, ExactParts DEF RepliesInOrder, Handled
      <4>3. QED
        BY <2>3, <4>2
    <3>4. QED
      BY <2>3, <3>2, <3>3
  <2>5. CASE \E j \in DOMAIN commands : commands[j] = Waits(1)
    <3>1. a < 1
      BY <1>2, <2>1, <2>3, <2>5, ExactParts DEF RepliesFirst, Handled
    <3>2. QED
      BY <2>3, <3>1
  <2>6. QED
    BY <2>3, <2>4, <2>5, ExactParts DEF WaitsForSome
<1>5. PICK loc \in LocType : loc = ackPending[1] /\ loc = Head(ackPending)
  BY <1>4, TailFacts DEF ChatShaped
<1>6. /\ uuidToLoc' = [uuidToLoc EXCEPT ![m] = loc] /\ UNCHANGED chats
      /\ ackPending' = Tail(ackPending)
  BY <1>4, <1>5 DEF AssignId, Acked
<1>7. Shorter(ackPending, ackPending') /\ loc # None /\ 1 \in DOMAIN ackPending
  <2>1. ackPending \in Seq(LocType)
    BY DEF ChatShaped
  <2>2. Shorter(ackPending, Tail(ackPending))
    BY <1>4, <2>1, TailFacts
  <2>3. Shorter(ackPending, ackPending')
    BY <1>6, <2>2
  <2>4. 1 \in DOMAIN ackPending
    BY <2>3 DEF Shorter
  <2>5. loc # None
    BY <1>5, RowAssumption DEF LocType
  <2>6. QED
    BY <2>3, <2>4, <2>5
<1>8. \A n \in Messages : uuidToLoc'[n] = IF n = m THEN loc ELSE uuidToLoc[n]
  BY <1>6 DEF ChatShaped
<1>9. Rows' = Rows /\ (\A r \in Rows : Row(r)' = Row(r)) /\ RowsKept
  BY <1>6, RowsSame DEF RowsKept
<1>10. \A n \in Messages : uuidToLoc'[n] # None =>
           Leads(n)' = n /\ n \in sent
  <2>1. Leads(m)' = m
    BY <1>1, <1>4, <1>5, <1>7, <1>8, <1>9 DEF PlacesApart, RowThere, Leads, Waits, MsgAt
  <2>2. \A n \in Messages \ {m} : uuidToLoc[n] # None => Leads(n)' = Leads(n)
    BY <1>8, <1>9, LeadsKept
  <2>3. QED
    BY <1>1, <1>8, <2>1, <2>2, ExactParts DEF LeadsRight
<1>11. \A a \in DOMAIN ackPending' :
           /\ a \in Nat /\ a + 1 \in DOMAIN ackPending /\ a + 1 # 1 /\ Waits(a)' = Waits(a + 1)
  BY <1>7, <1>9, WaitsKept DEF Shorter
<1>12. \A a \in DOMAIN ackPending : a = 1 \/ (a - 1 \in DOMAIN ackPending' /\ Waits(a - 1)' = Waits(a))
  BY <1>7, <1>9, WaitsKept DEF Shorter
<1>13. \A a \in DOMAIN ackPending' : Waits(a)' # m
  BY <1>3, <1>4, <1>7, <1>11
<1>14. \A i \in DOMAIN lines' : IsOk(i)' => /\ i + 1 \in DOMAIN lines /\ IsOk(i + 1)
                                          /\ lines'[i] = lines[i + 1] /\ lines'[i].msg # m
  <2> SUFFICES ASSUME NEW i \in DOMAIN lines', IsOk(i)'
               PROVE  /\ i + 1 \in DOMAIN lines /\ IsOk(i + 1)
                      /\ lines'[i] = lines[i + 1] /\ lines'[i].msg # m
    OBVIOUS
  <2>1. i + 1 \in DOMAIN lines /\ i + 1 # 1 /\ IsOk(i + 1) /\ lines'[i] = lines[i + 1]
    BY DEF Handled, IsOk
  <2>2. lines[i + 1].msg = m => Introduces(i + 1, m)
    BY <2>1 DEF Introduces, IsOk
  <2>3. QED
    BY <1>1, <1>2, <2>1, <2>2, ExactParts DEF RepliesOnce, Handled
<1>15. commands' = commands /\ \A j \in DOMAIN commands : commands[j] # m
  BY <1>1, ExactParts DEF CommandsUnsent, Handled
<1>20. WaitsForSome'
  <2> SUFFICES ASSUME NEW a \in DOMAIN ackPending'
               PROVE  \/ \E i \in DOMAIN lines' : IsOk(i)' /\ lines'[i].msg = Waits(a)'
                      \/ \E j \in DOMAIN commands' : commands'[j] = Waits(a)'
    BY DEF WaitsForSome
  <2> DEFINE b == a + 1
  <2>1. b \in DOMAIN ackPending /\ Waits(a)' = Waits(b) /\ Waits(b) # m
    BY <1>11, <1>13
  <2> HIDE DEF b
  <2>2. CASE \E i \in DOMAIN lines : IsOk(i) /\ lines[i].msg = Waits(b)
    BY <2>1, <2>2 DEF Handled, IsOk
  <2>3. CASE \E j \in DOMAIN commands : commands[j] = Waits(b)
    BY <1>15, <2>1, <2>3
  <2>4. QED
    BY <2>1, <2>2, <2>3, ExactParts DEF WaitsForSome
<1>21. RepliesAwaited'
  <2> SUFFICES ASSUME NEW i \in DOMAIN lines', IsOk(i)'
               PROVE  \E a \in DOMAIN ackPending' : Waits(a)' = lines'[i].msg
    BY DEF RepliesAwaited
  <2>1. PICK a \in DOMAIN ackPending : Waits(a) = lines'[i].msg
    BY <1>14, ExactParts DEF RepliesAwaited
  <2>2. a # 1
    BY <1>4, <1>14, <2>1
  <2>3. QED
    BY <1>12, <2>1, <2>2
<1>22. CommandsAwaited'
  <2> SUFFICES ASSUME NEW j \in DOMAIN commands
               PROVE  \E a \in DOMAIN ackPending' : Waits(a)' = commands[j]
    BY <1>15 DEF CommandsAwaited
  <2>1. PICK a \in DOMAIN ackPending : Waits(a) = commands[j]
    BY ExactParts DEF CommandsAwaited
  <2>2. QED
    BY <1>4, <1>12, <1>15, <2>1
<1>23. RepliesInOrder'
  <2> SUFFICES ASSUME NEW a \in DOMAIN ackPending', NEW b \in DOMAIN ackPending',
                      NEW i \in DOMAIN lines', NEW j \in DOMAIN lines',
                      IsOk(i)', IsOk(j)', i < j, Waits(a)' = lines'[i].msg, Waits(b)' = lines'[j].msg
               PROVE  a < b
    BY DEF RepliesInOrder
  <2>1. i + 1 < j + 1
    BY DEF Handled
  <2>2. a + 1 < b + 1
    BY <1>11, <1>14, <2>1, ExactParts DEF RepliesInOrder
  <2>3. QED
    BY <1>11, <2>2
<1>24. CommandsInOrder'
  <2> SUFFICES ASSUME NEW a \in DOMAIN ackPending', NEW b \in DOMAIN ackPending',
                      NEW i \in DOMAIN commands, NEW j \in DOMAIN commands,
                      i < j, Waits(a)' = commands[i], Waits(b)' = commands[j]
               PROVE  a < b
    BY <1>15 DEF CommandsInOrder
  <2>1. a + 1 < b + 1
    BY <1>11, ExactParts DEF CommandsInOrder
  <2>2. QED
    BY <1>11, <2>1
<1>25. RepliesFirst'
  <2> SUFFICES ASSUME NEW a \in DOMAIN ackPending', NEW b \in DOMAIN ackPending',
                      NEW i \in DOMAIN lines', NEW j \in DOMAIN commands,
                      IsOk(i)', Waits(a)' = lines'[i].msg, Waits(b)' = commands[j]
               PROVE  a < b
    BY <1>15 DEF RepliesFirst
  <2>1. a + 1 < b + 1
    BY <1>11, <1>14, ExactParts DEF RepliesFirst
  <2>2. QED
    BY <1>11, <2>1
<1>26. RowOnce' /\ RowTyped' /\ RowsReceived'
  BY <1>9, ExactParts DEF RowOnce, RowTyped, RowsReceived, Handled
<1>27. RowAuto'
  BY <1>9, ExactParts DEF RowAuto, Introduces, Handled
<1>28. LeadsRight'
  BY <1>10 DEF LeadsRight, Handled
<1>29. SentReached'
  <2> SUFFICES ASSUME NEW n \in sent, uuidToLoc'[n] = None, \A i \in DOMAIN lines' : ~Introduces(i, n)'
               PROVE  <<n, "read">> \in receipts /\ \A i \in DOMAIN lines' : ~Ticked(i, n, "read")'
    BY DEF SentReached, Handled
  <2>1. n # m /\ n \in Messages /\ uuidToLoc[n] = None
    BY <1>7, <1>8 DEF ChatShaped
  <2>2. \A i \in DOMAIN lines : ~Introduces(i, n)
    BY <2>1 DEF Introduces, Handled
  <2>3. <<n, "read">> \in receipts /\ \A i \in DOMAIN lines : ~Ticked(i, n, "read")
    BY <2>1, <2>2, ExactParts DEF SentReached
  <2>4. QED
    BY <2>3 DEF Ticked, Handled
<1>30. \A n : \A k \in Ticks :
           (\E i \in DOMAIN lines : Ticked(i, n, k)) => \E i \in DOMAIN lines' : Ticked(i, n, k)'
  BY TicksStay DEF Ticks
<1>31. IdsToCome'
  <2> SUFFICES ASSUME NEW n \in Messages, NEW i \in DOMAIN lines', Introduces(i, n)'
               PROVE  /\ uuidToLoc'[n] = None
                      /\ \A k \in Ticks : <<n, k>> \in receipts => \E j \in DOMAIN lines' : Ticked(j, n, k)'
    BY DEF IdsToCome, Handled
  <2>1. Introduces(i + 1, n) /\ i + 1 \in DOMAIN lines /\ i + 1 # 1
    BY DEF Introduces, Handled
  <2>2. n # m
    BY <1>2, <2>1, ExactParts DEF RepliesOnce, Handled
  <2>3. QED
    BY <1>8, <1>30, <2>1, <2>2, ExactParts DEF IdsToCome
<1>32. \A k \in Ticks : <<m, k>> \in receipts => \E i \in DOMAIN lines' : Ticked(i, m, k)'
  <2> SUFFICES ASSUME NEW k \in Ticks, <<m, k>> \in receipts
               PROVE  \E i \in DOMAIN lines' : Ticked(i, m, k)'
    OBVIOUS
  <2>1. \E i \in DOMAIN lines : Ticked(i, m, k)
    BY <1>1, <1>2, ExactParts DEF IdsToCome, Handled
  <2>2. QED
    BY <1>30, <2>1
<1>33. ReadShown'
  <2> SUFFICES ASSUME NEW n \in Messages \ Files, <<n, "read">> \in receipts
               PROVE  \/ \E i \in DOMAIN lines' : Ticked(i, n, "read")'
                      \/ uuidToLoc'[n] = None /\ \A r \in Rows : Row(r).msg = n => Row(r).tick = "read"
    BY <1>9 DEF ReadShown, Handled
  <2>1. CASE n = m
    BY <1>32, <2>1 DEF Ticks
  <2>2. CASE n # m
    BY <1>8, <1>30, <2>2, ExactParts DEF ReadShown, Ticks
  <2>3. QED
    BY <2>1, <2>2
<1>34. DeliveredShown'
  <2> SUFFICES ASSUME NEW n \in Messages \ Files, <<n, "delivered">> \in receipts
               PROVE  \/ \E i \in DOMAIN lines' : Ticked(i, n, "delivered")'
                      \/ \A r \in Rows : Row(r).msg = n => Row(r).tick # "none"
    BY <1>9 DEF DeliveredShown, Handled
  <2>1. QED
    BY <1>30, ExactParts DEF DeliveredShown, Ticks
<1>35. QED
  BY <1>20, <1>21, <1>22, <1>23, <1>24, <1>25, <1>26, <1>27, <1>28, <1>29, <1>31, <1>33, <1>34, HandledKeeps
     DEF Exact, RowsOnce, TypedOnce, WaitingInOrder, IdsLead, TicksExact

(* Rows of nobody's message come for lines that bring no msg_id and no     *)
(* tick.                                                                   *)
LEMMA ExactNobodys ==
    ASSUME ChatShaped, PlacesApart, Exact, Handled,
           lines[1].kind \in {"error", "other", "notice"}, Grows(None),
           ackPending' = ackPending, uuidToLoc' = uuidToLoc
    PROVE  Exact'
<1>1. /\ \A r \in Rows : r \in Rows' /\ Row(r)' = Row(r)
      /\ \A r \in Rows' : r \in Rows \/ Row(r)' = NewRow(None)
  BY DEF Grows
<1>2. RowsKept
  BY <1>1 DEF RowsKept
<1>3. NewRow(None).msg = None /\ NewRow(None).tick = "none" /\ None \notin Messages
  BY MessageAssumption DEF NewRow
<1>4. ~IsOk(1) /\ lines[1].kind \notin Ticks /\ \A m : ~Introduces(1, m)
  BY DEF IsOk, Ticks, Introduces
<1>5. \A n : \A k \in Ticks :
          (\E i \in DOMAIN lines : Ticked(i, n, k)) => \E i \in DOMAIN lines' : Ticked(i, n, k)'
  BY <1>4, TicksStay
<1>6. RowOnce' /\ RowTyped'
  BY <1>1, <1>3, ExactParts DEF RowOnce, RowTyped, Handled, Messages
<1>7. RowAuto'
  BY <1>1, <1>3, ExactParts DEF RowAuto, Introduces, Handled, Messages
<1>8. LeadsRight'
  BY <1>2, LeadsKept, ExactParts DEF LeadsRight, Handled
<1>9. SentReached'
  <2> SUFFICES ASSUME NEW n \in sent, uuidToLoc'[n] = None, \A i \in DOMAIN lines' : ~Introduces(i, n)'
               PROVE  <<n, "read">> \in receipts /\ \A i \in DOMAIN lines' : ~Ticked(i, n, "read")'
    BY DEF SentReached, Handled
  <2>1. \A i \in DOMAIN lines : ~Introduces(i, n)
    BY <1>4 DEF Introduces, Handled
  <2>2. <<n, "read">> \in receipts /\ \A i \in DOMAIN lines : ~Ticked(i, n, "read")
    BY <2>1, ExactParts DEF SentReached
  <2>3. QED
    BY <2>2 DEF Ticked, Handled
<1>10. IdsToCome'
  <2> SUFFICES ASSUME NEW n \in Messages, NEW i \in DOMAIN lines', Introduces(i, n)'
               PROVE  /\ uuidToLoc'[n] = None
                      /\ \A k \in Ticks : <<n, k>> \in receipts => \E j \in DOMAIN lines' : Ticked(j, n, k)'
    BY DEF IdsToCome, Handled
  <2>1. Introduces(i + 1, n) /\ i + 1 \in DOMAIN lines
    BY DEF Introduces, Handled
  <2>2. QED
    BY <1>5, <2>1, ExactParts DEF IdsToCome
<1>11. RowsReceived'
  BY <1>1, <1>3, ExactParts DEF RowsReceived, Handled
<1>12. \A r \in Rows' : Row(r)'.msg \in Messages => r \in Rows /\ Row(r)' = Row(r)
  BY <1>1, <1>3
<1>13. ReadShown'
  <2> SUFFICES ASSUME NEW n \in Messages \ Files, <<n, "read">> \in receipts
               PROVE  \/ \E i \in DOMAIN lines' : Ticked(i, n, "read")'
                      \/ uuidToLoc[n] = None /\ \A r \in Rows' : Row(r)'.msg = n => Row(r)'.tick = "read"
    BY DEF ReadShown, Handled
  <2>1. \/ \E i \in DOMAIN lines : Ticked(i, n, "read")
        \/ uuidToLoc[n] = None /\ \A r \in Rows : Row(r).msg = n => Row(r).tick = "read"
    BY ExactParts DEF ReadShown
  <2>2. QED
    BY <1>5, <1>12, <2>1 DEF Ticks
<1>14. DeliveredShown'
  <2> SUFFICES ASSUME NEW n \in Messages \ Files, <<n, "delivered">> \in receipts
               PROVE  \/ \E i \in DOMAIN lines' : Ticked(i, n, "delivered")'
                      \/ \A r \in Rows' : Row(r)'.msg = n => Row(r)'.tick # "none"
    BY DEF DeliveredShown, Handled
  <2>1. \/ \E i \in DOMAIN lines : Ticked(i, n, "delivered")
        \/ \A r \in Rows : Row(r).msg = n => Row(r).tick # "none"
    BY ExactParts DEF DeliveredShown
  <2>2. QED
    BY <1>5, <1>12, <2>1 DEF Ticks
<1>15. QED
  BY <1>2, <1>4, <1>6, <1>7, <1>8, <1>9, <1>10, <1>11, <1>13, <1>14, HandledKeeps, HandledWaits
     DEF Exact, RowsOnce, TypedOnce, WaitingInOrder, IdsLead, TicksExact

LEMMA ExactShowAuto ==
    ASSUME ChatShaped, PlacesApart, Exact, Handled, Untrimmed',
           NEW m \in Autos, lines[1].kind = "auto", lines[1].msg = m, ShowAuto(m)
    PROVE  Exact'
<1>1. m \in Messages /\ m # None /\ m \notin Typed /\ m \in sent /\ Place[m] \in Chats
  BY MessageAssumption, ExactParts DEF Messages, RepliesSent, Handled
<1>2. ~IsOk(1) /\ lines[1].kind \notin Ticks /\ Introduces(1, m) /\ \A n : Introduces(1, n) => n = m
  BY DEF IsOk, Ticks, Introduces, Handled
<1>3. PICK loc \in LocType : loc = LastRow(Place[m]) /\ Grows(m) /\ <<loc.chat, loc.idx>> \in Rows' \ Rows
  BY <1>1, RowAdded, RowPut DEF ShowAuto
<1>4. /\ \A r \in Rows : r \in Rows' /\ Row(r)' = Row(r)
      /\ \A r \in Rows' : r \in Rows \/ (Row(r)' = NewRow(m) /\ r = <<loc.chat, loc.idx>>)
  BY <1>1, <1>3 DEF Grows
<1>5. NewRow(m).msg = m /\ NewRow(m).tick = "none" /\ loc # None
  BY RowAssumption DEF NewRow, LocType
<1>6. RowsKept
  BY <1>4 DEF RowsKept
<1>7. ackPending' = ackPending /\ \A n \in Messages : uuidToLoc'[n] = IF n = m THEN loc ELSE uuidToLoc[n]
  BY <1>3 DEF ShowAuto, ChatShaped
<1>8. \A r \in Rows : Row(r).msg # m
  BY <1>2, ExactParts DEF RowAuto, Handled
<1>9. \A n : \A k \in Ticks :
          (\E i \in DOMAIN lines : Ticked(i, n, k)) => \E i \in DOMAIN lines' : Ticked(i, n, k)'
  BY <1>2, TicksStay
<1>10. \A n \in Messages : uuidToLoc'[n] # None => Leads(n)' = n /\ n \in sent
  <2>1. Leads(m)' = m
    BY <1>1, <1>3, <1>4, <1>5, <1>7 DEF Leads, MsgAt
  <2>2. \A n \in Messages \ {m} : uuidToLoc[n] # None => Leads(n)' = Leads(n)
    BY <1>6, <1>7, LeadsKept
  <2>3. QED
    BY <1>1, <1>7, <2>1, <2>2, ExactParts DEF LeadsRight
<1>11. \A n \in Messages, i \in DOMAIN lines' : Introduces(i, n)' =>
           n # m /\ i + 1 \in DOMAIN lines /\ Introduces(i + 1, n)
  <2> SUFFICES ASSUME NEW n \in Messages, NEW i \in DOMAIN lines', Introduces(i, n)'
               PROVE  n # m /\ i + 1 \in DOMAIN lines /\ Introduces(i + 1, n)
    OBVIOUS
  <2>1. Introduces(i + 1, n) /\ i + 1 \in DOMAIN lines /\ i + 1 # 1
    BY DEF Introduces, Handled
  <2>2. QED
    BY <1>2, <2>1, ExactParts DEF RepliesOnce, Handled
<1>12. RowOnce' /\ RowTyped'
  BY <1>1, <1>4, <1>5, <1>8, ExactParts DEF RowOnce, RowTyped, Handled
<1>13. RowAuto'
  <2> SUFFICES ASSUME NEW r \in Rows', NEW n \in Autos, Row(r)'.msg = n
               PROVE  n \in sent /\ \A i \in DOMAIN lines' : ~Introduces(i, n)'
    BY DEF RowAuto, Introduces, Handled
  <2>1. CASE r \in Rows
    BY <1>4, <2>1, ExactParts DEF RowAuto, Introduces, Handled
  <2>2. CASE Row(r)' = NewRow(m)
    BY <1>1, <1>5, <1>11, <2>2 DEF Introduces
  <2>3. QED
    BY <1>4, <2>1, <2>2
<1>14. LeadsRight'
  BY <1>10 DEF LeadsRight, Handled
<1>15. SentReached'
  <2> SUFFICES ASSUME NEW n \in sent, uuidToLoc'[n] = None, \A i \in DOMAIN lines' : ~Introduces(i, n)'
               PROVE  <<n, "read">> \in receipts /\ \A i \in DOMAIN lines' : ~Ticked(i, n, "read")'
    BY DEF SentReached, Handled
  <2>1. n # m /\ n \in Messages /\ uuidToLoc[n] = None
    BY <1>5, <1>7 DEF ChatShaped
  <2>2. \A i \in DOMAIN lines : ~Introduces(i, n)
    BY <2>1 DEF Introduces, Handled
  <2>3. <<n, "read">> \in receipts /\ \A i \in DOMAIN lines : ~Ticked(i, n, "read")
    BY <2>1, <2>2, ExactParts DEF SentReached
  <2>4. QED
    BY <2>3 DEF Ticked, Handled
<1>16. IdsToCome'
  <2> SUFFICES ASSUME NEW n \in Messages, NEW i \in DOMAIN lines', Introduces(i, n)'
               PROVE  /\ uuidToLoc'[n] = None
                      /\ \A k \in Ticks : <<n, k>> \in receipts => \E j \in DOMAIN lines' : Ticked(j, n, k)'
    BY DEF IdsToCome, Handled
  <2>1. QED
    BY <1>7, <1>9, <1>11, ExactParts DEF IdsToCome
<1>17. RowsReceived'
  BY <1>4, <1>5, ExactParts DEF RowsReceived, Handled
<1>18. \A k \in Ticks : <<m, k>> \in receipts => \E i \in DOMAIN lines' : Ticked(i, m, k)'
  BY <1>1, <1>2, <1>9, ExactParts DEF IdsToCome, Handled
<1>19. ReadShown'
  <2> SUFFICES ASSUME NEW n \in Messages \ Files, <<n, "read">> \in receipts
               PROVE  \/ \E i \in DOMAIN lines' : Ticked(i, n, "read")'
                      \/ uuidToLoc'[n] = None /\ \A r \in Rows' : Row(r)'.msg = n => Row(r)'.tick = "read"
    BY DEF ReadShown, Handled
  <2>1. \/ \E i \in DOMAIN lines : Ticked(i, n, "read")
        \/ uuidToLoc[n] = None /\ \A r \in Rows : Row(r).msg = n => Row(r).tick = "read"
    BY ExactParts DEF ReadShown
  <2>2. CASE n = m
    BY <1>18, <2>2 DEF Ticks
  <2>3. CASE n # m
    BY <1>4, <1>5, <1>7, <1>9, <2>1, <2>3 DEF Ticks
  <2>4. QED
    BY <2>2, <2>3
<1>20. DeliveredShown'
  <2> SUFFICES ASSUME NEW n \in Messages \ Files, <<n, "delivered">> \in receipts
               PROVE  \/ \E i \in DOMAIN lines' : Ticked(i, n, "delivered")'
                      \/ \A r \in Rows' : Row(r)'.msg = n => Row(r)'.tick # "none"
    BY DEF DeliveredShown, Handled
  <2>1. \/ \E i \in DOMAIN lines : Ticked(i, n, "delivered")
        \/ \A r \in Rows : Row(r).msg = n => Row(r).tick # "none"
    BY ExactParts DEF DeliveredShown
  <2>2. CASE n = m
    BY <1>18, <2>2 DEF Ticks
  <2>3. CASE n # m
    BY <1>4, <1>5, <1>9, <2>1, <2>3 DEF Ticks
  <2>4. QED
    BY <2>2, <2>3
<1>21. QED
  BY <1>2, <1>6, <1>7, <1>12, <1>13, <1>14, <1>15, <1>16, <1>17, <1>19, <1>20, HandledKeeps, HandledWaits
     DEF Exact, RowsOnce, TypedOnce, WaitingInOrder, IdsLead, TicksExact

(* The id of a tick leads to its row, or the message was read and it was   *)
(* the last that came of it.                                               *)
LEMMA ExactShowTick ==
    ASSUME ChatShaped, PlacesApart, Exact, Handled,
           NEW m \in Messages, NEW tick \in Ticks, lines[1].kind = tick, lines[1].msg = m,
           ShowTick(m, tick)
    PROVE  Exact'
<1>1. /\ ~IsOk(1) /\ Ticked(1, m, tick) /\ \A n : ~Introduces(1, n)
      /\ \A n, k : Ticked(1, n, k) => n = m /\ k = tick
  BY DEF IsOk, Ticks, Introduces, Ticked, Handled
<1>2. <<m, tick>> \in receipts /\ m \in sent
  BY <1>1, ExactParts DEF TicksReceived, ReceiptsSent, Handled
<1>3. \A i \in DOMAIN lines : ~Introduces(i, m)
  <2> SUFFICES ASSUME NEW i \in DOMAIN lines, Introduces(i, m) PROVE FALSE
    OBVIOUS
  <2>1. i < 1
    BY <1>1, ExactParts DEF IdsFirst, Handled
  <2>2. QED
    BY <2>1 DEF ChatShaped
<1>4. \A i \in DOMAIN lines : i # 1 => ~Ticked(i, m, tick)
  BY <1>1, ExactParts DEF TicksOnce, Handled
<1>5. \A i \in DOMAIN lines' : ~Ticked(i, m, tick)'
  BY <1>4 DEF Ticked, Handled
<1>6. \A n : \A k \in Ticks : (n # m \/ k # tick) /\ (\E i \in DOMAIN lines : Ticked(i, n, k))
                              => \E i \in DOMAIN lines' : Ticked(i, n, k)'
  <2> SUFFICES ASSUME NEW n, NEW k \in Ticks, n # m \/ k # tick, NEW i \in DOMAIN lines, Ticked(i, n, k)
               PROVE  \E j \in DOMAIN lines' : Ticked(j, n, k)'
    OBVIOUS
  <2>1. i # 1
    BY <1>1
  <2>2. PICK j \in DOMAIN lines' : lines'[j] = lines[i]
    BY <2>1 DEF Handled
  <2>3. Ticked(j, n, k)'
    BY <2>2 DEF Ticked
  <2>4. QED
    BY <2>3
<1>7. \A n : \A i \in DOMAIN lines' : Introduces(i, n)' => i + 1 \in DOMAIN lines /\ Introduces(i + 1, n)
  BY DEF Introduces, Handled
<1>8. /\ ackPending' = ackPending
      /\ \A n \in Messages : uuidToLoc'[n] = IF n = m /\ tick = "read" THEN None ELSE uuidToLoc[n]
  BY ShapedShowTick DEF ShowTick, LocAfter, ChatShaped
<1>9. /\ Rows' = Rows
      /\ \A r \in Rows :
            IF /\ uuidToLoc[m] # None /\ r = <<uuidToLoc[m].chat, uuidToLoc[m].idx>>
               /\ Row(r).msg \notin Files
            THEN Row(r)' = [msg |-> Row(r).msg, tick |-> tick]
            ELSE Row(r)' = Row(r)
  BY RowTicked DEF PlacesApart
<1>10. \A r \in Rows : Row(r)'.msg = Row(r).msg
  BY <1>9
<1>11. RowsKept
  BY <1>9, <1>10 DEF RowsKept
<1>12. uuidToLoc[m] # None =>
           \A r \in Rows : Row(r).msg = m <=> r = <<uuidToLoc[m].chat, uuidToLoc[m].idx>>
  <2> SUFFICES ASSUME uuidToLoc[m] # None
               PROVE  \A r \in Rows : Row(r).msg = m <=> r = <<uuidToLoc[m].chat, uuidToLoc[m].idx>>
    OBVIOUS
  <2> DEFINE s == <<uuidToLoc[m].chat, uuidToLoc[m].idx>>
  <2>1. s \in Rows /\ Row(s).msg = m /\ m # None
    BY ExactParts, MessageAssumption DEF LeadsRight, Leads, MsgAt, PlacesApart, RowThere
  <2> HIDE DEF s
  <2>2. \A r \in Rows : Row(r).msg = m <=> r = s
    BY <2>1, ExactParts DEF RowOnce
  <2>3. QED
    BY <2>2 DEF s
<1>13. \A r \in Rows : Row(r).msg # m => Row(r)' = Row(r)
  BY <1>9, <1>12
<1>14. m \notin Files /\ uuidToLoc[m] # None => \A r \in Rows : Row(r).msg = m => Row(r)'.tick = tick
  BY <1>9, <1>12
<1>15. uuidToLoc[m] = None => \A r \in Rows : Row(r)' = Row(r)
  BY <1>9
<1>16. uuidToLoc[m] = None =>
           tick # "read" /\ <<m, "read">> \in receipts /\ \A i \in DOMAIN lines : ~Ticked(i, m, "read")
  BY <1>1, <1>2, <1>3, ExactParts DEF SentReached, Handled
<1>17. tick # "none" /\ (tick # "read" => tick = "delivered")
  BY DEF Ticks
<1>20. RowOnce' /\ RowTyped'
  BY <1>9, <1>10, ExactParts DEF RowOnce, RowTyped, Handled
<1>21. RowAuto'
  <2> SUFFICES ASSUME NEW r \in Rows, NEW n \in Autos, Row(r).msg = n
               PROVE  n \in sent /\ \A i \in DOMAIN lines' : ~Introduces(i, n)'
    BY <1>9, <1>10 DEF RowAuto, Introduces, Handled
  <2>1. n \in sent /\ \A i \in DOMAIN lines : ~Introduces(i, n)
    BY ExactParts DEF RowAuto
  <2>2. QED
    BY <1>7, <2>1
<1>22. LeadsRight'
  <2>1. \A n \in Messages : uuidToLoc'[n] # None => uuidToLoc'[n] = uuidToLoc[n] /\ uuidToLoc[n] # None
    BY <1>8
  <2>2. \A n \in Messages : uuidToLoc'[n] # None => Leads(n)' = Leads(n)
    BY <1>11, <2>1, LeadsKept
  <2>3. QED
    BY <2>1, <2>2, ExactParts DEF LeadsRight, Handled
<1>23. SentReached'
  <2> SUFFICES ASSUME NEW n \in sent, uuidToLoc'[n] = None, \A i \in DOMAIN lines' : ~Introduces(i, n)'
               PROVE  <<n, "read">> \in receipts /\ \A i \in DOMAIN lines' : ~Ticked(i, n, "read")'
    BY DEF SentReached, Handled
  <2>1. n \in Messages
    BY DEF ChatShaped
  <2>2. \A i \in DOMAIN lines : ~Introduces(i, n)
    BY <1>1 DEF Introduces, Handled
  <2>3. CASE n = m /\ tick = "read"
    BY <1>2, <1>5, <2>3
  <2>4. CASE ~(n = m /\ tick = "read")
    <3>1. uuidToLoc[n] = None
      BY <1>8, <2>1, <2>4
    <3>2. <<n, "read">> \in receipts /\ \A i \in DOMAIN lines : ~Ticked(i, n, "read")
      BY <2>2, <3>1, ExactParts DEF SentReached
    <3>3. QED
      BY <3>2 DEF Ticked, Handled
  <2>5. QED
    BY <2>3, <2>4
<1>24. IdsToCome'
  <2> SUFFICES ASSUME NEW n \in Messages, NEW i \in DOMAIN lines', Introduces(i, n)'
               PROVE  /\ uuidToLoc'[n] = None
                      /\ \A k \in Ticks : <<n, k>> \in receipts => \E j \in DOMAIN lines' : Ticked(j, n, k)'
    BY DEF IdsToCome, Handled
  <2>1. i + 1 \in DOMAIN lines /\ Introduces(i + 1, n) /\ n # m
    BY <1>3, <1>7
  <2>2. QED
    BY <1>6, <1>8, <2>1, ExactParts DEF IdsToCome
<1>25. RowsReceived'
  <2> SUFFICES ASSUME NEW r \in Rows, Row(r)'.tick # "none"
               PROVE  <<Row(r).msg, Row(r)'.tick>> \in receipts
    BY <1>9, <1>10 DEF RowsReceived, Handled
  <2>1. CASE Row(r)' = Row(r)
    BY <2>1, ExactParts DEF RowsReceived
  <2>2. CASE Row(r)' # Row(r)
    <3>1. Row(r).msg = m /\ Row(r)' = [msg |-> Row(r).msg, tick |-> tick]
      BY <1>9, <1>13, <2>2
    <3>2. QED
      BY <1>2, <3>1
  <2>3. QED
    BY <2>1, <2>2
<1>26. ReadShown'
  <2> SUFFICES ASSUME NEW n \in Messages \ Files, <<n, "read">> \in receipts
               PROVE  \/ \E i \in DOMAIN lines' : Ticked(i, n, "read")'
                      \/ uuidToLoc'[n] = None /\ \A r \in Rows : Row(r).msg = n => Row(r)'.tick = "read"
    BY <1>9, <1>10 DEF ReadShown, Handled
  <2>1. \/ \E i \in DOMAIN lines : Ticked(i, n, "read")
        \/ uuidToLoc[n] = None /\ \A r \in Rows : Row(r).msg = n => Row(r).tick = "read"
    BY ExactParts DEF ReadShown
  <2>2. CASE n # m
    BY <1>6, <1>8, <1>13, <2>1, <2>2 DEF Ticks
  <2>3. CASE n = m /\ tick = "read"
    <3>1. uuidToLoc[m] # None
      BY <1>16, <2>3
    <3>2. \A r \in Rows : Row(r).msg = n => Row(r)'.tick = "read"
      BY <1>14, <2>3, <3>1
    <3>3. QED
      BY <1>8, <2>3, <3>2
  <2>4. CASE n = m /\ tick # "read" /\ uuidToLoc[m] = None
    <3>1. \A r \in Rows : Row(r).msg = n => Row(r).tick = "read"
      BY <1>16, <2>1, <2>4
    <3>2. QED
      BY <1>8, <1>15, <2>4, <3>1
  <2>5. CASE n = m /\ tick # "read" /\ uuidToLoc[m] # None
    BY <1>6, <2>1, <2>5 DEF Ticks
  <2>6. QED
    BY <2>2, <2>3, <2>4, <2>5
<1>27. DeliveredShown'
  <2> SUFFICES ASSUME NEW n \in Messages \ Files, <<n, "delivered">> \in receipts
               PROVE  \/ \E i \in DOMAIN lines' : Ticked(i, n, "delivered")'
                      \/ \A r \in Rows : Row(r).msg = n => Row(r)'.tick # "none"
    BY <1>9, <1>10 DEF DeliveredShown, Handled
  <2>1. \/ \E i \in DOMAIN lines : Ticked(i, n, "delivered")
        \/ \A r \in Rows : Row(r).msg = n => Row(r).tick # "none"
    BY ExactParts DEF DeliveredShown
  <2>2. CASE n # m
    BY <1>6, <1>13, <2>1, <2>2 DEF Ticks
  <2>3. CASE n = m /\ uuidToLoc[m] # None
    BY <1>14, <1>17, <2>3
  <2>4. CASE n = m /\ uuidToLoc[m] = None
    <3>1. \A r \in Rows : Row(r).msg = n => Row(r).tick = "read"
      BY <1>16, <2>4, ExactParts DEF ReadShown
    <3>2. QED
      BY <1>15, <2>4, <3>1
  <2>5. QED
    BY <2>2, <2>3, <2>4
<1>28. QED
  BY <1>1, <1>8, <1>11, <1>20, <1>21, <1>22, <1>23, <1>24, <1>25, <1>26, <1>27, HandledKeeps, HandledWaits
     DEF Exact, RowsOnce, TypedOnce, WaitingInOrder, IdsLead, TicksExact

LEMMA ExactHandleIpcEvent ==
    ASSUME ChatShaped, PlacesApart, Exact, Untrimmed', HandleIpcEvent
    PROVE  Exact'
<1> DEFINE l == Head(lines)
<1>1. Handled /\ l = lines[1]
  BY HandledFirst
<1>2. /\ l.kind = "ok" => l.msg \in Typed
      /\ l.kind = "auto" => l.msg \in Autos
      /\ l.kind \in Ticks => l.msg \in Messages
  BY <1>1 DEF ChatShaped, Handled
<1>3. \/ l.kind = "ok" /\ AssignId(l.msg)
      \/ l.kind = "error" /\ ShowError
      \/ l.kind = "other" /\ ShowOther
      \/ l.kind = "notice" /\ ShowNotice
      \/ l.kind = "auto" /\ ShowAuto(l.msg)
      \/ l.kind \in Ticks /\ ShowTick(l.msg, l.kind)
  BY DEF HandleIpcEvent, Ticks
<1> HIDE DEF l
<1>4. CASE l.kind = "ok" /\ AssignId(l.msg)
  BY <1>1, <1>2, <1>4, ExactAssignId
<1>5. CASE l.kind \in {"error", "other"} /\ (ShowError \/ ShowOther)
  <2>1. PICK c \in Chats : AddNobodys(c)
    BY <1>5 DEF ShowError, ShowOther
  <2>2. Grows(None) /\ ackPending' = ackPending /\ uuidToLoc' = uuidToLoc
    BY <2>1, RowAdded DEF AddNobodys
  <2>3. QED
    BY <1>1, <1>5, <2>2, ExactNobodys
<1>6. CASE l.kind = "notice" /\ ShowNotice
  BY <1>1, <1>6, NoticeAdded, ExactNobodys
<1>7. CASE l.kind = "auto" /\ ShowAuto(l.msg)
  BY <1>1, <1>2, <1>7, ExactShowAuto
<1>8. CASE l.kind \in Ticks /\ ShowTick(l.msg, l.kind)
  BY <1>1, <1>2, <1>8, ExactShowTick
<1>9. QED
  BY <1>3, <1>4, <1>5, <1>6, <1>7, <1>8

LEMMA ExactNext ==
    ASSUME ChatShaped, PlacesApart, Undisturbed => Exact, Untrimmed', [Next]_vars, Undisturbed'
    PROVE  Exact'
<1>1. failed \subseteq failed' /\ typed \subseteq typed'
  BY DEF Next, vars, daemon, SendInput, AutoReply, Acknowledge, HandleCommand, OtherMessage, HandleIpcEvent
<1>2. Undisturbed /\ Exact
  BY <1>1 DEF Undisturbed
<1>3. CASE UNCHANGED vars
  <2>1. RowsOnce' /\ TypedOnce'
    <3>1. RowsOnce'
      BY <1>2, <1>3 DEF vars, window, daemon, Exact, RowsOnce, RowOnce, RowTyped, RowAuto,
         Introduces, Rows, Row
    <3>2. TypedOnce'
      BY <1>2, <1>3 DEF vars, window, daemon, Exact, TypedOnce, CommandsUnsent, CommandsOnce,
         RepliesSent, RepliesOnce, SentTyped, Introduces
    <3>3. QED
      BY <3>1, <3>2
  <2>2. WaitingInOrder'
    <3>1. WaitsForSome' /\ RepliesAwaited' /\ CommandsAwaited'
      BY <1>2, <1>3 DEF vars, window, daemon, Exact, WaitingInOrder, WaitsForSome, RepliesAwaited,
         CommandsAwaited, IsOk, Waits, MsgAt, Row
    <3>2. RepliesInOrder' /\ CommandsInOrder' /\ RepliesFirst'
      BY <1>2, <1>3 DEF vars, window, daemon, Exact, WaitingInOrder,
         RepliesInOrder, CommandsInOrder, RepliesFirst, IsOk, Waits, MsgAt, Row
    <3>3. QED
      BY <3>1, <3>2 DEF WaitingInOrder
  <2>3. IdsLead'
    BY <1>2, <1>3 DEF vars, window, daemon, Exact, IdsLead, LeadsRight, SentReached, IdsFirst,
       IdsToCome, IsOk, Introduces, Ticked, Waits, Leads, MsgAt, Rows, Row
  <2>4. TicksExact'
    BY <1>2, <1>3 DEF vars, window, daemon, Exact, TicksExact, ReceiptsSent, TicksReceived,
       TicksOnce, RowsReceived, ReadShown, DeliveredShown,
       IsOk, Introduces, Ticked, Waits, Leads, MsgAt, Rows, Row
  <2>5. QED
    BY <2>1, <2>2, <2>3, <2>4 DEF Exact
<1>4. ASSUME NEW m \in Typed, SendInput(m) PROVE Exact'
  <2>1. m \notin Broadcasts
    BY <1>4 DEF SendInput, Undisturbed
  <2>2. QED
    BY <1>2, <1>4, <2>1, ExactSendInput
<1>5. CASE HandleCommand
  <2>1. PICK m : m = Head(commands)
    OBVIOUS
  <2>2. Say("ok", m) /\ sent' = sent \cup {m}
    BY <1>5, <2>1 DEF HandleCommand, Undisturbed
  <2>3. QED
    BY <1>2, <1>5, <2>1, <2>2, ExactHandleCommand
<1>6. CASE \E m \in Autos : AutoReply(m)
  BY <1>2, <1>6, ExactAutoReply
<1>7. CASE \E m \in Messages, tick \in Ticks : Acknowledge(m, tick)
  BY <1>2, <1>7, ExactAcknowledge
<1>8. QED
  BY <1>2, <1>3, <1>4, <1>5, <1>6, <1>7, ExactOtherMessage, ExactHandleIpcEvent DEF Next, Ticks

LEMMA ExactInit == Init => Exact
<1> SUFFICES ASSUME Init PROVE Exact
  OBVIOUS
<1>1. Rows = {} /\ DOMAIN ackPending = {} /\ DOMAIN commands = {} /\ DOMAIN lines = {}
  BY DEF Init, Rows
<1>2. sent = {} /\ receipts = {} /\ \A m \in Messages : uuidToLoc[m] = None
  BY DEF Init
<1>3. RowsOnce /\ TypedOnce /\ WaitingInOrder
  BY <1>1, <1>2
     DEF RowsOnce, RowOnce, RowTyped, RowAuto, TypedOnce, CommandsUnsent, CommandsOnce, RepliesSent,
         RepliesOnce, SentTyped, WaitingInOrder, WaitsForSome, RepliesAwaited, CommandsAwaited,
         RepliesInOrder, CommandsInOrder, RepliesFirst
<1>4. IdsLead /\ TicksExact
  BY <1>1, <1>2
     DEF IdsLead, LeadsRight, SentReached, IdsFirst, IdsToCome, TicksExact, ReceiptsSent,
         TicksReceived, TicksOnce, RowsReceived, ReadShown, DeliveredShown
<1>5. QED
  BY <1>3, <1>4 DEF Exact

LEMMA ExactAlways == Spec /\ []Untrimmed => [](ChatShaped /\ (Undisturbed => Exact))
<1>1. Init => PlacesApart /\ (Undisturbed => Exact)
  BY ExactInit DEF Init, PlacesApart, IdsApart
<1>2. ChatShaped /\ PlacesApart /\ (Undisturbed => Exact) /\ Untrimmed' /\ [Next]_vars
          => PlacesApart' /\ (Undisturbed' => Exact')
  BY ApartNext, ExactNext
<1>3. QED
  BY <1>1, <1>2, ShapedAlways, PTL DEF Spec

(* A tick means what it says, however replies, the daemon's own messages,  *)
(* receipts and others' messages interleave: _handle_ipc_event pairs each  *)
(* reply with the row of its command.                                      *)
THEOREM TicksTruthfulAlways == Spec /\ []Untrimmed => []TicksTruthful
<1>1. (Undisturbed => Exact) => TicksTruthful
  BY ExactParts DEF TicksTruthful, RowsReceived
<1>2. QED
  BY <1>1, ExactAlways, PTL

(* And none is missing when nothing is on its way, though "read" may come  *)
(* before "delivered" and either before more is typed.                     *)
THEOREM TicksCompleteAlways == Spec /\ []Untrimmed => []TicksComplete
<1>1. ChatShaped /\ (Undisturbed => Exact) => TicksComplete
  <2> SUFFICES ASSUME ChatShaped, Exact, lines = <<>>, NEW r \in Rows
               PROVE  LET m == Row(r).msg
                      IN  /\ <<m, "read">> \in receipts /\ m \notin Files => Row(r).tick = "read"
                          /\ <<m, "delivered">> \in receipts /\ m \notin Files => Row(r).tick # "none"
    BY DEF TicksComplete
  <2>1. \A i \in DOMAIN lines : FALSE
    OBVIOUS
  <2>2. \A m, k : <<m, k>> \in receipts => m \in Messages
    BY DEF ChatShaped
  <2>3. QED
    BY <2>1, <2>2, ExactParts DEF ReadShown, DeliveredShown
<1>2. QED
  BY <1>1, ExactAlways, PTL

-----------------------------------------------------------------------------
(* The tasks and the lines of a queue, as sets.                            *)

Elements(q) == {q[i] : i \in DOMAIN q}

Number(t) == t.line.n
Numbers(q) == {Number(q[i]) : i \in DOMAIN q}

(* No event has two tasks in the queue.                                    *)
Apart(q) == \A i, j \in DOMAIN q : Number(q[i]) = Number(q[j]) => i = j

(* Those that no run has begun wait in the order of the events.            *)
Queued(q) == \A i, j \in DOMAIN q : i < j /\ ~q[i].begun /\ ~q[j].begun => Number(q[i]) < Number(q[j])

LEMMA TaskAppended ==
    ASSUME NEW S, NEW q \in Seq(S), NEW t \in S
    PROVE  /\ Elements(Append(q, t)) = Elements(q) \cup {t}
           /\ Numbers(Append(q, t)) = Numbers(q) \cup {Number(t)}
           /\ Apart(q) /\ Number(t) \notin Numbers(q) => Apart(Append(q, t))
           /\ Queued(q) /\ (t.begun \/ \A i \in DOMAIN q : ~q[i].begun => Number(q[i]) < Number(t))
              => Queued(Append(q, t))
PROOF
  <1>1. Longer(q, Append(q, t), t)
    BY AppendFacts
  <1>2. Elements(Append(q, t)) = Elements(q) \cup {t}
    BY <1>1 DEF Longer, Elements
  <1>3. Numbers(Append(q, t)) = Numbers(q) \cup {Number(t)}
    BY <1>1 DEF Longer, Numbers
  <1>4. Apart(q) /\ Number(t) \notin Numbers(q) => Apart(Append(q, t))
    BY <1>1 DEF Longer, Numbers, Apart
  <1>5. ASSUME Queued(q), t.begun \/ \A i \in DOMAIN q : ~q[i].begun => Number(q[i]) < Number(t)
        PROVE  Queued(Append(q, t))
    BY <1>1, <1>5 DEF Longer, Queued
  <1> QED BY <1>2, <1>3, <1>4, <1>5

LEMMA TaskTaken ==
    ASSUME NEW S, NEW q \in Seq(S), q # <<>>
    PROVE  /\ Elements(q) = Elements(Tail(q)) \cup {Head(q)}
           /\ Numbers(Tail(q)) \subseteq Numbers(q)
           /\ Apart(q) => Apart(Tail(q)) /\ Number(Head(q)) \notin Numbers(Tail(q))
           /\ Queued(q) => /\ Queued(Tail(q))
                           /\ ~Head(q).begun => \A t \in Elements(Tail(q)) : ~t.begun => Number(Head(q)) < Number(t)
PROOF
  <1>1. Shorter(q, Tail(q)) /\ Head(q) = q[1]
    BY TailFacts
  <1>2. Elements(q) = Elements(Tail(q)) \cup {Head(q)}
    <2>1. ASSUME NEW t \in Elements(q) PROVE t \in Elements(Tail(q)) \cup {Head(q)}
      <3>1. PICK i \in DOMAIN q : t = q[i]
        BY DEF Elements
      <3>2. CASE i = 1
        BY <1>1, <3>1, <3>2
      <3>3. CASE i # 1
        BY <1>1, <3>1, <3>3 DEF Shorter, Elements
      <3> QED BY <3>2, <3>3
    <2>2. Elements(Tail(q)) \subseteq Elements(q) /\ Head(q) \in Elements(q)
      BY <1>1 DEF Shorter, Elements
    <2> QED BY <2>1, <2>2
  <1>3. Numbers(Tail(q)) \subseteq Numbers(q)
    BY <1>1 DEF Shorter, Numbers
  <1>4. Apart(q) => Apart(Tail(q)) /\ Number(Head(q)) \notin Numbers(Tail(q))
    BY <1>1 DEF Shorter, Numbers, Apart
  <1>5. ASSUME Queued(q)
        PROVE  /\ Queued(Tail(q))
               /\ ~Head(q).begun => \A t \in Elements(Tail(q)) : ~t.begun => Number(Head(q)) < Number(t)
    <2>1. Queued(Tail(q))
      BY <1>1, <1>5 DEF Shorter, Queued
    <2>2. ASSUME ~Head(q).begun, NEW t \in Elements(Tail(q)), ~t.begun
          PROVE  Number(Head(q)) < Number(t)
      <3>1. PICK i \in DOMAIN Tail(q) : t = Tail(q)[i]
        BY DEF Elements
      <3>2. i + 1 \in DOMAIN q /\ t = q[i + 1] /\ 1 \in DOMAIN q /\ 1 < i + 1 /\ Head(q) = q[1]
        BY <1>1, <3>1 DEF Shorter
      <3> QED BY <1>5, <2>2, <3>2 DEF Queued
    <2> QED BY <2>1, <2>2
  <1> QED BY <1>2, <1>3, <1>4, <1>5

LEMMA TasksJoined ==
    ASSUME NEW S, NEW q \in Seq(S), NEW r \in Seq(S)
    PROVE  /\ q \o r \in Seq(S)
           /\ Elements(q \o r) = Elements(q) \cup Elements(r)
           /\ Numbers(q \o r) = Numbers(q) \cup Numbers(r)
           /\ Apart(q) /\ Apart(r) /\ Numbers(q) \cap Numbers(r) = {} => Apart(q \o r)
           /\ Queued(q) /\ (\A t \in Elements(r) : t.begun) => Queued(q \o r)
PROOF
  <1> DEFINE s == q \o r
  <1>1. /\ s \in Seq(S) /\ DOMAIN q \subseteq Nat /\ DOMAIN r \subseteq Nat
        /\ \A i \in DOMAIN q : i \in DOMAIN s /\ s[i] = q[i] /\ i <= Len(q)
        /\ \A i \in DOMAIN r : i + Len(q) \in DOMAIN s /\ s[i + Len(q)] = r[i]
        /\ \A i \in DOMAIN s : i \in DOMAIN q \/ (i - Len(q) \in DOMAIN r /\ s[i] = r[i - Len(q)])
        /\ DOMAIN s \subseteq Nat /\ Len(q) \in Nat
    OBVIOUS
  <1> HIDE DEF s
  <1>2. Elements(s) = Elements(q) \cup Elements(r)
    BY <1>1 DEF Elements
  <1>3. Numbers(s) = Numbers(q) \cup Numbers(r)
    BY <1>1 DEF Numbers
  <1>4. ASSUME Apart(q), Apart(r), Numbers(q) \cap Numbers(r) = {}
        PROVE  Apart(s)
    <2> SUFFICES ASSUME NEW i \in DOMAIN s, NEW j \in DOMAIN s, Number(s[i]) = Number(s[j])
                 PROVE  i = j
      BY DEF Apart
    <2>1. CASE i \in DOMAIN q /\ j \in DOMAIN q
      BY <1>1, <1>4, <2>1 DEF Apart
    <2>2. CASE i \notin DOMAIN q /\ j \notin DOMAIN q
      <3>1. i - Len(q) = j - Len(q)
        BY <1>1, <1>4, <2>2 DEF Apart
      <3> QED BY <1>1, <3>1
    <2>3. CASE i \in DOMAIN q /\ j \notin DOMAIN q
      <3>1. Number(s[i]) \in Numbers(q) /\ Number(s[j]) \in Numbers(r)
        BY <1>1, <2>3 DEF Numbers
      <3> QED BY <1>4, <3>1
    <2>4. CASE i \notin DOMAIN q /\ j \in DOMAIN q
      <3>1. Number(s[j]) \in Numbers(q) /\ Number(s[i]) \in Numbers(r)
        BY <1>1, <2>4 DEF Numbers
      <3> QED BY <1>4, <3>1
    <2> QED BY <2>1, <2>2, <2>3, <2>4
  <1>5. ASSUME Queued(q), \A t \in Elements(r) : t.begun
        PROVE  Queued(s)
    <2> SUFFICES ASSUME NEW i \in DOMAIN s, NEW j \in DOMAIN s, i < j, ~s[i].begun, ~s[j].begun
                 PROVE  Number(s[i]) < Number(s[j])
      BY DEF Queued
    <2>1. i \in DOMAIN q /\ j \in DOMAIN q
      BY <1>1, <1>5 DEF Elements
    <2> QED BY <1>1, <1>5, <2>1 DEF Queued
  <1> QED BY <1>1, <1>2, <1>3, <1>4, <1>5 DEF s

(* The numbers of the events among the lines of a client.                  *)
IsEvent(line) == line.kind # "peers"
EventsOf(q) == {q[i].n : i \in {k \in DOMAIN q : IsEvent(q[k])}}

Once(q) == \A i, j \in DOMAIN q : IsEvent(q[i]) /\ IsEvent(q[j]) /\ q[i].n = q[j].n => i = j
Rising(q) == \A i, j \in DOMAIN q : IsEvent(q[i]) /\ IsEvent(q[j]) /\ i < j => q[i].n < q[j].n

LEMMA LineAppended ==
    ASSUME NEW S, NEW q \in Seq(S), NEW e \in S
    PROVE  /\ EventsOf(Append(q, e)) = EventsOf(q) \cup (IF IsEvent(e) THEN {e.n} ELSE {})
           /\ Once(q) /\ (IsEvent(e) => e.n \notin EventsOf(q)) => Once(Append(q, e))
           /\ Rising(q) /\ (IsEvent(e) => \A n \in EventsOf(q) : n < e.n) => Rising(Append(q, e))
PROOF
  <1>1. Longer(q, Append(q, e), e)
    BY AppendFacts
  <1>2. EventsOf(Append(q, e)) = EventsOf(q) \cup (IF IsEvent(e) THEN {e.n} ELSE {})
    <2> DEFINE r == Append(q, e)
    <2>1. ASSUME NEW n \in EventsOf(r) PROVE n \in EventsOf(q) \/ (IsEvent(e) /\ n = e.n)
      <3>1. PICK i \in DOMAIN r : IsEvent(r[i]) /\ n = r[i].n
        BY DEF EventsOf
      <3>2. i = Len(q) + 1 \/ (i \in DOMAIN q /\ r[i] = q[i])
        BY <1>1 DEF Longer
      <3> QED BY <1>1, <3>1, <3>2 DEF Longer, EventsOf
    <2>2. EventsOf(q) \subseteq EventsOf(r)
      BY <1>1 DEF Longer, EventsOf
    <2>3. IsEvent(e) => e.n \in EventsOf(r)
      BY <1>1 DEF Longer, EventsOf
    <2> QED BY <2>1, <2>2, <2>3
  <1>3. ASSUME Once(q), IsEvent(e) => e.n \notin EventsOf(q)
        PROVE  Once(Append(q, e))
    BY <1>1, <1>3 DEF Longer, EventsOf, Once
  <1>4. ASSUME Rising(q), IsEvent(e) => \A n \in EventsOf(q) : n < e.n
        PROVE  Rising(Append(q, e))
    BY <1>1, <1>4 DEF Longer, EventsOf, Rising
  <1> QED BY <1>2, <1>3, <1>4

LEMMA LineTaken ==
    ASSUME NEW S, NEW q \in Seq(S), q # <<>>
    PROVE  /\ EventsOf(q) = EventsOf(Tail(q)) \cup (IF IsEvent(Head(q)) THEN {Head(q).n} ELSE {})
           /\ Once(q) => Once(Tail(q)) /\ (IsEvent(Head(q)) => Head(q).n \notin EventsOf(Tail(q)))
           /\ Rising(q) => Rising(Tail(q)) /\ (IsEvent(Head(q)) => \A n \in EventsOf(Tail(q)) : Head(q).n < n)
PROOF
  <1> DEFINE r == Tail(q)
  <1>1. Shorter(q, r) /\ Head(q) = q[1]
    BY TailFacts
  <1> HIDE DEF r
  <1>2. EventsOf(q) = EventsOf(r) \cup (IF IsEvent(Head(q)) THEN {Head(q).n} ELSE {})
    <2>1. ASSUME NEW n \in EventsOf(q) PROVE n \in EventsOf(r) \/ (IsEvent(Head(q)) /\ n = Head(q).n)
      <3>1. PICK i \in DOMAIN q : IsEvent(q[i]) /\ n = q[i].n
        BY DEF EventsOf
      <3>2. i = 1 \/ (i - 1 \in DOMAIN r /\ r[i - 1] = q[i])
        BY <1>1 DEF Shorter
      <3> QED BY <1>1, <3>1, <3>2 DEF Shorter, EventsOf
    <2>2. EventsOf(r) \subseteq EventsOf(q)
      BY <1>1 DEF Shorter, EventsOf
    <2>3. IsEvent(Head(q)) => Head(q).n \in EventsOf(q)
      BY <1>1 DEF Shorter, EventsOf
    <2> QED BY <2>1, <2>2, <2>3
  <1>3. ASSUME NEW n \in EventsOf(r)
        PROVE  \E i \in DOMAIN q : 1 \in DOMAIN q /\ 1 < i /\ IsEvent(q[i]) /\ q[i].n = n
    <2>1. PICK i \in DOMAIN r : IsEvent(r[i]) /\ n = r[i].n
      BY DEF EventsOf
    <2>2. i + 1 \in DOMAIN q /\ r[i] = q[i + 1] /\ 1 < i + 1 /\ 1 \in DOMAIN q
      BY <1>1, <2>1 DEF Shorter
    <2> QED BY <2>1, <2>2
  <1>4. ASSUME Once(q)
        PROVE  Once(r) /\ (IsEvent(Head(q)) => Head(q).n \notin EventsOf(r))
    <2>1. Once(r)
      <3> SUFFICES ASSUME NEW i \in DOMAIN r, NEW j \in DOMAIN r, IsEvent(r[i]), IsEvent(r[j]), r[i].n = r[j].n
                   PROVE  i = j
        BY DEF Once
      <3>1. i + 1 \in DOMAIN q /\ j + 1 \in DOMAIN q /\ r[i] = q[i + 1] /\ r[j] = q[j + 1]
        BY <1>1 DEF Shorter
      <3>2. i + 1 = j + 1
        BY <1>4, <3>1 DEF Once
      <3>3. i \in Nat /\ j \in Nat
        BY <1>1 DEF Shorter
      <3> QED BY <3>2, <3>3
    <2>2. ASSUME IsEvent(Head(q)), Head(q).n \in EventsOf(r) PROVE FALSE
      BY <1>1, <1>3, <1>4, <2>2 DEF Once
    <2> QED BY <2>1, <2>2
  <1>5. ASSUME Rising(q)
        PROVE  Rising(r) /\ (IsEvent(Head(q)) => \A n \in EventsOf(r) : Head(q).n < n)
    <2>1. Rising(r)
      <3> SUFFICES ASSUME NEW i \in DOMAIN r, NEW j \in DOMAIN r, IsEvent(r[i]), IsEvent(r[j]), i < j
                   PROVE  r[i].n < r[j].n
        BY DEF Rising
      <3>1. i + 1 \in DOMAIN q /\ j + 1 \in DOMAIN q /\ r[i] = q[i + 1] /\ r[j] = q[j + 1]
        BY <1>1 DEF Shorter
      <3>2. i \in Nat /\ j \in Nat
        BY <1>1 DEF Shorter
      <3>3. i + 1 < j + 1
        BY <3>2
      <3> QED BY <1>5, <3>1, <3>3 DEF Rising
    <2>2. ASSUME IsEvent(Head(q)), NEW n \in EventsOf(r) PROVE Head(q).n < n
      BY <1>1, <1>3, <1>5, <2>2 DEF Rising
    <2> QED BY <2>1, <2>2
  <1> QED BY <1>2, <1>4, <1>5 DEF r

(* The events a client has read.                                           *)
LEMMA NumberAppended ==
    ASSUME NEW q \in Seq(Nat), NEW n \in Nat
    PROVE  /\ Append(q, n) \in Seq(Nat)
           /\ Elements(Append(q, n)) = Elements(q) \cup {n}
           /\ IsInjective(q) /\ n \notin Elements(q) => IsInjective(Append(q, n))
           /\ InOrder(q) /\ (\A m \in Elements(q) : m < n) => InOrder(Append(q, n))
PROOF
  <1>1. Append(q, n) \in Seq(Nat) /\ Longer(q, Append(q, n), n)
    BY AppendFacts
  <1>2. Elements(Append(q, n)) = Elements(q) \cup {n}
    BY <1>1 DEF Longer, Elements
  <1>3. ASSUME IsInjective(q), n \notin Elements(q) PROVE IsInjective(Append(q, n))
    BY <1>1, <1>3 DEF Longer, Elements, IsInjective
  <1>4. ASSUME InOrder(q), \A m \in Elements(q) : m < n PROVE InOrder(Append(q, n))
    BY <1>1, <1>4 DEF Longer, Elements, InOrder
  <1> QED BY <1>1, <1>2, <1>3, <1>4

-----------------------------------------------------------------------------
(* The clients listed.                                                     *)

LEMMA LeastOf ==
    ASSUME NEW S, S \subseteq Nat, S # {}
    PROVE  Min(S) \in S /\ \A m \in S : Min(S) <= m
PROOF
  <1>1. \E n \in S : \A m \in S : <<m, n>> \notin OpToRel(<, Nat)
    BY NatLessThanWellFounded, WFMin, Zenon
  <1>2. \E n \in S : \A m \in S : ~(m < n)
    BY <1>1, Zenon DEF OpToRel
  <1>3. \E n \in S : \A m \in S : n <= m
    BY <1>2
  <1> QED BY <1>3 DEF Min

(* A client taken out of the list leaves the others as they stand.         *)
LEMMA ClientForgotten ==
    ASSUME NEW S, NEW q \in Seq(S), NEW e \in Elements(q), \A i, j \in DOMAIN q : q[i] = q[j] => i = j
    PROVE  LET r == RemoveFirst(q, e)
           IN  /\ r \in Seq(S) /\ Elements(r) = Elements(q) \ {e}
               /\ \A i, j \in DOMAIN r : r[i] = r[j] => i = j
PROOF
  <1> DEFINE r == RemoveFirst(q, e)
             I == {i \in 1 .. Len(q) : q[i] = e}
             m == Min(I)
  <1>1. I # {} /\ I \subseteq Nat
    BY DEF Elements
  <1>2. m \in 1 .. Len(q) /\ q[m] = e
    BY <1>1, LeastOf
  <1>3. r = SubSeq(q, 1, m - 1) \o SubSeq(q, m + 1, Len(q))
    BY <1>1 DEF RemoveFirst, RemoveAt, SelectInSeq
  <1> HIDE DEF r, m
  <1>4. Len(q) \in Nat /\ DOMAIN q = 1 .. Len(q)
    OBVIOUS
  <1> DEFINE a == SubSeq(q, 1, m - 1)
             b == SubSeq(q, m + 1, Len(q))
  <1>5. /\ a \in Seq(S) /\ Len(a) = m - 1
        /\ \A i \in 1 .. m - 1 : a[i] = q[i]
    <2>1. /\ a \in Seq(S) /\ Len(a) = IF 1 <= m - 1 THEN m - 1 - 1 + 1 ELSE 0
          /\ \A i \in 1 .. m - 1 - 1 + 1 : a[i] = q[1 + i - 1]
      BY <1>2, <1>4, SubSeqProperties
    <2> HIDE DEF a
    <2> QED BY <1>2, <1>4, <2>1
  <1>6. /\ b \in Seq(S) /\ Len(b) = Len(q) - m
        /\ \A i \in 1 .. Len(q) - m : b[i] = q[m + i]
    <2>1. /\ b \in Seq(S) /\ Len(b) = IF m + 1 <= Len(q) THEN Len(q) - (m + 1) + 1 ELSE 0
          /\ \A i \in 1 .. Len(q) - (m + 1) + 1 : b[i] = q[m + 1 + i - 1]
      BY <1>2, <1>4, SubSeqProperties
    <2> HIDE DEF b
    <2>2. \A i \in 1 .. Len(q) - m : i \in 1 .. Len(q) - (m + 1) + 1 /\ m + 1 + i - 1 = m + i
      BY <1>2, <1>4
    <2>3. Len(b) = Len(q) - m
      <3>1. Len(b) = IF m + 1 <= Len(q) THEN Len(q) - (m + 1) + 1 ELSE 0
        BY <2>1
      <3>2. Len(q) \in Nat /\ m \in Nat /\ m <= Len(q)
        BY <1>2, <1>4
      <3>3. CASE m + 1 <= Len(q)
        BY <3>1, <3>2, <3>3
      <3>4. CASE ~(m + 1 <= Len(q))
        <4>1. m = Len(q)
          BY <3>2, <3>4
        <4> QED BY <3>1, <3>2, <3>4, <4>1
      <3> QED BY <3>3, <3>4
    <2>4. \A i \in 1 .. Len(q) - m : b[i] = q[m + i]
      <3>1. \A i \in 1 .. Len(q) - (m + 1) + 1 : b[i] = q[m + 1 + i - 1]
        BY <2>1
      <3> QED BY <2>2, <3>1
    <2> QED BY <2>1, <2>3, <2>4
  <1>7. r = a \o b
    BY <1>3
  <1> HIDE DEF a, b
  <1>8. /\ r \in Seq(S) /\ DOMAIN r = 1 .. Len(q) - 1
        /\ \A i \in 1 .. m - 1 : r[i] = q[i]
        /\ \A i \in m .. Len(q) - 1 : r[i] = q[i + 1]
    <2>1. r \in Seq(S) /\ Len(r) = Len(a) + Len(b)
      BY <1>5, <1>6, <1>7
    <2>2. \A i \in 1 .. m - 1 : r[i] = a[i]
      BY <1>2, <1>4, <1>5, <1>6, <1>7
    <2>3. ASSUME NEW i \in m .. Len(q) - 1 PROVE r[i] = q[i + 1]
      <3>1. i - (m - 1) \in 1 .. Len(q) - m /\ m + (i - (m - 1)) = i + 1
        BY <1>2, <1>4
      <3>2. r[i] = b[i - (m - 1)]
        BY <1>2, <1>4, <1>5, <1>6, <1>7, <3>1
      <3> QED BY <1>6, <3>1, <3>2
    <2> QED BY <1>2, <1>4, <1>5, <1>6, <2>1, <2>2, <2>3
  <1>9. ASSUME NEW x \in Elements(q), x # e PROVE x \in Elements(r)
    <2>1. PICK i \in 1 .. Len(q) : x = q[i]
      BY DEF Elements
    <2>2. i \in 1 .. m - 1 \/ i - 1 \in m .. Len(q) - 1
      BY <1>2, <1>9, <2>1
    <2>3. CASE i \in 1 .. m - 1
      BY <1>2, <1>8, <2>1, <2>3 DEF Elements
    <2>4. CASE i - 1 \in m .. Len(q) - 1
      <3>1. r[i - 1] = q[i - 1 + 1] /\ i - 1 + 1 = i /\ i - 1 \in DOMAIN r
        BY <1>2, <1>4, <1>8, <2>4
      <3> QED BY <2>1, <3>1 DEF Elements
    <2> QED BY <2>2, <2>3, <2>4
  <1>10. ASSUME NEW i \in DOMAIN r
        PROVE  \/ i < m /\ i \in DOMAIN q /\ r[i] = q[i]
               \/ i >= m /\ i + 1 \in DOMAIN q /\ r[i] = q[i + 1]
    BY <1>2, <1>4, <1>8
  <1>11. ASSUME NEW x \in Elements(r) PROVE x \in Elements(q) /\ x # e
    <2>1. PICK i \in DOMAIN r : x = r[i]
      BY DEF Elements
    <2> QED BY <1>2, <1>4, <1>10, <2>1 DEF Elements
  <1>12. ASSUME NEW i \in DOMAIN r, NEW j \in DOMAIN r, r[i] = r[j] PROVE i = j
    BY <1>2, <1>4, <1>8, <1>10, <1>12
  <1> QED BY <1>8, <1>9, <1>11, <1>12 DEF r

-----------------------------------------------------------------------------
(* The clients and the tasks.                                              *)

EventType == [kind : {"seen", "lost", "message", "partial"}, peer : Peers, n : Nat]
PeersType == [kind : {"peers"}, list : SUBSET Peers]
TaskType == [line : EventType, begun : BOOLEAN, todo : Seq(Windows)]

FanoutShaped ==
    /\ online \subseteq Peers /\ stray \subseteq Peers /\ stray \cap online = {}
    /\ clients \in Seq(Windows)
    /\ conn \in [Windows -> {"new", "open", "closed"}]
    /\ buffer \in [Windows -> Seq(EventType \cup PeersType)]
    /\ paused \in [Windows -> BOOLEAN]
    /\ ready \in Seq(TaskType)
    /\ waiting \in [Windows -> Seq(TaskType)]
    /\ asked \subseteq Windows
    /\ known \in [Windows -> SUBSET Peers]
    /\ away \in [Windows -> SUBSET Peers]
    /\ talked \in [Windows -> SUBSET Peers]
    /\ events \in Nat
    /\ due \in [Windows -> SUBSET (1 .. events)]
    /\ got \in [Windows -> Seq(Nat)]
    /\ behind \subseteq Windows

(* Who is connected is listed, once; who never was has heard nothing.      *)
ListedOnce ==
    /\ \A i, j \in DOMAIN clients : clients[i] = clients[j] => i = j
    /\ \A w \in Elements(clients) : conn[w] # "new"
    /\ \A w \in Windows : Open(w) => w \in Elements(clients)

NewsToNew ==
    \A w \in Windows : conn[w] = "new" =>
        /\ buffer[w] = <<>> /\ got[w] = <<>> /\ due[w] = {}
        /\ known[w] = {} /\ away[w] = {} /\ w \notin asked

(* No event has two tasks.                                                 *)
TasksApart ==
    /\ Apart(ready)
    /\ \A w \in Windows : Apart(waiting[w]) /\ Numbers(ready) \cap Numbers(waiting[w]) = {}
    /\ \A v, w \in Windows : v # w => Numbers(waiting[v]) \cap Numbers(waiting[w]) = {}

Tasks == Elements(ready) \cup UNION {Elements(waiting[w]) : w \in Windows}

(* A task that was begun has only clients left that are behind another.    *)
TaskWell(t) ==
    /\ Number(t) \in 1 .. events
    /\ \A i, j \in DOMAIN t.todo : t.todo[i] = t.todo[j] => i = j
    /\ t.begun => \A w \in Elements(t.todo) : w \in behind /\ conn[w] # "new"
    /\ ~t.begun => \A w \in Windows : Number(t) \notin due[w]

TasksWell ==
    /\ \A t \in Tasks : TaskWell(t)
    /\ \A w \in Windows : \A t \in Elements(waiting[w]) : t.begun
    /\ Queued(ready)

-----------------------------------------------------------------------------
(* A run of a task.                                                        *)

LEMMA ReachedFacts ==
    ASSUME NEW task, Todo(task) \in Seq(Windows)
    PROVE  LET n == Reached(task)
               stopped == n > 0 /\ Stops(Todo(task)[n])
           IN  n \in 0 .. Len(Todo(task)) /\ (~stopped => n = Len(Todo(task)))
PROOF
  <1> DEFINE todo == Todo(task)
             stops == {i \in DOMAIN todo : Stops(todo[i])}
  <1>1. Len(todo) \in Nat /\ DOMAIN todo = 1 .. Len(todo)
    OBVIOUS
  <1>2. CASE stops = {}
    <2>1. Reached(task) = Len(todo)
      BY <1>2 DEF Reached
    <2> QED BY <1>1, <2>1
  <1>3. CASE stops # {}
    <2>1. Reached(task) = Min(stops)
      BY <1>3 DEF Reached
    <2>2. stops \subseteq Nat
      BY <1>1
    <2>3. Reached(task) \in stops
      BY <1>3, <2>1, <2>2, LeastOf
    <2> QED BY <1>1, <2>3
  <1> QED BY <1>2, <1>3

LEMMA RestFacts ==
    ASSUME NEW task, Todo(task) \in Seq(Windows)
    PROVE  /\ Rest(task) \in Seq(Windows)
           /\ \A i \in DOMAIN Rest(task) :
                 /\ i \in Nat /\ i > 0 /\ i + Reached(task) \in DOMAIN Todo(task)
                 /\ Rest(task)[i] = Todo(task)[i + Reached(task)]
           /\ \A i \in DOMAIN Todo(task) :
                 i > Reached(task) => /\ i - Reached(task) \in DOMAIN Rest(task)
                                      /\ Rest(task)[i - Reached(task)] = Todo(task)[i]
PROOF
  <1> DEFINE todo == Todo(task)
             r == Rest(task)
             n == Reached(task)
             l == Len(todo)
  <1>1. l \in Nat /\ n \in 0 .. l
    BY ReachedFacts
  <1>2. r = SubSeq(todo, n + 1, l)
    BY DEF Rest
  <1>3. DOMAIN todo = 1 .. l
    OBVIOUS
  <1> HIDE DEF todo, r, n, l
  <1>4. todo \in Seq(Windows)
    BY DEF todo
  <1>5. /\ r \in Seq(Windows)
        /\ Len(r) = IF n + 1 <= l THEN l - (n + 1) + 1 ELSE 0
        /\ \A i \in 1 .. l - (n + 1) + 1 : r[i] = todo[n + 1 + i - 1]
    <2>1. n + 1 \in 1 .. Len(todo) + 1 /\ l \in n + 1 - 1 .. Len(todo)
      BY <1>1 DEF l
    <2> QED BY <1>2, <1>4, <2>1, SubSeqProperties
  <1>6. Len(r) = l - n
    <2>1. Len(r) = IF n + 1 <= l THEN l - (n + 1) + 1 ELSE 0
      BY <1>5
    <2>2. CASE n + 1 <= l
      BY <1>1, <2>1, <2>2
    <2>3. CASE ~(n + 1 <= l)
      BY <1>1, <2>1, <2>3
    <2> QED BY <2>2, <2>3
  <1>7. DOMAIN r = 1 .. l - n
    BY <1>5, <1>6
  <1>8. ASSUME NEW i \in DOMAIN r
        PROVE  i \in Nat /\ i > 0 /\ i + n \in DOMAIN todo /\ r[i] = todo[i + n]
    <2>1. i \in 1 .. l - (n + 1) + 1 /\ n + 1 + i - 1 = i + n /\ i + n \in 1 .. l /\ i \in Nat /\ i > 0
      BY <1>1, <1>7
    <2> QED BY <1>3, <1>5, <2>1
  <1>9. ASSUME NEW i \in DOMAIN todo, i > n
        PROVE  i - n \in DOMAIN r /\ r[i - n] = todo[i]
    <2>1. i - n \in DOMAIN r /\ i - n + n = i
      BY <1>1, <1>3, <1>7, <1>9
    <2> QED BY <1>8, <2>1
  <1> QED BY <1>5, <1>8, <1>9 DEF todo, r, n

(* A run writes to these of the clients, and is stopped or not.            *)
Ran(task, rest, to, stopped) ==
    /\ ready # <<>> /\ task = Head(ready)
    /\ task \in TaskType /\ rest \in TaskType /\ rest.line = task.line /\ rest.begun
    /\ Elements(rest.todo) \subseteq Elements(Todo(task))
    /\ \A i, j \in DOMAIN rest.todo : rest.todo[i] = rest.todo[j] => i = j
    /\ \A w \in to : Open(w) /\ w \in Elements(Todo(task)) \ Elements(rest.todo)
    /\ \A w \in Elements(Todo(task)) : Open(w) => w \in to \/ (stopped /\ w \in Elements(rest.todo))
    /\ \A w \in Elements(rest.todo) : stopped /\ w \in behind' /\ conn[w] # "new"
    /\ buffer' = [w \in Windows |-> IF w \in to THEN Append(buffer[w], task.line) ELSE buffer[w]]
    /\ due' = [w \in Windows |->
                  IF ~task.begun /\ Open(w) THEN due[w] \cup {Number(task)} ELSE due[w]]
    /\ \/ ~stopped /\ ready' = Tail(ready) /\ waiting' = waiting
       \/ stopped /\ ready' = Append(Tail(ready), rest) /\ waiting' = waiting
       \/ /\ stopped /\ ready' = Tail(ready)
          /\ \E v \in Windows : waiting' = [waiting EXCEPT ![v] = Append(@, rest)]

LEMMA RunFacts ==
    ASSUME FanoutShaped, ListedOnce, TasksWell, RunPublish
    PROVE  \E task, rest, to : \E stopped \in BOOLEAN : Ran(task, rest, to, stopped)
PROOF
  <1> DEFINE task == Head(ready)
             todo == Todo(task)
             n == Reached(task)
             to == {todo[i] : i \in {k \in 1 .. n : Open(todo[k])}}
             rest == [task EXCEPT !.begun = TRUE, !.todo = Rest(task)]
             stopped == n > 0 /\ Stops(todo[n])
  <1>1. ready # <<>> /\ task \in TaskType /\ task \in Elements(ready)
    <2>1. ready # <<>> /\ ready \in Seq(TaskType)
      BY DEF RunPublish, FanoutShaped
    <2> QED BY <2>1, TailFacts DEF Elements, Shorter
  <1>2. todo \in Seq(Windows)
    BY <1>1 DEF Todo, FanoutShaped, TaskType
  <1>3. TaskWell(task)
    BY <1>1 DEF TasksWell, Tasks
  <1>4. ASSUME NEW i \in DOMAIN todo, NEW j \in DOMAIN todo, todo[i] = todo[j] PROVE i = j
    BY <1>3, <1>4 DEF Todo, TaskWell, ListedOnce
  <1>5. /\ DOMAIN todo \subseteq Nat /\ n \in Nat
        /\ stopped \in BOOLEAN
        /\ ~stopped => \A i \in DOMAIN todo : i <= n
        /\ stopped => n \in DOMAIN todo /\ todo[n] \in Windows /\ Stops(todo[n])
        /\ \A w : w \in to <=> \E i \in DOMAIN todo : i <= n /\ Open(todo[i]) /\ w = todo[i]
    <2> DEFINE l == Len(todo)
    <2>1. n \in 0 .. l /\ (~stopped => n = l)
      BY <1>2, ReachedFacts
    <2>2. stopped \in BOOLEAN /\ (stopped => n > 0 /\ Stops(todo[n]))
      OBVIOUS
    <2>3. DOMAIN todo = 1 .. l /\ l \in Nat /\ todo \in [1 .. l -> Windows]
      BY <1>2
    <2> HIDE DEF todo, n, stopped, l
    <2>4. n \in Nat /\ (~stopped => \A i \in DOMAIN todo : i <= n)
      BY <2>1, <2>3
    <2>5. stopped => n \in DOMAIN todo /\ todo[n] \in Windows
      BY <2>1, <2>2, <2>3
    <2>6. \A i \in 1 .. n : i \in DOMAIN todo /\ i <= n
      BY <2>1, <2>3
    <2>7. \A i \in DOMAIN todo : i <= n => i \in 1 .. n
      BY <2>1, <2>3
    <2>8. \A w : w \in to <=> \E i \in DOMAIN todo : i <= n /\ Open(todo[i]) /\ w = todo[i]
      BY <2>6, <2>7
    <2> QED BY <2>2, <2>3, <2>4, <2>5, <2>8
  <1>6. /\ Rest(task) \in Seq(Windows)
        /\ \A i \in DOMAIN Rest(task) :
              i \in Nat /\ i > 0 /\ i + n \in DOMAIN todo /\ Rest(task)[i] = todo[i + n]
        /\ \A i \in DOMAIN todo :
              i > n => i - n \in DOMAIN Rest(task) /\ Rest(task)[i - n] = todo[i]
    BY <1>2, RestFacts
  <1>7. rest \in TaskType /\ rest.line = task.line /\ rest.begun /\ rest.todo = Rest(task)
    BY <1>1, <1>6 DEF TaskType
  <1>8. /\ buffer' = [w \in Windows |-> IF w \in to THEN Append(buffer[w], task.line) ELSE buffer[w]]
        /\ paused' = [w \in Windows |-> paused[w] \/ (w \in to /\ Pauses(w))]
        /\ due' = [w \in Windows |->
                      IF ~task.begun /\ Open(w) THEN due[w] \cup {Number(task)} ELSE due[w]]
        /\ IF stopped
           THEN IF Open(todo[n])
                THEN waiting' = [waiting EXCEPT ![todo[n]] = Append(@, rest)] /\ ready' = Tail(ready)
                ELSE ready' = Append(Tail(ready), rest) /\ waiting' = waiting
           ELSE ready' = Tail(ready) /\ waiting' = waiting
        /\ clients' = clients /\ conn' = conn /\ behind' = behind \cup HeldUp'
    BY DEF RunPublish, Track, Number
  <1> HIDE DEF todo, n, rest, to, stopped
  <1>9. Elements(Rest(task)) \subseteq Elements(todo)
    BY <1>6 DEF Elements
  <1>10. ASSUME NEW i \in DOMAIN Rest(task), NEW j \in DOMAIN Rest(task), Rest(task)[i] = Rest(task)[j]
         PROVE  i = j
    <2>1. i + n = j + n
      BY <1>4, <1>6, <1>10
    <2> QED BY <1>5, <1>6, <2>1
  <1>11. ASSUME NEW w \in to PROVE Open(w) /\ w \in Elements(todo) \ Elements(Rest(task))
    <2>1. PICK i \in DOMAIN todo : i <= n /\ Open(todo[i]) /\ w = todo[i]
      BY <1>5
    <2>2. i \in DOMAIN todo
      OBVIOUS
    <2>3. ASSUME w \in Elements(Rest(task)) PROVE FALSE
      <3>1. PICK j \in DOMAIN Rest(task) : w = Rest(task)[j]
        BY <2>3 DEF Elements
      <3>2. i = j + n
        BY <1>4, <1>6, <2>1, <2>2, <3>1
      <3>3. i <= n /\ i \in Nat /\ n \in Nat /\ j \in Nat /\ j > 0
        BY <1>5, <1>6, <2>1, <3>1
      <3> QED BY <3>2, <3>3
    <2> QED BY <2>1, <2>2, <2>3 DEF Elements
  <1>12. stopped \/ DOMAIN Rest(task) = {}
    <2> SUFFICES ASSUME ~stopped, NEW i \in DOMAIN Rest(task) PROVE FALSE
      OBVIOUS
    <2>1. i + n \in DOMAIN todo /\ i > 0 /\ i \in Nat
      BY <1>6
    <2>2. i + n <= n
      BY <1>5, <2>1
    <2> QED BY <1>5, <2>1, <2>2
  <1>13. ASSUME NEW w \in Elements(todo), Open(w)
         PROVE  w \in to \/ (stopped /\ w \in Elements(Rest(task)))
    <2>1. PICK i \in DOMAIN todo : w = todo[i]
      BY DEF Elements
    <2>2. CASE i <= n
      BY <1>5, <1>13, <2>1, <2>2
    <2>3. CASE i > n
      <3>1. i - n \in DOMAIN Rest(task) /\ Rest(task)[i - n] = w
        BY <1>6, <2>1, <2>3
      <3> QED BY <1>12, <3>1 DEF Elements
    <2> QED BY <1>5, <2>2, <2>3
  <1>14. ASSUME NEW w \in Elements(Rest(task)) PROVE stopped /\ w \in behind' /\ conn[w] # "new"
    <2>1. stopped
      BY <1>12 DEF Elements
    <2>2. PICK i \in DOMAIN Rest(task) : w = Rest(task)[i]
      BY DEF Elements
    <2>3. i + n \in DOMAIN todo /\ w = todo[i + n] /\ n < i + n
      BY <1>5, <1>6, <2>2
    <2>4. CASE task.begun
      <3>1. w \in Elements(task.todo)
        BY <2>3, <2>4 DEF Elements, todo, Todo
      <3> QED BY <1>3, <1>8, <2>1, <2>4, <3>1 DEF TaskWell
    <2>5. CASE ~task.begun
      <3>1. todo = clients
        BY <2>5 DEF todo, Todo
      <3>2. n \in DOMAIN todo /\ todo[n] \in Windows /\ w \in Windows /\ i + n \in Nat /\ n \in Nat
        BY <1>2, <1>5, <2>1, <2>3
      <3>3. paused'[todo[n]] \/ ~(conn'[todo[n]] = "open")
        <4>1. CASE Open(todo[n])
          <5>1. Pauses(todo[n])
            BY <1>5, <2>1, <4>1 DEF Stops
          <5>2. todo[n] \in to
            BY <1>5, <2>1, <4>1
          <5> QED BY <1>8, <3>2, <5>1, <5>2
        <4>2. CASE ~Open(todo[n])
          BY <1>8, <4>2 DEF Open
        <4> QED BY <4>1, <4>2
      <3>4. /\ n \in DOMAIN clients' /\ i + n \in DOMAIN clients' /\ clients'[i + n] = w
            /\ clients'[n] = todo[n]
        BY <1>8, <2>3, <3>1, <3>2
      <3>5. w \in HeldUp'
        BY <2>3, <3>2, <3>3, <3>4 DEF HeldUp, Open
      <3>6. conn[w] # "new"
        BY <2>3, <3>1 DEF ListedOnce, Elements
      <3> QED BY <1>8, <2>1, <3>5, <3>6
    <2> QED BY <2>4, <2>5
  <1>15. \/ ~stopped /\ ready' = Tail(ready) /\ waiting' = waiting
         \/ stopped /\ ready' = Append(Tail(ready), rest) /\ waiting' = waiting
         \/ /\ stopped /\ ready' = Tail(ready)
            /\ \E v \in Windows : waiting' = [waiting EXCEPT ![v] = Append(@, rest)]
    <2>1. stopped => todo[n] \in Windows
      BY <1>5
    <2> QED BY <1>8, <2>1
  <1>16. Ran(task, rest, to, stopped)
    BY <1>1, <1>7, <1>8, <1>9, <1>10, <1>11, <1>13, <1>14, <1>15 DEF Ran, todo
  <1> QED BY <1>5, <1>16

-----------------------------------------------------------------------------
(* Types.                                                                  *)

LEMMA TrackShaped ==
    ASSUME FanoutShaped, Track
    PROVE  behind' \subseteq Windows
  BY DEF FanoutShaped, Track, HeldUp

LEMMA ShapedPublish ==
    ASSUME FanoutShaped, online' \subseteq Peers, stray' \subseteq Peers, stray' \cap online' = {}, NEW p \in Peers,
           NEW kind \in {"seen", "lost", "message", "partial"}, Publish(kind, p)
    PROVE  FanoutShaped'
PROOF
  <1> DEFINE t == [line |-> [kind |-> kind, peer |-> p, n |-> events + 1], begun |-> FALSE, todo |-> <<>>]
  <1>1. t \in TaskType
    BY DEF TaskType, EventType, FanoutShaped
  <1>2. ready' = Append(ready, t)
    BY DEF Publish
  <1> HIDE DEF t
  <1>3. ready' \in Seq(TaskType)
    BY <1>1, <1>2 DEF FanoutShaped
  <1>4. due \in [Windows -> SUBSET (1 .. events + 1)] /\ events + 1 \in Nat
    <2>1. 1 .. events \subseteq 1 .. events + 1
      BY DEF FanoutShaped
    <2> QED BY <2>1 DEF FanoutShaped
  <1>5. behind' \subseteq Windows
    BY TrackShaped DEF Publish
  <1> QED BY <1>3, <1>4, <1>5 DEF Publish, FanoutShaped, shown

LEMMA ShapedRunPublish ==
    ASSUME FanoutShaped, ListedOnce, TasksWell, RunPublish
    PROVE  FanoutShaped'
PROOF
  <1>1. PICK task, rest, to : \E s \in BOOLEAN : Ran(task, rest, to, s)
    BY RunFacts
  <1>2. PICK s \in BOOLEAN : Ran(task, rest, to, s)
    BY <1>1
  <1>3. task \in TaskType /\ rest \in TaskType /\ task.line \in EventType
    BY <1>2 DEF Ran, TaskType
  <1>4. buffer' \in [Windows -> Seq(EventType \cup PeersType)]
    <2>1. buffer' = [w \in Windows |-> IF w \in to THEN Append(buffer[w], task.line) ELSE buffer[w]]
      BY <1>2 DEF Ran
    <2>2. \A w \in Windows : buffer[w] \in Seq(EventType \cup PeersType)
      BY DEF FanoutShaped
    <2>3. \A w \in Windows : Append(buffer[w], task.line) \in Seq(EventType \cup PeersType)
      BY <1>3, <2>2
    <2> QED BY <2>1, <2>2, <2>3
  <1>5. due' \in [Windows -> SUBSET (1 .. events)]
    <2>1. Number(task) \in 1 .. events
      <3>1. task \in Elements(ready)
        BY <1>2, TailFacts DEF Ran, Elements, Shorter, FanoutShaped
      <3> QED BY <3>1 DEF TasksWell, Tasks, TaskWell
    <2> QED BY <1>2, <2>1 DEF Ran, FanoutShaped
  <1>6. ready' \in Seq(TaskType) /\ waiting' \in [Windows -> Seq(TaskType)]
    <2>1. Tail(ready) \in Seq(TaskType)
      BY <1>2, TailFacts DEF Ran, FanoutShaped
    <2>2. Append(Tail(ready), rest) \in Seq(TaskType)
      BY <1>3, <2>1
    <2>3. ASSUME NEW v \in Windows
          PROVE  [waiting EXCEPT ![v] = Append(@, rest)] \in [Windows -> Seq(TaskType)]
      <3>1. Append(waiting[v], rest) \in Seq(TaskType) /\ waiting \in [Windows -> Seq(TaskType)]
        BY <1>3 DEF FanoutShaped
      <3> QED BY <3>1
    <2>4. waiting \in [Windows -> Seq(TaskType)]
      BY DEF FanoutShaped
    <2> QED BY <1>2, <2>1, <2>2, <2>3, <2>4 DEF Ran
  <1>7. paused' \in [Windows -> BOOLEAN]
    <2>1. PICK x : paused' = [w \in Windows |-> paused[w] \/ (w \in x /\ Pauses(w))]
      BY DEF RunPublish
    <2> QED BY <2>1 DEF FanoutShaped
  <1>8. behind' \subseteq Windows
    BY TrackShaped DEF RunPublish
  <1>9. UNCHANGED <<online, stray, clients, conn, asked, shown, events>>
    BY DEF RunPublish
  <1> QED BY <1>4, <1>5, <1>6, <1>7, <1>8, <1>9 DEF FanoutShaped, shown

LEMMA WakeShaped ==
    ASSUME FanoutShaped, NEW w \in Windows, Wake(w)
    PROVE  ready' \in Seq(TaskType) /\ waiting' \in [Windows -> Seq(TaskType)]
PROOF
  <1>1. waiting[w] \in Seq(TaskType) /\ ready \in Seq(TaskType) /\ <<>> \in Seq(TaskType)
    BY DEF FanoutShaped
  <1>2. ready \o waiting[w] \in Seq(TaskType)
    BY <1>1, TasksJoined
  <1> QED BY <1>1, <1>2 DEF Wake, FanoutShaped

LEMMA ShapedConnect ==
    ASSUME FanoutShaped, NEW w \in Windows, Connect(w)
    PROVE  FanoutShaped'
PROOF
  <1>1. behind' \subseteq Windows
    BY TrackShaped DEF Connect
  <1>2. Append(clients, w) \in Seq(Windows)
    BY DEF FanoutShaped
  <1> QED BY <1>1, <1>2 DEF Connect, FanoutShaped, shown

LEMMA ShapedReplyPeers ==
    ASSUME FanoutShaped, NEW w \in Windows, ReplyPeers(w)
    PROVE  FanoutShaped'
PROOF
  <1>1. behind' \subseteq Windows
    BY TrackShaped DEF ReplyPeers
  <1> DEFINE e == [kind |-> "peers", list |-> online]
  <1>2. e \in EventType \cup PeersType
    BY DEF PeersType, FanoutShaped
  <1>3. buffer' = [buffer EXCEPT ![w] = Append(@, e)]
    BY DEF ReplyPeers
  <1> HIDE DEF e
  <1>4. Append(buffer[w], e) \in Seq(EventType \cup PeersType)
    BY <1>2 DEF FanoutShaped
  <1>5. buffer' \in [Windows -> Seq(EventType \cup PeersType)]
    BY <1>3, <1>4 DEF FanoutShaped
  <1>6. paused' \in [Windows -> BOOLEAN]
    BY DEF ReplyPeers, FanoutShaped, Pauses, Open
  <1> QED BY <1>1, <1>5, <1>6 DEF ReplyPeers, FanoutShaped, shown

LEMMA ShapedClose ==
    ASSUME FanoutShaped, NEW w \in Windows, Close(w)
    PROVE  FanoutShaped'
PROOF
  <1>1. behind' \subseteq Windows
    BY TrackShaped DEF Close
  <1>2. <<>> \in Seq(EventType \cup PeersType) /\ <<>> \in Seq(Nat)
    OBVIOUS
  <1> QED BY <1>1, <1>2 DEF Close, FanoutShaped

LEMMA ShapedConnectionLost ==
    ASSUME FanoutShaped, NEW w \in Windows, ConnectionLost(w)
    PROVE  FanoutShaped'
PROOF
  <1>1. behind' \subseteq Windows
    BY TrackShaped DEF ConnectionLost
  <1>2. ready' \in Seq(TaskType) /\ waiting' \in [Windows -> Seq(TaskType)]
    BY WakeShaped DEF ConnectionLost
  <1> QED BY <1>1, <1>2 DEF ConnectionLost, FanoutShaped, shown

LEMMA ShapedForget ==
    ASSUME FanoutShaped, ListedOnce, NEW w \in Windows, Forget(w)
    PROVE  FanoutShaped'
PROOF
  <1>1. behind' \subseteq Windows
    BY TrackShaped DEF Forget
  <1>2. w \in Elements(clients)
    BY DEF Forget, ToSet, Elements
  <1>3. clients' \in Seq(Windows)
    BY <1>2, ClientForgotten DEF Forget, ListedOnce, FanoutShaped
  <1> QED BY <1>1, <1>3 DEF Forget, FanoutShaped, shown

(* What a line does to the window, kind by kind.                           *)
ShownAs(w, e) ==
    \/ /\ e.kind = "peers" /\ known' = [known EXCEPT ![w] = @ \cup e.list]
       /\ away' = away /\ talked' = talked
    \/ /\ e.kind = "seen" /\ known' = [known EXCEPT ![w] = @ \cup {e.peer}]
       /\ away' = [away EXCEPT ![w] = @ \ {e.peer}] /\ talked' = talked
    \/ /\ e.kind = "lost" /\ e.peer \in known[w] /\ away' = [away EXCEPT ![w] = @ \cup {e.peer}]
       /\ known' = known /\ talked' = talked
    \/ /\ e.kind = "lost" /\ known' = [known EXCEPT ![w] = @ \ {e.peer}]
       /\ away' = away /\ talked' = talked
    \/ /\ e.kind = "partial" /\ known' = [known EXCEPT ![w] = @ \cup {e.peer}]
       /\ away' = away /\ talked' = talked
    \/ /\ e.kind = "message" /\ known' = [known EXCEPT ![w] = @ \cup {e.peer}]
       /\ away' = away /\ talked' = [talked EXCEPT ![w] = @ \cup {e.peer}]

LEMMA ShowFacts ==
    ASSUME NEW w \in Windows, NEW e \in EventType \cup PeersType, Show(w, e)
    PROVE  ShownAs(w, e)
PROOF
  <1>1. e.kind \in {"seen", "lost", "message", "partial", "peers"}
    BY DEF EventType, PeersType
  <1>2. CASE e.kind = "peers"
    BY <1>2 DEF Show, ShownAs
  <1>3. CASE e.kind = "seen"
    BY <1>3 DEF Show, ShownAs, Back
  <1>4. CASE e.kind = "lost" /\ e.peer \in known[w] /\ e.peer \in talked[w]
    BY <1>4 DEF Show, ShownAs
  <1>5. CASE e.kind = "lost" /\ ~(e.peer \in known[w] /\ e.peer \in talked[w])
    BY <1>5 DEF Show, ShownAs
  <1>6. CASE e.kind = "message"
    BY <1>6 DEF Show, ShownAs
  <1>7. CASE e.kind = "partial"
    BY <1>7 DEF Show, ShownAs
  <1> QED BY <1>1, <1>2, <1>3, <1>4, <1>5, <1>6, <1>7

LEMMA ShapedRead ==
    ASSUME FanoutShaped, NEW w \in Windows, Read(w)
    PROVE  FanoutShaped'
PROOF
  <1>1. behind' \subseteq Windows
    BY TrackShaped DEF Read
  <1> DEFINE e == Head(buffer[w])
  <1>2. Tail(buffer[w]) \in Seq(EventType \cup PeersType) /\ e \in EventType \cup PeersType
    BY TailFacts DEF Read, FanoutShaped
  <1>3. /\ buffer' = [buffer EXCEPT ![w] = Tail(@)]
        /\ got' = IF e.kind = "peers" THEN got ELSE [got EXCEPT ![w] = Append(@, e.n)]
        /\ Show(w, e)
    BY DEF Read
  <1> HIDE DEF e
  <1>4. buffer' \in [Windows -> Seq(EventType \cup PeersType)]
    BY <1>2, <1>3 DEF FanoutShaped
  <1>5. got' \in [Windows -> Seq(Nat)]
    <2>1. e.kind # "peers" => e.n \in Nat
      BY <1>2 DEF EventType, PeersType
    <2> QED BY <1>3, <2>1 DEF FanoutShaped
  <1>6. /\ known' \in [Windows -> SUBSET Peers] /\ away' \in [Windows -> SUBSET Peers]
        /\ talked' \in [Windows -> SUBSET Peers]
    <2>1. \/ e.kind = "peers" /\ e.list \subseteq Peers
          \/ e.kind \in {"seen", "lost", "message", "partial"} /\ e.peer \in Peers
      BY <1>2 DEF EventType, PeersType
    <2>2. ShownAs(w, e)
      BY <1>2, <1>3, ShowFacts
    <2>3. /\ known \in [Windows -> SUBSET Peers] /\ away \in [Windows -> SUBSET Peers]
          /\ talked \in [Windows -> SUBSET Peers]
      BY DEF FanoutShaped
    <2>4. CASE e.kind = "peers"
      BY <2>1, <2>2, <2>3, <2>4 DEF ShownAs
    <2>5. CASE e.kind = "seen"
      BY <2>1, <2>2, <2>3, <2>5 DEF ShownAs
    <2>6. CASE e.kind = "lost"
      BY <2>1, <2>2, <2>3, <2>6 DEF ShownAs
    <2>7. CASE e.kind = "message"
      BY <2>1, <2>2, <2>3, <2>7 DEF ShownAs
    <2>8. CASE e.kind = "partial"
      BY <2>1, <2>2, <2>3, <2>8 DEF ShownAs
    <2> QED BY <2>1, <2>4, <2>5, <2>6, <2>7, <2>8
  <1>7. paused' \in [Windows -> BOOLEAN]
    BY DEF Read, FanoutShaped
  <1>8. ready' \in Seq(TaskType) /\ waiting' \in [Windows -> Seq(TaskType)]
    <2>1. CASE Wake(w)
      BY <2>1, WakeShaped
    <2>2. CASE UNCHANGED <<ready, waiting>>
      BY <2>2 DEF FanoutShaped
    <2> QED BY <2>1, <2>2 DEF Read
  <1> QED BY <1>1, <1>4, <1>5, <1>6, <1>7, <1>8 DEF Read, FanoutShaped

LEMMA ShapedType ==
    ASSUME FanoutShaped, NEW w \in Windows, NEW p \in Peers, Type(w, p)
    PROVE  FanoutShaped'
  BY DEF Type, FanoutShaped, server

(* What happens, by the parts of the next-state relation.                  *)
LEMMA FanoutSteps ==
    ASSUME [FanoutNext]_fanoutVars
    PROVE  \/ \E p \in Peers : PeerSeen(p)
           \/ \E p \in Peers : PeerLost(p)
           \/ \E p \in Peers : PeerWrites(p)
           \/ \E p \in Peers : TransferExpires(p)
           \/ RunPublish
           \/ \E w \in Windows : Connect(w)
           \/ \E w \in Windows : ReplyPeers(w)
           \/ \E w \in Windows : Close(w)
           \/ \E w \in Windows : ConnectionLost(w)
           \/ \E w \in Windows : Forget(w)
           \/ \E w \in Windows : Read(w)
           \/ \E w \in Windows, p \in Peers : Type(w, p)
           \/ UNCHANGED fanoutVars
  BY Zenon DEF FanoutNext

LEMMA ShapedFanoutNext ==
    ASSUME FanoutShaped, ListedOnce, TasksWell, [FanoutNext]_fanoutVars
    PROVE  FanoutShaped'
PROOF
  <1>1. ASSUME NEW p \in Peers, PeerSeen(p) PROVE FanoutShaped'
    <2>1. /\ online' \subseteq Peers /\ stray' \subseteq Peers /\ stray' \cap online' = {}
          /\ Publish("seen", p)
      BY <1>1 DEF PeerSeen, FanoutShaped
    <2> QED BY <2>1, ShapedPublish
  <1>2. ASSUME NEW p \in Peers, PeerLost(p) PROVE FanoutShaped'
    <2>1. /\ online' \subseteq Peers /\ stray' \subseteq Peers /\ stray' \cap online' = {}
          /\ Publish("lost", p)
      BY <1>2 DEF PeerLost, FanoutShaped
    <2> QED BY <2>1, ShapedPublish
  <1>3. ASSUME NEW p \in Peers, PeerWrites(p) PROVE FanoutShaped'
    <2>1. /\ online' \subseteq Peers /\ stray' \subseteq Peers /\ stray' \cap online' = {}
          /\ Publish("message", p)
      BY <1>3 DEF PeerWrites, Mention, FanoutShaped
    <2> QED BY <2>1, ShapedPublish
  <1>4. ASSUME NEW p \in Peers, TransferExpires(p) PROVE FanoutShaped'
    <2>1. /\ online' \subseteq Peers /\ stray' \subseteq Peers /\ stray' \cap online' = {}
          /\ Publish("partial", p)
      BY <1>4 DEF TransferExpires, Mention, FanoutShaped
    <2> QED BY <2>1, ShapedPublish
  <1>5. CASE UNCHANGED fanoutVars
    BY <1>5 DEF fanoutVars, server, shown, FanoutShaped
  <1> QED
    BY <1>1, <1>2, <1>3, <1>4, <1>5, FanoutSteps, ShapedRunPublish, ShapedConnect, ShapedReplyPeers,
       ShapedClose, ShapedConnectionLost, ShapedForget, ShapedRead, ShapedType

-----------------------------------------------------------------------------
(* The list of the clients.                                                *)

LEMMA ListedConnect ==
    ASSUME FanoutShaped, ListedOnce, NEW w \in Windows, Connect(w)
    PROVE  ListedOnce'
PROOF
  <1>1. Longer(clients, clients', w)
    BY AppendFacts DEF Connect, FanoutShaped
  <1>2. conn' = [conn EXCEPT ![w] = "open"] /\ conn[w] = "new" /\ conn \in [Windows -> {"new", "open", "closed"}]
    BY DEF Connect, FanoutShaped
  <1>3. \A i \in DOMAIN clients : clients[i] # w
    BY <1>2 DEF ListedOnce, Elements
  <1>4. Elements(clients') = Elements(clients) \cup {w}
    BY <1>1 DEF Longer, Elements
  <1>5. \A i, j \in DOMAIN clients' : clients'[i] = clients'[j] => i = j
    BY <1>1, <1>3 DEF Longer, ListedOnce
  <1>6. \A v \in Elements(clients)' : conn'[v] # "new"
    BY <1>2, <1>4 DEF ListedOnce, Elements
  <1>7. \A v \in Windows : Open(v)' => v \in Elements(clients)'
    BY <1>2, <1>4 DEF ListedOnce, Elements, Open
  <1> QED BY <1>5, <1>6, <1>7 DEF ListedOnce

LEMMA ListedForget ==
    ASSUME FanoutShaped, ListedOnce, NEW w \in Windows, Forget(w)
    PROVE  ListedOnce'
PROOF
  <1>1. w \in Elements(clients) /\ conn[w] = "closed" /\ conn' = conn /\ clients' = RemoveFirst(clients, w)
    BY DEF Forget, ToSet, Elements
  <1>2. /\ Elements(clients') = Elements(clients) \ {w}
        /\ \A i, j \in DOMAIN clients' : clients'[i] = clients'[j] => i = j
    <2>1. clients \in Seq(Windows) /\ \A i, j \in DOMAIN clients : clients[i] = clients[j] => i = j
      BY DEF ListedOnce, FanoutShaped
    <2> QED BY <1>1, <2>1, ClientForgotten
  <1> QED BY <1>1, <1>2 DEF ListedOnce, Open, Elements

LEMMA ListedNext ==
    ASSUME FanoutShaped, ListedOnce, [FanoutNext]_fanoutVars
    PROVE  ListedOnce'
PROOF
  <1>1. ASSUME UNCHANGED <<clients, conn>> PROVE ListedOnce'
    BY <1>1 DEF ListedOnce, Open, Elements
  <1>2. ASSUME NEW w \in Windows, Close(w) PROVE ListedOnce'
    <2>1. clients' = clients /\ conn' = [conn EXCEPT ![w] = "closed"] /\ conn \in [Windows -> {"new", "open", "closed"}]
      BY <1>2 DEF Close, FanoutShaped
    <2>2. \A v \in Windows : conn'[v] \in {conn[v], "closed"}
      BY <2>1
    <2>3. Elements(clients) \subseteq Windows
      BY DEF Elements, FanoutShaped
    <2> QED BY <2>1, <2>2, <2>3 DEF ListedOnce, Open, Elements
  <1>3. CASE \E p \in Peers : PeerSeen(p) \/ PeerLost(p) \/ PeerWrites(p) \/ TransferExpires(p)
    BY <1>1, <1>3 DEF PeerSeen, PeerLost, PeerWrites, TransferExpires, Mention, Publish
  <1>4. CASE RunPublish
    BY <1>1, <1>4 DEF RunPublish
  <1>5. CASE \E w \in Windows : ReplyPeers(w) \/ ConnectionLost(w) \/ Read(w)
    BY <1>1, <1>5 DEF ReplyPeers, ConnectionLost, Read
  <1>6. CASE \E w \in Windows, p \in Peers : Type(w, p)
    BY <1>1, <1>6 DEF Type, server
  <1>7. CASE UNCHANGED fanoutVars
    BY <1>1, <1>7 DEF fanoutVars, server
  <1> QED
    BY <1>2, <1>3, <1>4, <1>5, <1>6, <1>7, FanoutSteps, ListedConnect, ListedForget

LEMMA NewsNext ==
    ASSUME FanoutShaped, ListedOnce, TasksWell, NewsToNew, [FanoutNext]_fanoutVars
    PROVE  NewsToNew'
PROOF
  <1> DEFINE heard == <<buffer, got, due, known, away, asked>>
  <1>1. ASSUME UNCHANGED heard, \A w \in Windows : conn'[w] = "new" => conn[w] = "new"
        PROVE  NewsToNew'
    BY <1>1 DEF NewsToNew
  <1>2. ASSUME NEW w \in Windows, conn[w] # "new", conn'[w] # "new",
               \A v \in Windows \ {w} : /\ conn'[v] = conn[v] /\ buffer'[v] = buffer[v] /\ got'[v] = got[v]
                                        /\ due'[v] = due[v] /\ known'[v] = known[v] /\ away'[v] = away[v]
                                        /\ (v \in asked <=> v \in asked')
        PROVE  NewsToNew'
    BY <1>2 DEF NewsToNew
  <1>3. CASE \E p \in Peers : PeerSeen(p) \/ PeerLost(p) \/ PeerWrites(p) \/ TransferExpires(p)
    BY <1>1, <1>3 DEF PeerSeen, PeerLost, PeerWrites, TransferExpires, Mention, Publish, shown
  <1>4. CASE RunPublish
    <2>1. PICK task, rest, to : \E s \in BOOLEAN : Ran(task, rest, to, s)
      BY <1>4, RunFacts
    <2>2. \A w \in Windows : ~Open(w) => w \notin to
      BY <2>1 DEF Ran
    <2>3. \A w \in Windows : conn[w] = "new" => buffer'[w] = buffer[w] /\ due'[w] = due[w]
      BY <2>1, <2>2 DEF Ran, Open
    <2>4. conn' = conn /\ got' = got /\ known' = known /\ away' = away /\ asked' = asked
      BY <1>4 DEF RunPublish, shown
    <2> QED BY <2>3, <2>4 DEF NewsToNew
  <1>5. ASSUME NEW w \in Windows, Connect(w) PROVE NewsToNew'
    <2>1. conn' = [conn EXCEPT ![w] = "open"] /\ conn \in [Windows -> {"new", "open", "closed"}]
      BY <1>5 DEF Connect, FanoutShaped
    <2>2. \A v \in Windows : conn'[v] = "new" => conn[v] = "new"
      BY <2>1
    <2> QED BY <1>1, <1>5, <2>2 DEF Connect, shown
  <1>6. ASSUME NEW w \in Windows, ReplyPeers(w) PROVE NewsToNew'
    <2>1. \A v \in Windows \ {w} : buffer'[v] = buffer[v] /\ (v \in asked <=> v \in asked')
      BY <1>6 DEF ReplyPeers, FanoutShaped
    <2> QED BY <1>2, <1>6, <2>1 DEF ReplyPeers, shown, Open
  <1>7. ASSUME NEW w \in Windows, Close(w) PROVE NewsToNew'
    <2>1. conn[w] # "new" /\ conn'[w] # "new"
      BY <1>7 DEF Close, FanoutShaped, Open
    <2>2. \A v \in Windows \ {w} : /\ conn'[v] = conn[v] /\ buffer'[v] = buffer[v] /\ got'[v] = got[v]
                                   /\ due'[v] = due[v] /\ known'[v] = known[v] /\ away'[v] = away[v]
                                   /\ asked' = asked
      BY <1>7 DEF Close, FanoutShaped
    <2> QED BY <1>2, <2>1, <2>2
  <1>8. CASE \E w \in Windows : ConnectionLost(w) \/ Forget(w)
    BY <1>1, <1>8 DEF ConnectionLost, Forget, shown
  <1>9. ASSUME NEW w \in Windows, Read(w) PROVE NewsToNew'
    <2> DEFINE e == Head(buffer[w])
    <2>1. e \in EventType \cup PeersType /\ Show(w, e)
      BY <1>9, TailFacts DEF Read, FanoutShaped
    <2>2. ShownAs(w, e)
      BY <2>1, ShowFacts
    <2>3. \A v \in Windows \ {w} : known'[v] = known[v] /\ away'[v] = away[v]
      <3> HIDE DEF e
      <3> QED BY <2>2 DEF ShownAs, FanoutShaped
    <2>4. \A v \in Windows \ {w} : buffer'[v] = buffer[v] /\ got'[v] = got[v]
      BY <1>9 DEF Read, FanoutShaped
    <2> QED BY <1>2, <1>9, <2>3, <2>4 DEF Read, Open
  <1>10. CASE \E w \in Windows, p \in Peers : Type(w, p)
    BY <1>1, <1>10 DEF Type, server
  <1>11. CASE UNCHANGED fanoutVars
    BY <1>1, <1>11 DEF fanoutVars, server, shown
  <1> QED
    BY <1>3, <1>4, <1>5, <1>6, <1>7, <1>8, <1>9, <1>10, <1>11, FanoutSteps

-----------------------------------------------------------------------------
(* The tasks after a step.                                                 *)

LEMMA WellKept ==
    ASSUME NEW t, TaskWell(t), events \in Nat, events' \in Nat, events <= events', behind \subseteq behind',
           \A w \in Elements(t.todo) : conn'[w] = "new" => conn[w] = "new",
           ~t.begun => \A w \in Windows : Number(t) \notin due'[w] \ due[w]
    PROVE  TaskWell(t)'
PROOF
  <1>1. Number(t) \in 1 .. events'
    BY DEF TaskWell
  <1> QED BY <1>1 DEF TaskWell

LEMMA TasksNumbered ==
    ASSUME FanoutShaped, TasksWell
    PROVE  /\ Numbers(ready) \subseteq 1 .. events
           /\ \A w \in Windows : Numbers(waiting[w]) \subseteq 1 .. events
PROOF
  <1>1. Elements(ready) \subseteq Tasks /\ \A w \in Windows : Elements(waiting[w]) \subseteq Tasks
    BY DEF Tasks
  <1> QED BY <1>1 DEF TasksWell, TaskWell, Numbers, Elements

(* A new event.                                                            *)
LEMMA TasksPublish ==
    ASSUME FanoutShaped, TasksApart, TasksWell, NEW kind \in {"seen", "lost", "message", "partial"}, NEW p \in Peers,
           Publish(kind, p)
    PROVE  \E t \in TaskType :
              /\ t.line = [kind |-> kind, peer |-> p, n |-> events + 1] /\ ~t.begun
              /\ ready' = Append(ready, t) /\ waiting' = waiting
              /\ Tasks' = Tasks \cup {t}
              /\ TasksApart' /\ TasksWell'
PROOF
  <1>1. PICK t \in TaskType : /\ t.line = [kind |-> kind, peer |-> p, n |-> events + 1] /\ ~t.begun
                              /\ DOMAIN t.todo = {} /\ ready' = Append(ready, t)
    <2> DEFINE u == [line |-> [kind |-> kind, peer |-> p, n |-> events + 1], begun |-> FALSE, todo |-> <<>>]
    <2>1. u \in TaskType /\ DOMAIN u.todo = {}
      BY DEF TaskType, EventType, FanoutShaped
    <2>2. ready' = Append(ready, u)
      BY DEF Publish
    <2> QED BY <2>1, <2>2
  <1>2. /\ waiting' = waiting /\ events' = events + 1 /\ Number(t) = events + 1
        /\ conn' = conn /\ due' = due /\ behind \subseteq behind'
    BY <1>1 DEF Publish, Track, Number
  <1>3. events \in Nat /\ events' \in Nat /\ events <= events' /\ events + 1 \notin 1 .. events
    BY <1>2 DEF FanoutShaped
  <1>4. Number(t) \notin Numbers(ready) /\ \A w \in Windows : Number(t) \notin Numbers(waiting[w])
    BY <1>2, <1>3, TasksNumbered
  <1>5. \A u \in Elements(ready) : Number(u) < Number(t)
    <2>1. \A u \in Elements(ready) : Number(u) \in 1 .. events
      BY DEF TasksWell, TaskWell, Tasks
    <2> QED BY <1>2, <1>3, <2>1
  <1>6. /\ Elements(ready') = Elements(ready) \cup {t}
        /\ Numbers(ready') = Numbers(ready) \cup {Number(t)}
        /\ Apart(ready') /\ Queued(ready')
    <2>1. ready \in Seq(TaskType) /\ Apart(ready) /\ Queued(ready)
      BY DEF FanoutShaped, TasksApart, TasksWell
    <2>2. \A i \in DOMAIN ready : Number(ready[i]) < Number(t)
      BY <1>5 DEF Elements
    <2> QED BY <1>1, <1>4, <2>1, <2>2, TaskAppended
  <1>7. Tasks' = Tasks \cup {t}
    BY <1>2, <1>6 DEF Tasks
  <1>8. TasksApart'
    BY <1>2, <1>4, <1>6 DEF TasksApart
  <1>9. TaskWell(t)'
    <2>1. Number(t) \in 1 .. events'
      BY <1>1, <1>2, <1>3
    <2>2. \A w \in Windows : Number(t) \notin due'[w]
      BY <1>1, <1>2, <1>3 DEF FanoutShaped
    <2> QED BY <1>1, <2>1, <2>2 DEF TaskWell
  <1>10. ASSUME NEW u \in Tasks PROVE TaskWell(u)'
    BY <1>2, <1>3, WellKept DEF TasksWell
  <1>11. TasksWell'
    BY <1>2, <1>6, <1>7, <1>9, <1>10 DEF TasksWell
  <1> QED BY <1>1, <1>2, <1>7, <1>8, <1>11

(* The tasks that a writer held up go on.                                  *)
LEMMA TasksWoken ==
    ASSUME FanoutShaped, TasksApart, TasksWell, NEW w \in Windows, Wake(w)
    PROVE  /\ Tasks' = Tasks /\ TasksApart' /\ Queued(ready')
           /\ \A v \in Windows : Elements(waiting'[v]) \subseteq Elements(waiting[v])
PROOF
  <1>1. /\ waiting[w] \in Seq(TaskType) /\ ready \in Seq(TaskType) /\ waiting \in [Windows -> Seq(TaskType)]
        /\ Apart(ready) /\ Apart(waiting[w]) /\ Numbers(ready) \cap Numbers(waiting[w]) = {}
        /\ Queued(ready) /\ \A t \in Elements(waiting[w]) : t.begun
    BY DEF FanoutShaped, TasksApart, TasksWell
  <1>2. ready' = ready \o waiting[w] /\ waiting' = [waiting EXCEPT ![w] = <<>>]
    BY DEF Wake
  <1>3. /\ Elements(ready') = Elements(ready) \cup Elements(waiting[w])
        /\ Numbers(ready') = Numbers(ready) \cup Numbers(waiting[w])
        /\ Apart(ready') /\ Queued(ready')
    BY <1>1, <1>2, TasksJoined
  <1>4. /\ waiting'[w] = <<>> /\ \A v \in Windows \ {w} : waiting'[v] = waiting[v]
        /\ Elements(<<>>) = {} /\ Numbers(<<>>) = {} /\ Apart(<<>>)
    BY <1>1, <1>2 DEF Elements, Numbers, Apart
  <1>5. Tasks' = Tasks
    BY <1>3, <1>4 DEF Tasks
  <1>6. TasksApart'
    <2>1. \A v \in Windows : Apart(waiting'[v]) /\ Numbers(ready') \cap Numbers(waiting'[v]) = {}
      BY <1>3, <1>4 DEF TasksApart
    <2>2. \A u, v \in Windows : u # v => Numbers(waiting'[u]) \cap Numbers(waiting'[v]) = {}
      BY <1>4 DEF TasksApart
    <2> QED BY <1>3, <2>1, <2>2 DEF TasksApart
  <1> QED BY <1>3, <1>4, <1>5, <1>6

(* A task runs: what it has left takes its place, and no other is its      *)
(* event's.                                                                *)
LEMMA TasksRan ==
    ASSUME FanoutShaped, TasksApart, TasksWell, NEW task, NEW rest, NEW to, NEW stopped \in BOOLEAN,
           Ran(task, rest, to, stopped)
    PROVE  /\ task \in Tasks
           /\ Tasks' = (Tasks \ {task}) \cup (IF stopped THEN {rest} ELSE {})
           /\ \A t \in Tasks \ {task} : /\ Number(t) # Number(task)
                                        /\ ~task.begun /\ ~t.begun => Number(task) < Number(t)
           /\ TasksApart' /\ Queued(ready')
           /\ \A v \in Windows : \A t \in Elements(waiting'[v]) : t.begun
PROOF
  <1> DEFINE q == Tail(ready)
  <1>1. /\ ready \in Seq(TaskType) /\ ready # <<>> /\ task = Head(ready) /\ rest \in TaskType /\ rest.begun
        /\ rest.line = task.line /\ waiting \in [Windows -> Seq(TaskType)]
        /\ Apart(ready) /\ Queued(ready)
    BY DEF Ran, FanoutShaped, TasksApart, TasksWell
  <1>2. /\ q \in Seq(TaskType) /\ Elements(ready) = Elements(q) \cup {task}
        /\ Numbers(q) \subseteq Numbers(ready) /\ Apart(q) /\ Number(task) \notin Numbers(q) /\ Queued(q)
        /\ ~task.begun => \A t \in Elements(q) : ~t.begun => Number(task) < Number(t)
    BY <1>1, TaskTaken, TailFacts
  <1>3. Number(rest) = Number(task) /\ Number(task) \in Numbers(ready)
    <2>1. Number(task) \in Numbers(ready)
      BY <1>1, TailFacts DEF Numbers, Shorter
    <2> QED BY <1>1, <2>1 DEF Number
  <1>4. \A w \in Windows : Number(task) \notin Numbers(waiting[w])
    BY <1>3 DEF TasksApart
  <1> DEFINE remaining == Elements(q) \cup UNION {Elements(waiting[w]) : w \in Windows}
  <1>5. \A t \in remaining : Number(t) # Number(task)
    BY <1>2, <1>4 DEF Numbers, Elements
  <1>6. remaining = Tasks \ {task} /\ task \in Tasks
    BY <1>2, <1>5 DEF Tasks
  <1>7. \A t \in remaining : ~task.begun /\ ~t.begun => Number(task) < Number(t)
    BY <1>2 DEF TasksWell
  <1>8. \A w \in Windows : /\ Apart(waiting[w]) /\ Numbers(q) \cap Numbers(waiting[w]) = {}
                           /\ \A t \in Elements(waiting[w]) : t.begun
    BY <1>2 DEF TasksApart, TasksWell
  <1>9. ASSUME ~stopped, ready' = q, waiting' = waiting
        PROVE  /\ Tasks' = remaining /\ TasksApart' /\ Queued(ready')
               /\ \A v \in Windows : \A t \in Elements(waiting'[v]) : t.begun
    BY <1>2, <1>8, <1>9 DEF Tasks, TasksApart
  <1>10. ASSUME stopped, ready' = Append(q, rest), waiting' = waiting
         PROVE  /\ Tasks' = remaining \cup {rest} /\ TasksApart' /\ Queued(ready')
                /\ \A v \in Windows : \A t \in Elements(waiting'[v]) : t.begun
    <2>1. /\ Elements(ready') = Elements(q) \cup {rest}
          /\ Numbers(ready') = Numbers(q) \cup {Number(task)}
          /\ Apart(ready') /\ Queued(ready')
      <3> HIDE DEF q
      <3>1. Number(rest) \notin Numbers(q)
        BY <1>2, <1>3
      <3> QED BY <1>1, <1>2, <1>3, <1>10, <3>1, TaskAppended
    <2>2. Tasks' = remaining \cup {rest}
      BY <1>10, <2>1 DEF Tasks
    <2>3. TasksApart'
      BY <1>4, <1>8, <1>10, <2>1 DEF TasksApart
    <2> QED BY <1>8, <1>10, <2>1, <2>2, <2>3
  <1>11. ASSUME stopped, ready' = q, NEW v \in Windows, waiting' = [waiting EXCEPT ![v] = Append(@, rest)]
         PROVE  /\ Tasks' = remaining \cup {rest} /\ TasksApart' /\ Queued(ready')
                /\ \A w \in Windows : \A t \in Elements(waiting'[w]) : t.begun
    <2>1. waiting'[v] = Append(waiting[v], rest) /\ \A w \in Windows \ {v} : waiting'[w] = waiting[w]
      BY <1>1, <1>11
    <2>2. /\ Elements(waiting'[v]) = Elements(waiting[v]) \cup {rest}
          /\ Numbers(waiting'[v]) = Numbers(waiting[v]) \cup {Number(task)}
          /\ Apart(waiting'[v])
      BY <1>1, <1>3, <1>4, <1>8, <2>1, TaskAppended
    <2>3. Tasks' = remaining \cup {rest}
      BY <1>11, <2>1, <2>2 DEF Tasks
    <2>4. \A w \in Windows : Apart(waiting'[w]) /\ Numbers(ready') \cap Numbers(waiting'[w]) = {}
      BY <1>2, <1>8, <1>11, <2>1, <2>2
    <2>5. ASSUME NEW u \in Windows, NEW w \in Windows, u # w
          PROVE  Numbers(waiting'[u]) \cap Numbers(waiting'[w]) = {}
      <3>1. Numbers(waiting[u]) \cap Numbers(waiting[w]) = {}
        BY <2>5 DEF TasksApart
      <3>2. CASE u = v
        BY <1>4, <2>1, <2>2, <2>5, <3>1, <3>2
      <3>3. CASE w = v
        BY <1>4, <2>1, <2>2, <2>5, <3>1, <3>3
      <3> QED BY <2>1, <3>1, <3>2, <3>3
    <2>6. TasksApart'
      BY <1>2, <1>11, <2>4, <2>5 DEF TasksApart
    <2> QED BY <1>1, <1>2, <1>8, <1>11, <2>1, <2>2, <2>3, <2>6
  <1>12. /\ Tasks' = remaining \cup (IF stopped THEN {rest} ELSE {}) /\ TasksApart' /\ Queued(ready')
         /\ \A v \in Windows : \A t \in Elements(waiting'[v]) : t.begun
    <2> HIDE DEF q, remaining
    <2> QED BY <1>9, <1>10, <1>11 DEF Ran, q
  <1> QED BY <1>5, <1>6, <1>7, <1>12

LEMMA TasksNext ==
    ASSUME FanoutShaped, ListedOnce, TasksApart, TasksWell, [FanoutNext]_fanoutVars
    PROVE  TasksApart' /\ TasksWell'
PROOF
  <1>1. ASSUME Tasks' = Tasks, TasksApart', Queued(ready'), events' = events, behind \subseteq behind',
               \A v \in Windows : Elements(waiting'[v]) \subseteq Elements(waiting[v]),
               \A w \in Windows : (conn'[w] = "new" => conn[w] = "new") /\ due'[w] \subseteq due[w]
        PROVE  TasksApart' /\ TasksWell'
    <2>1. ASSUME NEW t \in Tasks PROVE TaskWell(t)'
      <3>1. TaskWell(t) /\ t \in TaskType
        BY DEF TasksWell, Tasks, FanoutShaped, Elements
      <3>2. Elements(t.todo) \subseteq Windows /\ events \in Nat /\ events <= events'
        BY <1>1, <3>1 DEF TaskType, Elements, FanoutShaped
      <3> QED BY <1>1, <3>1, <3>2, WellKept
    <2> QED BY <1>1, <2>1 DEF TasksWell
  <1>2. ASSUME UNCHANGED <<ready, waiting, events>>, behind \subseteq behind',
               \A w \in Windows : (conn'[w] = "new" => conn[w] = "new") /\ due'[w] \subseteq due[w]
        PROVE  TasksApart' /\ TasksWell'
    <2>1. Tasks' = Tasks /\ TasksApart' /\ Queued(ready')
      BY <1>2 DEF Tasks, TasksApart, TasksWell
    <2> QED BY <1>1, <1>2, <2>1
  <1>3. ASSUME NEW w \in Windows, Wake(w), UNCHANGED <<conn, due, events>>, behind \subseteq behind'
        PROVE  TasksApart' /\ TasksWell'
    BY <1>1, <1>3, TasksWoken
  <1>4. CASE \E p \in Peers : PeerSeen(p) \/ PeerLost(p) \/ PeerWrites(p) \/ TransferExpires(p)
    BY <1>4, TasksPublish DEF PeerSeen, PeerLost, PeerWrites, TransferExpires, Mention
  <1>5. CASE RunPublish
    <2>1. PICK task, rest, to : \E s \in BOOLEAN : Ran(task, rest, to, s)
      BY <1>5, RunFacts
    <2>2. PICK s \in BOOLEAN : Ran(task, rest, to, s)
      BY <2>1
    <2>3. /\ task \in Tasks
          /\ Tasks' = (Tasks \ {task}) \cup (IF s THEN {rest} ELSE {})
          /\ \A t \in Tasks \ {task} : Number(t) # Number(task)
          /\ TasksApart' /\ Queued(ready')
          /\ \A v \in Windows : \A t \in Elements(waiting'[v]) : t.begun
      BY <2>2, TasksRan
    <2>4. events' = events /\ events \in Nat /\ conn' = conn /\ behind \subseteq behind'
      BY <1>5 DEF RunPublish, Track, FanoutShaped
    <2>5. ASSUME NEW t \in Tasks \ {task} PROVE TaskWell(t)'
      <3>1. \A w \in Windows : Number(t) \notin due'[w] \ due[w]
        BY <2>2, <2>3 DEF Ran
      <3> QED BY <2>4, <3>1, WellKept DEF TasksWell
    <2>6. TaskWell(rest)'
      <3>1. TaskWell(task)
        BY <2>3 DEF TasksWell
      <3>2. Number(rest) = Number(task)
        BY <2>2 DEF Ran, Number
      <3> QED BY <2>2, <2>4, <3>1, <3>2 DEF Ran, TaskWell
    <2> QED BY <2>3, <2>5, <2>6 DEF TasksWell
  <1>6. ASSUME NEW w \in Windows, Connect(w) PROVE TasksApart' /\ TasksWell'
    <2>1. \A v \in Windows : conn'[v] = "new" => conn[v] = "new"
      BY <1>6 DEF Connect, FanoutShaped
    <2> QED BY <1>2, <1>6, <2>1 DEF Connect, Track
  <1>7. ASSUME NEW w \in Windows, Close(w) PROVE TasksApart' /\ TasksWell'
    <2>1. \A v \in Windows : (conn'[v] = "new" => conn[v] = "new") /\ due'[v] \subseteq due[v]
      BY <1>7 DEF Close, FanoutShaped
    <2> QED BY <1>2, <1>7, <2>1 DEF Close, Track
  <1>8. CASE \E w \in Windows : ReplyPeers(w) \/ Forget(w)
    BY <1>2, <1>8 DEF ReplyPeers, Forget, Track
  <1>9. ASSUME NEW w \in Windows, ConnectionLost(w) PROVE TasksApart' /\ TasksWell'
    BY <1>3, <1>9 DEF ConnectionLost, Track
  <1>10. ASSUME NEW w \in Windows, Read(w) PROVE TasksApart' /\ TasksWell'
    <2>1. UNCHANGED <<conn, due, events>> /\ behind \subseteq behind'
      BY <1>10 DEF Read, Track
    <2> QED BY <1>2, <1>3, <1>10, <2>1 DEF Read
  <1>11. CASE \E w \in Windows, p \in Peers : Type(w, p)
    BY <1>2, <1>11 DEF Type, server
  <1>12. CASE UNCHANGED fanoutVars
    BY <1>2, <1>12 DEF fanoutVars, server, shown
  <1> QED
    BY <1>4, <1>5, <1>6, <1>7, <1>8, <1>9, <1>10, <1>11, <1>12, FanoutSteps

-----------------------------------------------------------------------------
(* Where the events of a client are.                                       *)

Got(w) == Elements(got[w])
InBuffer(w) == EventsOf(buffer[w])
WithTask(T, w) == {Number(t) : t \in {u \in T : u.begun /\ w \in Elements(u.todo)}}
ToWrite(w) == WithTask(Tasks, w)

(* Each event due to a client is in one place: read, in the buffer, or to  *)
(* be written by its task.                                                 *)
DueOnce(w) ==
    /\ due[w] = Got(w) \cup InBuffer(w) \cup ToWrite(w)
    /\ Got(w) \cap InBuffer(w) = {} /\ Got(w) \cap ToWrite(w) = {} /\ InBuffer(w) \cap ToWrite(w) = {}
    /\ IsInjective(got[w]) /\ Once(buffer[w])

(* What is read comes before what is in the buffer, and that before what   *)
(* no task has begun to write.                                             *)
Earlier(w) ==
    /\ InOrder(got[w]) /\ Rising(buffer[w])
    /\ \A m \in Got(w), n \in InBuffer(w) : m < n
    /\ \A t \in Tasks : ~t.begun => \A m \in Got(w) \cup InBuffer(w) : m < Number(t)

WellServed(w) == Open(w) => DueOnce(w) /\ (w \notin behind => Earlier(w))

Delivery == \A w \in Windows : WellServed(w)

LEMMA ServedKept ==
    ASSUME NEW w \in Windows, WellServed(w), conn'[w] \in {conn[w], "closed"}, behind \subseteq behind',
           buffer'[w] = buffer[w], got'[w] = got[w], due'[w] = due[w], Tasks' = Tasks
    PROVE  WellServed(w)'
PROOF
  <1>1. CASE ~Open(w)'
    BY <1>1 DEF WellServed
  <1>2. CASE Open(w)'
    <2>1. Open(w) /\ Got(w)' = Got(w) /\ InBuffer(w)' = InBuffer(w) /\ ToWrite(w)' = ToWrite(w)
      BY <1>2 DEF Open, Got, InBuffer, ToWrite, WithTask
    <2>2. DueOnce(w)'
      BY <2>1 DEF WellServed, DueOnce
    <2>3. w \notin behind' => Earlier(w)'
      BY <2>1 DEF WellServed, Earlier
    <2> QED BY <2>2, <2>3 DEF WellServed
  <1> QED BY <1>1, <1>2

LEMMA ServedPublish ==
    ASSUME FanoutShaped, TasksApart, TasksWell, NEW kind \in {"seen", "lost", "message", "partial"}, NEW p \in Peers,
           Publish(kind, p), NEW w \in Windows, WellServed(w)
    PROVE  WellServed(w)'
PROOF
  <1> SUFFICES ASSUME Open(w)' PROVE DueOnce(w)' /\ (w \notin behind' => Earlier(w)')
    BY DEF WellServed
  <1>1. PICK t \in TaskType : t.line.n = events + 1 /\ ~t.begun /\ Tasks' = Tasks \cup {t}
    <2>1. PICK t \in TaskType : /\ t.line = [kind |-> kind, peer |-> p, n |-> events + 1] /\ ~t.begun
                                /\ Tasks' = Tasks \cup {t}
      BY TasksPublish
    <2> QED BY <2>1
  <1>2. /\ Open(w) /\ buffer' = buffer /\ got' = got /\ due' = due /\ behind \subseteq behind'
        /\ due[w] \subseteq 1 .. events /\ events \in Nat
    BY DEF Publish, Track, shown, Open, FanoutShaped
  <1>3. Got(w)' = Got(w) /\ InBuffer(w)' = InBuffer(w) /\ ToWrite(w)' = ToWrite(w)
    BY <1>1, <1>2 DEF Got, InBuffer, ToWrite, WithTask
  <1>4. DueOnce(w)'
    BY <1>2, <1>3 DEF WellServed, DueOnce
  <1>5. \A m \in Got(w) \cup InBuffer(w) : m < Number(t)
    BY <1>1, <1>2 DEF WellServed, DueOnce, Number
  <1>6. w \notin behind' => Earlier(w)'
    BY <1>1, <1>2, <1>3, <1>5 DEF WellServed, Earlier
  <1> QED BY <1>4, <1>6

LEMMA ServedRan ==
    ASSUME FanoutShaped, ListedOnce, TasksApart, TasksWell, NEW task, NEW rest, NEW to, NEW s \in BOOLEAN,
           Ran(task, rest, to, s), UNCHANGED <<conn, got>>, behind \subseteq behind',
           NEW w \in Windows, WellServed(w)
    PROVE  WellServed(w)'
PROOF
  <1> SUFFICES ASSUME Open(w)' PROVE DueOnce(w)' /\ (w \notin behind' => Earlier(w)')
    BY DEF WellServed
  <1>1. /\ Open(w) /\ got' = got /\ DueOnce(w)
    BY DEF Open, WellServed
  <1>2. /\ task \in Tasks
        /\ Tasks' = (Tasks \ {task}) \cup (IF s THEN {rest} ELSE {})
        /\ \A t \in Tasks \ {task} : /\ Number(t) # Number(task)
                                     /\ ~task.begun /\ ~t.begun => Number(task) < Number(t)
    BY TasksRan
  <1> DEFINE num == Number(task)
             O == WithTask(Tasks \ {task}, w)
             mine == task.begun /\ w \in Elements(task.todo)
             left == s /\ w \in Elements(rest.todo)
  <1>3. TaskWell(task)
    BY <1>2 DEF TasksWell
  <1>4. /\ num \notin O
        /\ ToWrite(w) = O \cup (IF mine THEN {num} ELSE {})
        /\ ToWrite(w)' = O \cup (IF left THEN {num} ELSE {})
    <2>1. num \notin O
      BY <1>2 DEF WithTask
    <2>2. ToWrite(w) = O \cup (IF mine THEN {num} ELSE {})
      BY <1>2 DEF ToWrite, WithTask
    <2>3. Number(rest) = num /\ rest.begun
      BY DEF Ran, Number
    <2>4. ToWrite(w)' = WithTask(Tasks', w)
      BY DEF ToWrite, WithTask
    <2>5. WithTask(Tasks', w) = O \cup (IF left THEN {num} ELSE {})
      BY <1>2, <2>3 DEF WithTask
    <2> QED BY <2>1, <2>2, <2>4, <2>5
  <1>5. /\ task.begun => due'[w] = due[w]
        /\ ~task.begun => due'[w] = due[w] \cup {num} /\ num \notin due[w]
    BY <1>1, <1>3 DEF Ran, TaskWell
  <1>6. Got(w)' = Got(w)
    BY <1>1 DEF Got
  <1>7. \/ w \in to /\ ~left /\ (task.begun => mine)
        \/ w \notin to /\ left /\ (task.begun => mine)
        \/ w \notin to /\ ~left /\ task.begun /\ ~mine
    <2>1. ~task.begun => w \in Elements(Todo(task))
      BY <1>1 DEF Todo, ListedOnce
    <2>2. task.begun => (mine <=> w \in Elements(Todo(task)))
      BY DEF Todo
    <2> QED BY <1>1, <2>1, <2>2 DEF Ran
  <1>8. CASE w \in to
    <2>1. /\ buffer'[w] = Append(buffer[w], task.line) /\ buffer[w] \in Seq(EventType \cup PeersType)
          /\ task.line \in EventType /\ IsEvent(task.line) /\ task.line.n = num
      BY <1>8 DEF Ran, FanoutShaped, TaskType, EventType, IsEvent, Number
    <2>2. num \notin Got(w) /\ num \notin InBuffer(w)
      BY <1>1, <1>4, <1>5, <1>7, <1>8 DEF DueOnce
    <2>3. InBuffer(w)' = InBuffer(w) \cup {num} /\ Once(buffer'[w])
      BY <1>1, <2>1, <2>2, LineAppended DEF InBuffer, DueOnce
    <2>4. DueOnce(w)'
      <3>1. ToWrite(w)' = O
        BY <1>4, <1>7, <1>8
      <3>2. due'[w] = Got(w) \cup InBuffer(w) \cup {num} \cup O
        <4> HIDE DEF num, O, mine, left
        <4>1. due[w] = Got(w) \cup InBuffer(w) \cup ToWrite(w)
          BY <1>1 DEF DueOnce
        <4>2. CASE task.begun
          <5>1. ToWrite(w) = O \cup {num} /\ due'[w] = due[w]
            BY <1>4, <1>5, <1>7, <1>8, <4>2
          <5> QED BY <4>1, <5>1
        <4>3. CASE ~task.begun
          <5>1. ToWrite(w) \subseteq O \cup {num} /\ O \subseteq ToWrite(w) /\ due'[w] = due[w] \cup {num}
            BY <1>4, <1>5, <4>3
          <5> QED BY <4>1, <5>1
        <4> QED BY <4>2, <4>3
      <3>3. Got(w) \cap O = {} /\ InBuffer(w) \cap O = {} /\ Got(w) \cap InBuffer(w) = {} /\ IsInjective(got[w])
        BY <1>1, <1>4 DEF DueOnce
      <3>4. num \notin O
        BY <1>4
      <3>5. IsInjective(got'[w])
        BY <1>1, <3>3
      <3> HIDE DEF num, O
      <3> QED BY <1>6, <2>2, <2>3, <3>1, <3>2, <3>3, <3>4, <3>5 DEF DueOnce
    <2>5. ASSUME w \notin behind' PROVE Earlier(w)'
      <3>1. ~task.begun /\ Earlier(w)
        BY <1>1, <1>3, <1>7, <1>8, <2>5 DEF TaskWell, WellServed
      <3>2. \A m \in Got(w) \cup InBuffer(w) : m < num
        BY <1>2, <3>1 DEF Earlier
      <3>3. Rising(buffer'[w])
        BY <2>1, <3>1, <3>2, LineAppended DEF Earlier, InBuffer
      <3>4. ASSUME NEW t \in Tasks', ~t.begun PROVE num < Number(t) /\ t \in Tasks
        BY <1>2, <3>1, <3>4 DEF Ran
      <3>5. \A t \in Tasks' : ~t.begun => \A m \in Got(w) \cup InBuffer(w) \cup {num} : m < Number(t)
        BY <3>1, <3>4 DEF Earlier
      <3> QED BY <1>1, <1>6, <2>3, <3>1, <3>2, <3>3, <3>5 DEF Earlier
    <2> QED BY <2>4, <2>5
  <1>9. CASE w \notin to
    <2>1. buffer'[w] = buffer[w] /\ InBuffer(w)' = InBuffer(w)
      BY <1>9 DEF Ran, InBuffer
    <2>2. DueOnce(w)'
      <3>1. num \notin Got(w) \cup InBuffer(w) \/ ~left
        BY <1>1, <1>4, <1>5, <1>7, <1>9 DEF DueOnce
      <3>2. due'[w] = Got(w) \cup InBuffer(w) \cup ToWrite(w)'
        BY <1>1, <1>4, <1>5, <1>7, <1>9 DEF DueOnce
      <3>3. Got(w) \cap O = {} /\ InBuffer(w) \cap O = {}
        BY <1>1, <1>4 DEF DueOnce
      <3> QED BY <1>1, <1>4, <1>6, <2>1, <3>1, <3>2, <3>3 DEF DueOnce
    <2>3. ASSUME w \notin behind' PROVE Earlier(w)'
      <3>1. Earlier(w)
        BY <1>1, <2>3 DEF WellServed
      <3>2. \A t \in Tasks' : ~t.begun => t \in Tasks
        BY <1>2 DEF Ran
      <3> QED BY <1>1, <1>6, <2>1, <3>1, <3>2 DEF Earlier
    <2> QED BY <2>2, <2>3
  <1> QED BY <1>8, <1>9

LEMMA ServedConnect ==
    ASSUME FanoutShaped, TasksWell, NewsToNew, NEW w \in Windows, Connect(w), Tasks' = Tasks
    PROVE  WellServed(w)'
PROOF
  <1>1. /\ conn[w] = "new" /\ buffer'[w] = <<>> /\ got'[w] = <<>> /\ due'[w] = {}
    BY DEF Connect, NewsToNew, shown
  <1>2. Got(w)' = {} /\ InBuffer(w)' = {}
    BY <1>1 DEF Got, InBuffer, Elements, EventsOf
  <1>3. ToWrite(w)' = {}
    BY <1>1 DEF ToWrite, WithTask, TasksWell, TaskWell
  <1>4. IsInjective(got'[w]) /\ Once(buffer'[w]) /\ InOrder(got'[w]) /\ Rising(buffer'[w])
    BY <1>1 DEF IsInjective, Once, InOrder, Rising
  <1> QED BY <1>1, <1>2, <1>3, <1>4 DEF WellServed, DueOnce, Earlier

LEMMA ServedReplyPeers ==
    ASSUME FanoutShaped, NEW w \in Windows, ReplyPeers(w), Tasks' = Tasks, WellServed(w)
    PROVE  WellServed(w)'
PROOF
  <1> DEFINE e == [kind |-> "peers", list |-> online]
  <1>1. /\ Open(w) /\ got' = got /\ due' = due /\ behind \subseteq behind'
        /\ buffer'[w] = Append(buffer[w], e) /\ ~IsEvent(e)
        /\ e \in EventType \cup PeersType /\ buffer[w] \in Seq(EventType \cup PeersType)
    BY DEF ReplyPeers, shown, Track, FanoutShaped, IsEvent, PeersType
  <1> HIDE DEF e
  <1>2. InBuffer(w)' = InBuffer(w) /\ (Once(buffer[w]) => Once(buffer'[w])) /\ (Rising(buffer[w]) => Rising(buffer'[w]))
    <2>1. /\ EventsOf(Append(buffer[w], e)) = EventsOf(buffer[w])
          /\ Once(buffer[w]) => Once(Append(buffer[w], e))
          /\ Rising(buffer[w]) => Rising(Append(buffer[w], e))
      <3> DEFINE b == buffer[w]
                 S == EventType \cup PeersType
      <3>1. e \in S /\ b \in Seq(S) /\ ~IsEvent(e)
        BY <1>1
      <3> HIDE DEF b, S
      <3>2. EventsOf(Append(b, e)) = EventsOf(b) \cup (IF IsEvent(e) THEN {e.n} ELSE {})
        BY <3>1, LineAppended
      <3>3. (Once(b) => Once(Append(b, e))) /\ (Rising(b) => Rising(Append(b, e)))
        BY <3>1, LineAppended
      <3> QED BY <3>1, <3>2, <3>3 DEF b
    <2> QED BY <1>1, <2>1 DEF InBuffer
  <1>3. Got(w)' = Got(w) /\ ToWrite(w)' = ToWrite(w)
    BY <1>1 DEF Got, ToWrite, WithTask
  <1> QED BY <1>1, <1>2, <1>3 DEF WellServed, DueOnce, Earlier

LEMMA ServedRead ==
    ASSUME FanoutShaped, NEW w \in Windows, Read(w), Tasks' = Tasks, WellServed(w)
    PROVE  WellServed(w)'
PROOF
  <1> DEFINE e == Head(buffer[w])
  <1>1. /\ Open(w) /\ due' = due /\ behind \subseteq behind' /\ buffer'[w] = Tail(buffer[w])
        /\ got'[w] = IF IsEvent(e) THEN Append(got[w], e.n) ELSE got[w]
        /\ buffer[w] \in Seq(EventType \cup PeersType) /\ buffer[w] # <<>> /\ got[w] \in Seq(Nat)
    BY DEF Read, Track, FanoutShaped, IsEvent
  <1>2. e \in EventType \cup PeersType
    BY <1>1, TailFacts
  <1>3. /\ InBuffer(w) = InBuffer(w)' \cup (IF IsEvent(e) THEN {e.n} ELSE {})
        /\ Once(buffer[w]) => Once(buffer'[w]) /\ (IsEvent(e) => e.n \notin InBuffer(w)')
        /\ Rising(buffer[w]) => Rising(buffer'[w]) /\ (IsEvent(e) => \A n \in InBuffer(w)' : e.n < n)
    BY <1>1, LineTaken DEF InBuffer
  <1> HIDE DEF e
  <1>4. DueOnce(w) /\ (w \notin behind' => Earlier(w)) /\ ToWrite(w)' = ToWrite(w)
    BY <1>1 DEF WellServed, ToWrite, WithTask
  <1>5. CASE ~IsEvent(e)
    <2>1. Got(w)' = Got(w) /\ got'[w] = got[w] /\ InBuffer(w)' = InBuffer(w)
      BY <1>1, <1>3, <1>5 DEF Got
    <2> QED BY <1>1, <1>3, <1>4, <2>1 DEF WellServed, DueOnce, Earlier
  <1>6. CASE IsEvent(e)
    <2>1. e.n \in Nat
      BY <1>2, <1>6 DEF EventType, PeersType, IsEvent
    <2>2. e.n \in InBuffer(w) /\ e.n \notin Got(w)
      BY <1>3, <1>4, <1>6 DEF DueOnce
    <2>3. Got(w)' = Got(w) \cup {e.n} /\ IsInjective(got'[w])
      BY <1>1, <1>4, <1>6, <2>1, <2>2, NumberAppended DEF Got, DueOnce
    <2>4. DueOnce(w)'
      BY <1>1, <1>3, <1>4, <1>6, <2>2, <2>3 DEF DueOnce
    <2>5. ASSUME w \notin behind' PROVE Earlier(w)'
      <3>1. \A m \in Got(w) : m < e.n
        BY <1>4, <2>2, <2>5 DEF Earlier
      <3>2. InOrder(got'[w])
        BY <1>1, <1>4, <1>6, <2>1, <2>5, <3>1, NumberAppended DEF Got, Earlier
      <3>3. Got(w)' \cup InBuffer(w)' = Got(w) \cup InBuffer(w)
        BY <1>3, <1>6, <2>3
      <3>4. \A m \in Got(w)', n \in InBuffer(w)' : m < n
        BY <1>3, <1>4, <1>6, <2>3, <2>5 DEF Earlier
      <3>5. \A t \in Tasks' : ~t.begun => \A m \in Got(w)' \cup InBuffer(w)' : m < Number(t)
        BY <1>4, <2>5, <3>3 DEF Earlier
      <3> QED BY <1>3, <1>4, <2>5, <3>2, <3>4, <3>5 DEF Earlier
    <2> QED BY <2>4, <2>5 DEF WellServed
  <1> QED BY <1>5, <1>6

LEMMA DeliveryNext ==
    ASSUME FanoutShaped, ListedOnce, NewsToNew, TasksApart, TasksWell, Delivery, [FanoutNext]_fanoutVars
    PROVE  Delivery'
PROOF
  <1> SUFFICES ASSUME NEW v \in Windows PROVE WellServed(v)'
    BY DEF Delivery
  <1>1. WellServed(v)
    BY DEF Delivery
  <1>2. UNCHANGED <<ready, waiting>> => Tasks' = Tasks
    BY DEF Tasks
  <1>3. CASE \E p \in Peers : PeerSeen(p) \/ PeerLost(p) \/ PeerWrites(p) \/ TransferExpires(p)
    BY <1>1, <1>3, ServedPublish DEF PeerSeen, PeerLost, PeerWrites, TransferExpires, Mention
  <1>4. CASE RunPublish
    <2>1. PICK task, rest, to : \E s \in BOOLEAN : Ran(task, rest, to, s)
      BY <1>4, RunFacts
    <2>2. UNCHANGED <<conn, got>> /\ behind \subseteq behind'
      BY <1>4 DEF RunPublish, shown, Track
    <2> QED BY <1>1, <2>1, <2>2, ServedRan
  <1>5. ASSUME NEW w \in Windows, Connect(w) PROVE WellServed(v)'
    <2>1. Tasks' = Tasks
      BY <1>2, <1>5 DEF Connect
    <2>2. CASE v = w
      BY <1>5, <2>1, <2>2, ServedConnect
    <2>3. CASE v # w
      <3>1. conn'[v] = conn[v]
        BY <1>5, <2>3 DEF Connect, FanoutShaped
      <3> QED BY <1>1, <1>5, <2>1, <3>1, ServedKept DEF Connect, shown, Track
    <2> QED BY <2>2, <2>3
  <1>6. ASSUME NEW w \in Windows, ReplyPeers(w) PROVE WellServed(v)'
    <2>1. Tasks' = Tasks
      BY <1>2, <1>6 DEF ReplyPeers
    <2>2. CASE v = w
      BY <1>1, <1>6, <2>1, <2>2, ServedReplyPeers
    <2>3. CASE v # w
      <3>1. buffer'[v] = buffer[v]
        BY <1>6, <2>3 DEF ReplyPeers, FanoutShaped
      <3> QED BY <1>1, <1>6, <2>1, <3>1, ServedKept DEF ReplyPeers, shown, Track
    <2> QED BY <2>2, <2>3
  <1>7. ASSUME NEW w \in Windows, Close(w) PROVE WellServed(v)'
    <2>1. Tasks' = Tasks
      BY <1>2, <1>7 DEF Close
    <2>2. CASE v = w
      <3>1. ~Open(v)'
        BY <1>7, <2>2 DEF Close, FanoutShaped, Open
      <3> QED BY <3>1 DEF WellServed
    <2>3. CASE v # w
      <3>1. conn'[v] = conn[v] /\ buffer'[v] = buffer[v] /\ got'[v] = got[v] /\ due'[v] = due[v]
        BY <1>7, <2>3 DEF Close, FanoutShaped
      <3>2. behind \subseteq behind'
        BY <1>7 DEF Close, Track
      <3> QED BY <1>1, <2>1, <3>1, <3>2, ServedKept
    <2> QED BY <2>2, <2>3
  <1>8. ASSUME NEW w \in Windows, ConnectionLost(w) PROVE WellServed(v)'
    <2>1. Tasks' = Tasks
      BY <1>8, TasksWoken DEF ConnectionLost
    <2> QED BY <1>1, <1>8, <2>1, ServedKept DEF ConnectionLost, shown, Track
  <1>9. ASSUME NEW w \in Windows, Forget(w) PROVE WellServed(v)'
    BY <1>1, <1>2, <1>9, ServedKept DEF Forget, shown, Track
  <1>10. ASSUME NEW w \in Windows, Read(w) PROVE WellServed(v)'
    <2>1. Tasks' = Tasks
      BY <1>2, <1>10, TasksWoken DEF Read
    <2>2. CASE v = w
      BY <1>1, <1>10, <2>1, <2>2, ServedRead
    <2>3. CASE v # w
      <3>1. buffer'[v] = buffer[v] /\ got'[v] = got[v]
        BY <1>10, <2>3 DEF Read, FanoutShaped
      <3>2. conn' = conn /\ due' = due /\ behind \subseteq behind'
        BY <1>10 DEF Read, Track
      <3> QED BY <1>1, <2>1, <3>1, <3>2, ServedKept
    <2> QED BY <2>2, <2>3
  <1>11. ASSUME NEW w \in Windows, NEW p \in Peers, Type(w, p) PROVE WellServed(v)'
    BY <1>1, <1>2, <1>11, ServedKept DEF Type, server
  <1>12. CASE UNCHANGED fanoutVars
    BY <1>1, <1>2, <1>12, ServedKept DEF fanoutVars, server, shown
  <1> QED
    BY <1>3, <1>4, <1>5, <1>6, <1>7, <1>8, <1>9, <1>10, <1>11, <1>12, FanoutSteps

-----------------------------------------------------------------------------
(* What is said of a peer.                                                 *)

About(e, p) == e.kind \in {"seen", "lost"} /\ e.peer = p
Adds(e, p) == (e.kind \in {"message", "partial"} /\ e.peer = p) \/ (e.kind = "peers" /\ p \in e.list)

(* A line says how it is with the peer; or it may change what was said.    *)
Now(p) == IF p \in online THEN "seen" ELSE "lost"
Settles(e, p, is) == e.kind = is /\ About(e, p)
Unsays(e, p, is) == About(e, p) \/ (is = "lost" /\ Adds(e, p))

(* The last word, of the lines of q with the numbers I; or there is none.  *)
LastWord(I, q, p, is) ==
    \E i \in I : Settles(q[i], p, is) /\ \A j \in I : j > i => ~Unsays(q[j], p, is)
NoWord(I, q, p, is) == \A i \in I : ~Unsays(q[i], p, is)

LEMMA WordAdded ==
    ASSUME NEW I, NEW q, NEW J, NEW r, NEW p, NEW is, NEW m,
           I \subseteq Nat, m \in Nat, J = I \cup {m}, \A i \in I : i < m /\ r[i] = q[i]
    PROVE  /\ Settles(r[m], p, is) => LastWord(J, r, p, is)
           /\ ~Unsays(r[m], p, is) => /\ LastWord(I, q, p, is) => LastWord(J, r, p, is)
                                      /\ NoWord(I, q, p, is) => NoWord(J, r, p, is)
PROOF
  <1>1. ASSUME Settles(r[m], p, is) PROVE LastWord(J, r, p, is)
    <2>1. ASSUME NEW j \in J, j > m PROVE FALSE
      <3>1. j \in I /\ j \in Nat
        BY <2>1
      <3>2. j < m
        BY <3>1
      <3> QED BY <2>1, <3>1, <3>2
    <2>2. m \in J
      OBVIOUS
    <2> QED BY <1>1, <2>1, <2>2 DEF LastWord
  <1>2. ASSUME ~Unsays(r[m], p, is), LastWord(I, q, p, is) PROVE LastWord(J, r, p, is)
    <2>1. PICK i \in I : Settles(q[i], p, is) /\ \A j \in I : j > i => ~Unsays(q[j], p, is)
      BY <1>2 DEF LastWord
    <2>2. i \in J /\ Settles(r[i], p, is)
      BY <2>1
    <2>3. \A j \in J : j > i => ~Unsays(r[j], p, is)
      BY <1>2, <2>1
    <2> QED BY <2>2, <2>3 DEF LastWord
  <1>3. ASSUME ~Unsays(r[m], p, is), NoWord(I, q, p, is) PROVE NoWord(J, r, p, is)
    BY <1>3 DEF NoWord
  <1> QED BY <1>1, <1>2, <1>3

LEMMA WordSame ==
    ASSUME NEW I, NEW q, NEW r, NEW p, NEW is, \A i \in I : r[i] = q[i]
    PROVE  (LastWord(I, q, p, is) => LastWord(I, r, p, is)) /\ (NoWord(I, q, p, is) => NoWord(I, r, p, is))
  BY DEF LastWord, NoWord

(* The first line is taken; or what is taken was no line.                  *)
Moved(I, q, J, r) ==
    /\ I \subseteq Nat /\ J \subseteq Nat
    /\ \A i \in I : i # 1 => i - 1 \in J /\ r[i - 1] = q[i]
    /\ \A i \in J : i + 1 \in I /\ r[i] = q[i + 1] /\ i >= 1

LEMMA WordTaken ==
    ASSUME NEW I, NEW q, NEW J, NEW r, NEW p, NEW is, Moved(I, q, J, r)
    PROVE  /\ LastWord(I, q, p, is) => \/ LastWord(J, r, p, is)
                                       \/ 1 \in I /\ Settles(q[1], p, is) /\ NoWord(J, r, p, is)
           /\ NoWord(I, q, p, is) => NoWord(J, r, p, is) /\ (1 \in I => ~Unsays(q[1], p, is))
PROOF
  <1> USE DEF Moved
  <1>1. ASSUME LastWord(I, q, p, is)
        PROVE  LastWord(J, r, p, is) \/ (1 \in I /\ Settles(q[1], p, is) /\ NoWord(J, r, p, is))
    <2>1. PICK i \in I : Settles(q[i], p, is) /\ \A j \in I : j > i => ~Unsays(q[j], p, is)
      BY <1>1 DEF LastWord
    <2>2. CASE i = 1
      <3>1. \A j \in J : ~Unsays(r[j], p, is)
        <4> SUFFICES ASSUME NEW j \in J PROVE ~Unsays(r[j], p, is)
          OBVIOUS
        <4>1. j + 1 \in I /\ r[j] = q[j + 1] /\ j + 1 > 1
          OBVIOUS
        <4> QED BY <2>1, <2>2, <4>1
      <3> QED BY <2>1, <2>2, <3>1 DEF NoWord
    <2>3. CASE i # 1
      <3>1. i - 1 \in J /\ Settles(r[i - 1], p, is)
        BY <2>1, <2>3
      <3>2. ASSUME NEW j \in J, j > i - 1 PROVE ~Unsays(r[j], p, is)
        <4>1. j + 1 \in I /\ r[j] = q[j + 1]
          OBVIOUS
        <4>2. j \in Nat /\ i \in Nat
          OBVIOUS
        <4>3. j + 1 > i
          BY <3>2, <4>2
        <4> QED BY <2>1, <4>1, <4>3
      <3> QED BY <3>1, <3>2 DEF LastWord
    <2> QED BY <2>2, <2>3
  <1>2. ASSUME NoWord(I, q, p, is) PROVE NoWord(J, r, p, is) /\ (1 \in I => ~Unsays(q[1], p, is))
    BY <1>2 DEF NoWord
  <1> QED BY <1>1, <1>2

-----------------------------------------------------------------------------
(* In a buffer.                                                            *)

Told(q, p, is) == LastWord(DOMAIN q, q, p, is)
Silent(q, p, is) == NoWord(DOMAIN q, q, p, is)
Added(q, p) == \E i \in DOMAIN q : Adds(q[i], p)

LEMMA ToldAppended ==
    ASSUME NEW S, NEW q \in Seq(S), NEW e \in S, NEW p, NEW is
    PROVE  /\ Settles(e, p, is) => Told(Append(q, e), p, is)
           /\ ~Unsays(e, p, is) => /\ Told(q, p, is) => Told(Append(q, e), p, is)
                                   /\ Silent(q, p, is) => Silent(Append(q, e), p, is)
           /\ Added(q, p) \/ Adds(e, p) => Added(Append(q, e), p)
PROOF
  <1> DEFINE r == Append(q, e)
             m == Len(q) + 1
  <1>1. Longer(q, r, e)
    BY AppendFacts
  <1> HIDE DEF r, m
  <1>2. /\ DOMAIN q \subseteq Nat /\ m \in Nat /\ DOMAIN r = DOMAIN q \cup {m}
        /\ \A i \in DOMAIN q : i < m /\ r[i] = q[i]
        /\ r[m] = e
    BY <1>1 DEF Longer, m
  <1>3. Added(q, p) \/ Adds(e, p) => Added(r, p)
    BY <1>2 DEF Added
  <1>4. /\ Settles(e, p, is) => LastWord(DOMAIN r, r, p, is)
        /\ ~Unsays(e, p, is) => /\ LastWord(DOMAIN q, q, p, is) => LastWord(DOMAIN r, r, p, is)
                                /\ NoWord(DOMAIN q, q, p, is) => NoWord(DOMAIN r, r, p, is)
    BY <1>2, WordAdded
  <1> QED BY <1>3, <1>4 DEF Told, Silent, r

LEMMA ToldTaken ==
    ASSUME NEW S, NEW q \in Seq(S), q # <<>>, NEW p, NEW is
    PROVE  /\ Told(q, p, is) => Told(Tail(q), p, is) \/ (Settles(Head(q), p, is) /\ Silent(Tail(q), p, is))
           /\ Silent(q, p, is) => Silent(Tail(q), p, is) /\ ~Unsays(Head(q), p, is)
           /\ Added(q, p) => Added(Tail(q), p) \/ Adds(Head(q), p)
PROOF
  <1> DEFINE r == Tail(q)
  <1>1. Shorter(q, r) /\ Head(q) = q[1]
    BY TailFacts
  <1> HIDE DEF r
  <1>2. /\ DOMAIN q \subseteq Nat /\ DOMAIN r \subseteq Nat /\ 1 \in DOMAIN q
        /\ \A i \in DOMAIN q : i # 1 => i - 1 \in DOMAIN r /\ r[i - 1] = q[i]
        /\ \A i \in DOMAIN r : i + 1 \in DOMAIN q /\ r[i] = q[i + 1] /\ i >= 1
    BY <1>1 DEF Shorter
  <1>3. Added(q, p) => Added(r, p) \/ Adds(Head(q), p)
    BY <1>1, <1>2 DEF Added
  <1>4. /\ LastWord(DOMAIN q, q, p, is) => \/ LastWord(DOMAIN r, r, p, is)
                                           \/ Settles(q[1], p, is) /\ NoWord(DOMAIN r, r, p, is)
        /\ NoWord(DOMAIN q, q, p, is) => NoWord(DOMAIN r, r, p, is) /\ ~Unsays(q[1], p, is)
    <2>1. Moved(DOMAIN q, q, DOMAIN r, r)
      BY <1>2 DEF Moved
    <2> QED BY <1>2, <2>1, WordTaken
  <1> QED BY <1>1, <1>3, <1>4 DEF Told, Silent, r

-----------------------------------------------------------------------------
(* In what no task has begun to write.                                     *)

Unsaid(r) == {i \in DOMAIN r : ~r[i].begun}
Lines(r) == [i \in DOMAIN r |-> r[i].line]

ToTell(r, p, is) == LastWord(Unsaid(r), Lines(r), p, is)
NoneToTell(r, p, is) == NoWord(Unsaid(r), Lines(r), p, is)

LEMMA ToTellAppended ==
    ASSUME NEW S, NEW r \in Seq(S), NEW t \in S, NEW p, NEW is
    PROVE  LET s == Append(r, t)
           IN  /\ ~t.begun /\ Settles(t.line, p, is) => ToTell(s, p, is)
               /\ t.begun \/ ~Unsays(t.line, p, is) => /\ ToTell(r, p, is) => ToTell(s, p, is)
                                                       /\ NoneToTell(r, p, is) => NoneToTell(s, p, is)
PROOF
  <1> DEFINE s == Append(r, t)
             m == Len(r) + 1
  <1>1. Longer(r, s, t)
    BY AppendFacts
  <1> HIDE DEF s, m
  <1>2. /\ DOMAIN r \subseteq Nat /\ m \in Nat /\ DOMAIN s = DOMAIN r \cup {m} /\ m \notin DOMAIN r
        /\ \A i \in DOMAIN r : i < m /\ s[i] = r[i]
        /\ s[m] = t
    BY <1>1 DEF Longer, m
  <1>3. /\ Unsaid(r) \subseteq Nat /\ \A i \in Unsaid(r) : i < m /\ Lines(s)[i] = Lines(r)[i]
        /\ Lines(s)[m] = t.line
    BY <1>2 DEF Unsaid, Lines
  <1>4. CASE t.begun
    <2>1. Unsaid(s) = Unsaid(r)
      BY <1>2, <1>4 DEF Unsaid
    <2>2. /\ LastWord(Unsaid(r), Lines(r), p, is) => LastWord(Unsaid(r), Lines(s), p, is)
          /\ NoWord(Unsaid(r), Lines(r), p, is) => NoWord(Unsaid(r), Lines(s), p, is)
      BY <1>3, WordSame
    <2> QED BY <1>4, <2>1, <2>2 DEF ToTell, NoneToTell, s
  <1>5. CASE ~t.begun
    <2>1. Unsaid(s) = Unsaid(r) \cup {m}
      BY <1>2, <1>5 DEF Unsaid
    <2>2. /\ Settles(t.line, p, is) => LastWord(Unsaid(s), Lines(s), p, is)
          /\ ~Unsays(t.line, p, is) =>
                /\ LastWord(Unsaid(r), Lines(r), p, is) => LastWord(Unsaid(s), Lines(s), p, is)
                /\ NoWord(Unsaid(r), Lines(r), p, is) => NoWord(Unsaid(s), Lines(s), p, is)
      <3> DEFINE I == Unsaid(r)
                 J == Unsaid(s)
                 a == Lines(r)
                 b == Lines(s)
      <3>1. /\ I \subseteq Nat /\ m \in Nat /\ J = I \cup {m} /\ (\A i \in I : i < m /\ b[i] = a[i])
            /\ b[m] = t.line
        BY <1>2, <1>3, <2>1
      <3> HIDE DEF I, J, a, b
      <3>2. /\ Settles(b[m], p, is) => LastWord(J, b, p, is)
            /\ ~Unsays(b[m], p, is) => /\ LastWord(I, a, p, is) => LastWord(J, b, p, is)
                                       /\ NoWord(I, a, p, is) => NoWord(J, b, p, is)
        BY <3>1, WordAdded
      <3> QED BY <3>1, <3>2 DEF I, J, a, b
    <2> QED BY <1>5, <2>2 DEF ToTell, NoneToTell, s
  <1> QED BY <1>4, <1>5

LEMMA ToTellJoined ==
    ASSUME NEW S, NEW r \in Seq(S), NEW q \in Seq(S), \A t \in Elements(q) : t.begun, NEW p, NEW is
    PROVE  /\ ToTell(r, p, is) => ToTell(r \o q, p, is)
           /\ NoneToTell(r, p, is) => NoneToTell(r \o q, p, is)
PROOF
  <1> DEFINE s == r \o q
  <1>1. /\ \A i \in DOMAIN r : i \in DOMAIN s /\ s[i] = r[i]
        /\ \A i \in DOMAIN s : i \in DOMAIN r \/ (i - Len(r) \in DOMAIN q /\ s[i] = q[i - Len(r)])
    OBVIOUS
  <1> HIDE DEF s
  <1>2. Unsaid(s) = Unsaid(r)
    BY <1>1 DEF Unsaid, Elements
  <1>3. \A i \in Unsaid(r) : Lines(s)[i] = Lines(r)[i]
    BY <1>1 DEF Unsaid, Lines
  <1>4. /\ LastWord(Unsaid(r), Lines(r), p, is) => LastWord(Unsaid(r), Lines(s), p, is)
        /\ NoWord(Unsaid(r), Lines(r), p, is) => NoWord(Unsaid(r), Lines(s), p, is)
    BY <1>3, WordSame
  <1> QED BY <1>2, <1>4 DEF ToTell, NoneToTell, s

LEMMA ToTellTaken ==
    ASSUME NEW S, NEW r \in Seq(S), r # <<>>, NEW p, NEW is
    PROVE  LET t == Head(r)
           IN  /\ ToTell(r, p, is) =>
                     \/ ToTell(Tail(r), p, is)
                     \/ ~t.begun /\ Settles(t.line, p, is) /\ NoneToTell(Tail(r), p, is)
               /\ NoneToTell(r, p, is) => /\ NoneToTell(Tail(r), p, is)
                                          /\ ~t.begun => ~Unsays(t.line, p, is)
PROOF
  <1> DEFINE s == Tail(r)
  <1>1. Shorter(r, s) /\ Head(r) = r[1]
    BY TailFacts
  <1> HIDE DEF s
  <1>2. /\ DOMAIN r \subseteq Nat /\ DOMAIN s \subseteq Nat /\ 1 \in DOMAIN r
        /\ \A i \in DOMAIN r : i # 1 => i - 1 \in DOMAIN s /\ s[i - 1] = r[i]
        /\ \A i \in DOMAIN s : i + 1 \in DOMAIN r /\ s[i] = r[i + 1] /\ i >= 1
    BY <1>1 DEF Shorter
  <1>3. /\ Unsaid(r) \subseteq Nat /\ Unsaid(s) \subseteq Nat
        /\ \A i \in Unsaid(r) : i # 1 => i - 1 \in Unsaid(s) /\ Lines(s)[i - 1] = Lines(r)[i]
        /\ \A i \in Unsaid(s) : i + 1 \in Unsaid(r) /\ Lines(s)[i] = Lines(r)[i + 1] /\ i >= 1
        /\ 1 \in Unsaid(r) <=> ~Head(r).begun
        /\ Lines(r)[1] = Head(r).line
    BY <1>1, <1>2 DEF Unsaid, Lines
  <1>4. /\ LastWord(Unsaid(r), Lines(r), p, is) =>
              \/ LastWord(Unsaid(s), Lines(s), p, is)
              \/ 1 \in Unsaid(r) /\ Settles(Lines(r)[1], p, is) /\ NoWord(Unsaid(s), Lines(s), p, is)
        /\ NoWord(Unsaid(r), Lines(r), p, is) => /\ NoWord(Unsaid(s), Lines(s), p, is)
                                                 /\ 1 \in Unsaid(r) => ~Unsays(Lines(r)[1], p, is)
    <2>1. Moved(Unsaid(r), Lines(r), Unsaid(s), Lines(s))
      BY <1>3 DEF Moved
    <2> QED BY <2>1, WordTaken
  <1> QED BY <1>3, <1>4 DEF ToTell, NoneToTell, s

-----------------------------------------------------------------------------
(* What a window shows of a peer, or is about to.                          *)

Shows(w, p) ==
    /\ p \in online => p \notin away[w] /\ (w \in asked => p \in known[w] \/ Added(buffer[w], p))
    /\ p \notin online => p \notin known[w] \ away[w]

WellTold(w, p) == Told(buffer[w], p, Now(p)) \/ (Silent(buffer[w], p, Now(p)) /\ Shows(w, p))

Current(w) == Open(w) /\ w \notin behind

Truth(p) ==
    /\ ToTell(ready, p, Now(p)) \/ NoneToTell(ready, p, Now(p))
    /\ \A w \in Windows : Current(w) /\ ~ToTell(ready, p, Now(p)) => WellTold(w, p)

Truthful == \A p \in Peers : p \in stray \/ Truth(p)

LEMMA ToldKept ==
    ASSUME NEW w \in Windows, NEW p \in Peers, WellTold(w, p), Now(p)' = Now(p), buffer'[w] = buffer[w],
           known'[w] = known[w], away'[w] = away[w], (w \in asked' <=> w \in asked)
    PROVE  WellTold(w, p)'
PROOF
  <1>1. p \in online' <=> p \in online
    BY DEF Now
  <1>2. Shows(w, p) => Shows(w, p)'
    BY <1>1 DEF Shows
  <1> QED BY <1>2 DEF WellTold

(* A step that takes nothing from what is to come, says nothing that is    *)
(* not so, and leaves the windows as they are.                             *)
LEMMA TruthKept ==
    ASSUME NEW p \in Peers, Truth(p), Now(p)' = Now(p),
           (ToTell(ready, p, Now(p)) => ToTell(ready', p, Now(p))),
           (NoneToTell(ready, p, Now(p)) => NoneToTell(ready', p, Now(p))),
           \A w \in Windows : Current(w)' => WellTold(w, p)' \/ (Current(w) /\ (WellTold(w, p) => WellTold(w, p)'))
    PROVE  Truth(p)'
  BY DEF Truth

LEMMA TruthPublish ==
    ASSUME FanoutShaped, TasksApart, TasksWell, NEW kind \in {"seen", "lost", "message", "partial"}, NEW p0 \in Peers,
           Publish(kind, p0), NEW p \in Peers,
           \/ p = p0 /\ kind = Now(p)'
           \/ Truth(p) /\ Now(p)' = Now(p) /\ (p = p0 => kind \in {"message", "partial"} /\ p \in online)
    PROVE  Truth(p)'
PROOF
  <1>1. PICK t \in TaskType : /\ t.line = [kind |-> kind, peer |-> p0, n |-> events + 1] /\ ~t.begun
                              /\ ready' = Append(ready, t)
    BY TasksPublish
  <1>2. t.line.kind = kind /\ t.line.peer = p0 /\ ready \in Seq(TaskType)
    BY <1>1 DEF FanoutShaped
  <1>3. CASE p = p0 /\ kind = Now(p)'
    <2>1. Settles(t.line, p, Now(p)')
      BY <1>2, <1>3 DEF Settles, About, Now
    <2>2. ToTell(ready', p, Now(p)')
      BY <1>1, <1>2, <2>1, ToTellAppended
    <2> QED BY <2>2 DEF Truth
  <1>4. CASE Truth(p) /\ Now(p)' = Now(p) /\ (p = p0 => kind \in {"message", "partial"} /\ p \in online)
    <2>1. ~Unsays(t.line, p, Now(p))
      BY <1>2, <1>4 DEF Unsays, About, Adds, Now
    <2>2. /\ ToTell(ready, p, Now(p)) => ToTell(ready', p, Now(p))
          /\ NoneToTell(ready, p, Now(p)) => NoneToTell(ready', p, Now(p))
      BY <1>1, <1>2, <2>1, ToTellAppended
    <2>3. ASSUME NEW w \in Windows, Current(w)' PROVE Current(w) /\ (WellTold(w, p) => WellTold(w, p)')
      <3>1. Current(w)
        BY <2>3 DEF Publish, Track, Current, Open
      <3>2. WellTold(w, p) => WellTold(w, p)'
        BY <1>4, ToldKept DEF Publish, shown
      <3> QED BY <3>1, <3>2
    <2> QED BY <1>4, <2>2, <2>3, TruthKept
  <1> QED BY <1>3, <1>4

LEMMA TruthRan ==
    ASSUME FanoutShaped, ListedOnce, TasksApart, TasksWell, NEW task, NEW rest, NEW to, NEW s \in BOOLEAN,
           Ran(task, rest, to, s), UNCHANGED <<online, conn, asked, known, away>>, behind \subseteq behind',
           NEW p \in Peers, Truth(p)
    PROVE  Truth(p)'
PROOF
  <1> DEFINE now == Now(p)
             q == Tail(ready)
  <1>1. /\ ready \in Seq(TaskType) /\ ready # <<>> /\ task = Head(ready) /\ q \in Seq(TaskType)
        /\ task \in TaskType /\ rest \in TaskType /\ rest.begun
    BY TailFacts DEF Ran, FanoutShaped
  <1>2. Now(p)' = now
    BY DEF Now
  <1>3. /\ ToTell(ready, p, now) =>
              ToTell(q, p, now) \/ (~task.begun /\ Settles(task.line, p, now) /\ NoneToTell(q, p, now))
        /\ NoneToTell(ready, p, now) => NoneToTell(q, p, now) /\ (~task.begun => ~Unsays(task.line, p, now))
    BY <1>1, ToTellTaken
  <1> HIDE DEF now, q
  <1>4. (ToTell(q, p, now) => ToTell(ready', p, now)) /\ (NoneToTell(q, p, now) => NoneToTell(ready', p, now))
    <2>1. ready' = q \/ ready' = Append(q, rest)
      BY DEF Ran, q
    <2>2. /\ ToTell(q, p, now) => ToTell(Append(q, rest), p, now)
          /\ NoneToTell(q, p, now) => NoneToTell(Append(q, rest), p, now)
      BY <1>1, ToTellAppended
    <2> QED BY <2>1, <2>2
  <1>5. ToTell(ready, p, now) \/ NoneToTell(ready, p, now)
    BY DEF Truth, now
  <1>6. ASSUME NEW w \in Windows, Current(w)', ~ToTell(ready', p, now)
        PROVE  WellTold(w, p)'
    <2>1. Current(w)
      BY <1>6 DEF Current, Open
    <2>2. w \in to <=> ~task.begun
      <3>1. ASSUME w \in to, task.begun PROVE FALSE
        <4>1. w \in Elements(task.todo)
          BY <3>1 DEF Ran, Todo
        <4>2. TaskWell(task)
          BY <1>1, TailFacts DEF TasksWell, Tasks, Elements, Shorter
        <4> QED BY <2>1, <3>1, <4>1, <4>2 DEF TaskWell, Current
      <3>2. ASSUME ~task.begun PROVE w \in to
        <4>1. w \in Elements(Todo(task)) /\ Open(w)
          BY <2>1, <3>2 DEF Todo, ListedOnce, Current
        <4> QED BY <1>6, <4>1 DEF Ran, Current
      <3> QED BY <3>1, <3>2
    <2>3. CASE task.begun
      <3>1. ~ToTell(ready, p, now)
        BY <1>3, <1>4, <1>6, <2>3
      <3>2. WellTold(w, p)
        BY <2>1, <3>1 DEF Truth, now
      <3>3. buffer'[w] = buffer[w]
        BY <2>2, <2>3 DEF Ran
      <3> QED BY <1>2, <3>2, <3>3, ToldKept DEF now
    <2>4. CASE ~task.begun
      <3> DEFINE e == task.line
                 b == buffer[w]
                 S == EventType \cup PeersType
      <3>1. buffer'[w] = Append(b, e) /\ b \in Seq(S) /\ e \in S
        BY <1>1, <2>2, <2>4 DEF Ran, FanoutShaped, TaskType
      <3> HIDE DEF e, b, S
      <3>2. /\ Settles(e, p, now) => Told(Append(b, e), p, now)
            /\ ~Unsays(e, p, now) => /\ Told(b, p, now) => Told(Append(b, e), p, now)
                                     /\ Silent(b, p, now) => Silent(Append(b, e), p, now)
            /\ Added(b, p) => Added(Append(b, e), p)
        BY <3>1, ToldAppended
      <3>3. CASE ToTell(ready, p, now)
        <4>1. Settles(e, p, now)
          BY <1>3, <1>4, <1>6, <3>3 DEF e
        <4> QED BY <1>2, <3>1, <3>2, <4>1 DEF WellTold
      <3>4. CASE ~ToTell(ready, p, now)
        <4>1. ~Unsays(e, p, now)
          BY <1>3, <1>5, <2>4, <3>4 DEF e
        <4>2. WellTold(w, p)
          BY <2>1, <3>4 DEF Truth, now
        <4>3. Told(b, p, now) \/ (Silent(b, p, now) /\ Shows(w, p))
          BY <4>2 DEF WellTold, b, now
        <4>4. Shows(w, p) => Shows(w, p)'
          BY <3>1, <3>2 DEF Shows, b
        <4> QED BY <1>2, <3>1, <3>2, <4>1, <4>3, <4>4 DEF WellTold
      <3> QED BY <3>3, <3>4
    <2> QED BY <2>3, <2>4
  <1> QED BY <1>2, <1>3, <1>4, <1>5, <1>6 DEF Truth

(* What a window makes of a line.                                          *)
LEMMA ReadShows ==
    ASSUME FanoutShaped, NEW w \in Windows, NEW p \in Peers, NEW e \in EventType \cup PeersType,
           ShownAs(w, e), UNCHANGED <<online, asked>>,
           Added(buffer[w], p) => Added(buffer'[w], p) \/ Adds(e, p),
           Settles(e, p, Now(p)) \/ (~Unsays(e, p, Now(p)) /\ Shows(w, p))
    PROVE  Shows(w, p)'
PROOF
  <1>1. known \in [Windows -> SUBSET Peers] /\ away \in [Windows -> SUBSET Peers]
    BY DEF FanoutShaped
  <1>2. e.kind \in {"seen", "lost", "message", "partial", "peers"}
    BY DEF EventType, PeersType
  <1>3. CASE Settles(e, p, Now(p))
    <2>1. e.peer = p /\ (p \in online => e.kind = "seen") /\ (p \notin online => e.kind = "lost")
      BY <1>3 DEF Settles, About, Now
    <2>2. CASE p \in online
      <3>1. known'[w] = known[w] \cup {p} /\ away'[w] = away[w] \ {p}
        BY <1>1, <2>1, <2>2 DEF ShownAs
      <3> QED BY <2>2, <3>1 DEF Shows
    <2>3. CASE p \notin online
      <3>1. p \in away'[w] \/ p \notin known'[w]
        BY <1>1, <2>1, <2>3 DEF ShownAs
      <3> QED BY <2>3, <3>1 DEF Shows
    <2> QED BY <2>2, <2>3
  <1>4. CASE ~Unsays(e, p, Now(p)) /\ Shows(w, p)
    <2>1. ~About(e, p) /\ (p \notin online => ~Adds(e, p))
      BY <1>4 DEF Unsays, Now
    <2>2. /\ p \in away'[w] <=> p \in away[w]
          /\ p \in known'[w] <=> p \in known[w] \/ Adds(e, p)
      <3>1. CASE e.kind = "peers"
        BY <1>1, <3>1 DEF ShownAs, Adds
      <3>2. CASE e.kind = "seen"
        BY <1>1, <2>1, <3>2 DEF ShownAs, Adds, About
      <3>3. CASE e.kind = "lost"
        BY <1>1, <2>1, <3>3 DEF ShownAs, Adds, About
      <3>4. CASE e.kind \in {"message", "partial"}
        BY <1>1, <3>4 DEF ShownAs, Adds
      <3> QED BY <1>2, <3>1, <3>2, <3>3, <3>4
    <2>3. CASE p \in online
      BY <1>4, <2>2, <2>3 DEF Shows
    <2>4. CASE p \notin online
      BY <1>4, <2>1, <2>2, <2>4 DEF Shows
    <2> QED BY <2>3, <2>4
  <1> QED BY <1>3, <1>4

LEMMA ToldRead ==
    ASSUME FanoutShaped, NEW w \in Windows, Read(w), NEW p \in Peers, WellTold(w, p)
    PROVE  WellTold(w, p)'
PROOF
  <1> DEFINE q == buffer[w]
             e == Head(q)
  <1>1. /\ q \in Seq(EventType \cup PeersType) /\ q # <<>> /\ buffer'[w] = Tail(q)
        /\ Show(w, e) /\ online' = online /\ asked' = asked
    BY DEF Read, FanoutShaped
  <1>2. e \in EventType \cup PeersType
    BY <1>1, TailFacts
  <1>3. ShownAs(w, e)
    BY <1>1, <1>2, ShowFacts
  <1>4. /\ Told(q, p, Now(p)) =>
              Told(Tail(q), p, Now(p)) \/ (Settles(e, p, Now(p)) /\ Silent(Tail(q), p, Now(p)))
        /\ Silent(q, p, Now(p)) => Silent(Tail(q), p, Now(p)) /\ ~Unsays(e, p, Now(p))
        /\ Added(q, p) => Added(Tail(q), p) \/ Adds(e, p)
    BY <1>1, ToldTaken
  <1>5. Now(p)' = Now(p)
    BY <1>1 DEF Now
  <1> HIDE DEF e
  <1>6. ASSUME Settles(e, p, Now(p)) \/ (~Unsays(e, p, Now(p)) /\ Shows(w, p))
        PROVE  Shows(w, p)'
    BY <1>1, <1>2, <1>3, <1>4, <1>6, ReadShows
  <1> QED BY <1>1, <1>4, <1>5, <1>6 DEF WellTold

LEMMA ToldReplyPeers ==
    ASSUME FanoutShaped, NEW w \in Windows, ReplyPeers(w), NEW p \in Peers, WellTold(w, p)
    PROVE  WellTold(w, p)'
PROOF
  <1>1. PICK e : e = [kind |-> "peers", list |-> online]
    OBVIOUS
  <1>2. /\ e \in EventType \cup PeersType /\ e.kind = "peers" /\ e.list = online
        /\ buffer[w] \in Seq(EventType \cup PeersType) /\ buffer'[w] = Append(buffer[w], e)
        /\ online' = online /\ known' = known /\ away' = away
    BY <1>1 DEF ReplyPeers, shown, FanoutShaped, PeersType
  <1>3. ~Unsays(e, p, Now(p)) /\ (Adds(e, p) <=> p \in online) /\ Now(p)' = Now(p)
    BY <1>2 DEF Unsays, About, Adds, Now
  <1>4. /\ Told(buffer[w], p, Now(p)) => Told(buffer'[w], p, Now(p))
        /\ Silent(buffer[w], p, Now(p)) => Silent(buffer'[w], p, Now(p))
        /\ p \in online => Added(buffer'[w], p)
    BY <1>2, <1>3, ToldAppended
  <1>5. Shows(w, p) => Shows(w, p)'
    BY <1>2, <1>4 DEF Shows
  <1> QED BY <1>3, <1>4, <1>5 DEF WellTold

LEMMA ToldConnect ==
    ASSUME NewsToNew, NEW w \in Windows, Connect(w), NEW p \in Peers
    PROVE  WellTold(w, p)'
PROOF
  <1>1. buffer'[w] = <<>> /\ known'[w] = {} /\ away'[w] = {} /\ w \notin asked'
    BY DEF Connect, NewsToNew, shown
  <1>2. Silent(buffer'[w], p, Now(p)')
    BY <1>1 DEF Silent, NoWord
  <1> QED BY <1>1, <1>2 DEF WellTold, Shows

LEMMA TruthNext ==
    ASSUME FanoutShaped, ListedOnce, NewsToNew, TasksApart, TasksWell, Truthful, [FanoutNext]_fanoutVars
    PROVE  Truthful'
PROOF
  <1> SUFFICES ASSUME NEW p \in Peers, p \notin stray' PROVE Truth(p)'
    BY DEF Truthful
  <1>1. p \notin stray => Truth(p)
    BY DEF Truthful
  <1>2. Now(p)' = (IF p \in online' THEN "seen" ELSE "lost") /\ (online' = online => Now(p)' = Now(p))
    BY DEF Now
  <1>3. ASSUME NEW p0 \in Peers, PeerSeen(p0) \/ PeerLost(p0) \/ PeerWrites(p0) \/ TransferExpires(p0)
        PROVE  Truth(p)'
    <2>1. CASE PeerSeen(p0)
      <3>1. \/ p = p0 /\ "seen" = Now(p)'
            \/ p \notin stray /\ Now(p)' = Now(p) /\ p # p0
        BY <2>1 DEF PeerSeen, Now
      <3> QED BY <1>1, <2>1, <3>1, TruthPublish DEF PeerSeen
    <2>2. CASE PeerLost(p0)
      <3>1. \/ p = p0 /\ "lost" = Now(p)'
            \/ p \notin stray /\ Now(p)' = Now(p) /\ p # p0
        BY <2>2 DEF PeerLost, Now
      <3> QED BY <1>1, <2>2, <3>1, TruthPublish DEF PeerLost
    <2>3. ASSUME NEW kind \in {"message", "partial"}, Mention(kind, p0) PROVE Truth(p)'
      <3>1. p \notin stray /\ Now(p)' = Now(p) /\ (p = p0 => p \in online) /\ Publish(kind, p0)
        BY <2>3 DEF Mention, Now
      <3> QED BY <1>1, <2>3, <3>1, TruthPublish
    <2> QED BY <1>3, <2>1, <2>2, <2>3 DEF PeerWrites, TransferExpires
  <1>4. CASE RunPublish
    <2>1. PICK task, rest, to : \E s \in BOOLEAN : Ran(task, rest, to, s)
      BY <1>4, RunFacts
    <2>2. UNCHANGED <<online, stray, conn, asked, known, away>> /\ behind \subseteq behind'
      BY <1>4 DEF RunPublish, shown, Track
    <2> QED BY <1>1, <2>1, <2>2, TruthRan
  <1>5. ASSUME UNCHANGED <<online, stray, ready>>,
               \A w \in Windows : Current(w)' => WellTold(w, p)' \/ (Current(w) /\ (WellTold(w, p) => WellTold(w, p)'))
        PROVE  Truth(p)'
    BY <1>1, <1>2, <1>5, TruthKept
  <1>6. ASSUME NEW w \in Windows, Wake(w), UNCHANGED <<online, stray>>,
               \A v \in Windows : Current(v)' => WellTold(v, p)' \/ (Current(v) /\ (WellTold(v, p) => WellTold(v, p)'))
        PROVE  Truth(p)'
    <2>1. /\ ready' = ready \o waiting[w] /\ ready \in Seq(TaskType) /\ waiting[w] \in Seq(TaskType)
          /\ \A t \in Elements(waiting[w]) : t.begun
      BY <1>6 DEF Wake, FanoutShaped, TasksWell
    <2>2. /\ ToTell(ready, p, Now(p)) => ToTell(ready', p, Now(p))
          /\ NoneToTell(ready, p, Now(p)) => NoneToTell(ready', p, Now(p))
      BY <2>1, ToTellJoined
    <2> QED BY <1>1, <1>2, <1>6, <2>2, TruthKept
  <1> DEFINE Same(w) == /\ buffer'[w] = buffer[w] /\ known'[w] = known[w] /\ away'[w] = away[w]
                        /\ (w \in asked' <=> w \in asked)
  <1>7. ASSUME NEW w \in Windows, Same(w), online' = online, behind \subseteq behind', Open(w)' => Open(w), Current(w)'
        PROVE  Current(w) /\ (WellTold(w, p) => WellTold(w, p)')
    <2>1. Current(w)
      BY <1>7 DEF Current
    <2>2. WellTold(w, p) => WellTold(w, p)'
      BY <1>2, <1>7, ToldKept
    <2> QED BY <2>1, <2>2
  <1>8. ASSUME NEW w \in Windows, Connect(w) PROVE Truth(p)'
    <2>1. ASSUME NEW v \in Windows, Current(v)'
          PROVE  WellTold(v, p)' \/ (Current(v) /\ (WellTold(v, p) => WellTold(v, p)'))
      <3>1. CASE v = w
        BY <1>8, <3>1, ToldConnect
      <3>2. CASE v # w
        <4>1. Same(v) /\ online' = online /\ behind \subseteq behind' /\ (Open(v)' => Open(v))
          BY <1>8, <3>2 DEF Connect, Track, shown, Open, FanoutShaped
        <4> QED BY <1>7, <2>1, <4>1
      <3> QED BY <3>1, <3>2
    <2> QED BY <1>5, <1>8, <2>1 DEF Connect
  <1>9. ASSUME NEW w \in Windows, ReplyPeers(w) PROVE Truth(p)'
    <2>1. ASSUME NEW v \in Windows, Current(v)'
          PROVE  Current(v) /\ (WellTold(v, p) => WellTold(v, p)')
      <3>1. CASE v = w
        <4>1. Current(w)
          BY <1>9, <2>1, <3>1 DEF ReplyPeers, Track, Current, Open
        <4> QED BY <1>9, <3>1, <4>1, ToldReplyPeers
      <3>2. CASE v # w
        <4>1. Same(v) /\ online' = online /\ behind \subseteq behind' /\ (Open(v)' => Open(v))
          BY <1>9, <3>2 DEF ReplyPeers, Track, shown, Open, FanoutShaped
        <4> QED BY <1>7, <2>1, <4>1
      <3> QED BY <3>1, <3>2
    <2> QED BY <1>5, <1>9, <2>1 DEF ReplyPeers
  <1>10. ASSUME NEW w \in Windows, Close(w) PROVE Truth(p)'
    <2>1. ASSUME NEW v \in Windows, Current(v)'
          PROVE  Current(v) /\ (WellTold(v, p) => WellTold(v, p)')
      <3>1. v # w
        BY <1>10, <2>1 DEF Close, Current, Open, FanoutShaped
      <3>2. Same(v) /\ online' = online /\ behind \subseteq behind' /\ (Open(v)' => Open(v))
        BY <1>10, <3>1 DEF Close, Track, Open, FanoutShaped
      <3> QED BY <1>7, <2>1, <3>2
    <2> QED BY <1>5, <1>10, <2>1 DEF Close
  <1>11. ASSUME NEW w \in Windows, ConnectionLost(w) PROVE Truth(p)'
    <2>1. ASSUME NEW v \in Windows, Current(v)'
          PROVE  Current(v) /\ (WellTold(v, p) => WellTold(v, p)')
      <3>1. Same(v) /\ online' = online /\ behind \subseteq behind' /\ (Open(v)' => Open(v))
        BY <1>11 DEF ConnectionLost, Track, shown, Open
      <3> QED BY <1>7, <2>1, <3>1
    <2> QED BY <1>6, <1>11, <2>1 DEF ConnectionLost
  <1>12. ASSUME NEW w \in Windows, Forget(w) PROVE Truth(p)'
    <2>1. ASSUME NEW v \in Windows, Current(v)'
          PROVE  Current(v) /\ (WellTold(v, p) => WellTold(v, p)')
      <3>1. Same(v) /\ online' = online /\ behind \subseteq behind' /\ (Open(v)' => Open(v))
        BY <1>12 DEF Forget, Track, shown, Open
      <3> QED BY <1>7, <2>1, <3>1
    <2> QED BY <1>5, <1>12, <2>1 DEF Forget
  <1>13. ASSUME NEW w \in Windows, Read(w) PROVE Truth(p)'
    <2> DEFINE e == Head(buffer[w])
    <2>1. ShownAs(w, e)
      <3>1. e \in EventType \cup PeersType /\ Show(w, e)
        BY <1>13, TailFacts DEF Read, FanoutShaped
      <3> QED BY <3>1, ShowFacts
    <2> HIDE DEF e
    <2>2. ASSUME NEW v \in Windows, Current(v)'
          PROVE  Current(v) /\ (WellTold(v, p) => WellTold(v, p)')
      <3>1. CASE v = w
        <4>1. Current(w)
          BY <1>13, <2>2, <3>1 DEF Read, Track, Current, Open
        <4> QED BY <1>13, <3>1, <4>1, ToldRead
      <3>2. CASE v # w
        <4>1. known'[v] = known[v] /\ away'[v] = away[v]
          BY <2>1, <3>2 DEF ShownAs, FanoutShaped
        <4>2. /\ buffer'[v] = buffer[v] /\ asked' = asked
              /\ online' = online /\ behind \subseteq behind' /\ (Open(v)' => Open(v))
          BY <1>13, <3>2 DEF Read, Track, Open, FanoutShaped
        <4> QED BY <1>7, <2>2, <4>1, <4>2
      <3> QED BY <3>1, <3>2
    <2>3. online' = online /\ stray' = stray
      BY <1>13 DEF Read
    <2> QED BY <1>5, <1>6, <1>13, <2>2, <2>3 DEF Read
  <1>14. ASSUME NEW w \in Windows, NEW p0 \in Peers, Type(w, p0) PROVE Truth(p)'
    <2>1. ASSUME NEW v \in Windows, Current(v)'
          PROVE  Current(v) /\ (WellTold(v, p) => WellTold(v, p)')
      <3>1. Same(v) /\ online' = online /\ behind \subseteq behind' /\ (Open(v)' => Open(v))
        BY <1>14 DEF Type, server, Open
      <3> QED BY <1>7, <2>1, <3>1
    <2> QED BY <1>5, <1>14, <2>1 DEF Type, server
  <1>15. CASE UNCHANGED fanoutVars
    <2>1. ASSUME NEW v \in Windows, Current(v)'
          PROVE  Current(v) /\ (WellTold(v, p) => WellTold(v, p)')
      <3>1. Same(v) /\ online' = online /\ behind \subseteq behind' /\ (Open(v)' => Open(v))
        BY <1>15 DEF fanoutVars, server, shown, Open
      <3> QED BY <1>7, <2>1, <3>1
    <2> QED BY <1>5, <1>15, <2>1 DEF fanoutVars, server
  <1> QED
    BY <1>3, <1>4, <1>8, <1>9, <1>10, <1>11, <1>12, <1>13, <1>14, <1>15, FanoutSteps

-----------------------------------------------------------------------------
(* The invariants, and what follows.                                       *)

FanoutInvariant ==
    FanoutShaped /\ ListedOnce /\ NewsToNew /\ TasksApart /\ TasksWell /\ Delivery

LEMMA FanoutInvariantInit == FanoutInit => FanoutInvariant /\ Truthful
PROOF
  <1> SUFFICES ASSUME FanoutInit PROVE FanoutInvariant /\ Truthful
    OBVIOUS
  <1> USE DEF FanoutInit
  <1>1. FanoutShaped
    <2>1. <<>> \in Seq(Windows) /\ <<>> \in Seq(EventType \cup PeersType) /\ <<>> \in Seq(TaskType) /\ <<>> \in Seq(Nat)
      OBVIOUS
    <2> QED BY <2>1 DEF FanoutShaped
  <1>2. ListedOnce
    BY DEF ListedOnce, Elements, Open
  <1>3. NewsToNew
    BY DEF NewsToNew
  <1>4. Elements(ready) = {} /\ Numbers(ready) = {} /\ \A w \in Windows : Elements(waiting[w]) = {} /\ Numbers(waiting[w]) = {}
    BY DEF Elements, Numbers
  <1>5. TasksApart
    BY <1>4 DEF TasksApart, Apart
  <1>6. TasksWell
    BY <1>4 DEF TasksWell, Tasks, Queued
  <1>7. \A w \in Windows : ~Open(w)
    BY DEF Open
  <1>8. Delivery
    BY <1>7 DEF Delivery, WellServed
  <1>9. \A p : NoneToTell(ready, p, Now(p))
    BY DEF NoneToTell, NoWord, Unsaid
  <1>10. Truthful
    BY <1>7, <1>9 DEF Truthful, Truth, Current
  <1> QED BY <1>1, <1>2, <1>3, <1>5, <1>6, <1>8, <1>10 DEF FanoutInvariant

LEMMA FanoutInvariantNext == FanoutInvariant /\ [FanoutNext]_fanoutVars => FanoutInvariant'
  BY ShapedFanoutNext, ListedNext, NewsNext, TasksNext, DeliveryNext DEF FanoutInvariant

LEMMA FanoutInvariantAlways == FanoutSpec => []FanoutInvariant
  BY FanoutInvariantInit, FanoutInvariantNext, PTL DEF FanoutSpec

LEMMA NothingUnderWay ==
    ASSUME AtRest
    PROVE  ready = <<>> /\ Tasks = {}
  BY DEF AtRest, Tasks, Elements

(* Every client that is connected and has read all that was written to it  *)
(* was sent, by publish, each event it was connected for, once and no      *)
(* other, when no task is under way any more; and it was sent them in the  *)
(* order of the events at all times, unless it was ever listed behind a    *)
(* client that held a task up.  For any number of clients, any marks of    *)
(* the writers and any number of events.                                   *)
THEOREM EventsDeliveredAlways == FanoutSpec => []EventsDelivered
PROOF
  <1>1. FanoutInvariant => EventsDelivered
    <2> SUFFICES ASSUME FanoutInvariant, NEW w \in Windows, Open(w), buffer[w] = <<>>
                 PROVE  /\ AtRest => ToSet(got[w]) = due[w]
                        /\ IsInjective(got[w])
                        /\ w \in behind \/ InOrder(got[w])
      BY DEF EventsDelivered
    <2>1. DueOnce(w) /\ (w \notin behind => Earlier(w))
      BY DEF FanoutInvariant, Delivery, WellServed
    <2>2. ASSUME AtRest PROVE ToSet(got[w]) = due[w]
      <3>1. InBuffer(w) = {} /\ ToWrite(w) = {}
        BY <2>2, NothingUnderWay DEF InBuffer, EventsOf, ToWrite, WithTask
      <3>2. ToSet(got[w]) = Got(w)
        BY DEF ToSet, Got, Elements
      <3> QED BY <2>1, <3>1, <3>2 DEF DueOnce
    <2> QED BY <2>1, <2>2 DEF DueOnce, Earlier
  <1> QED BY <1>1, FanoutInvariantAlways, PTL

(* Whenever no event is under way and a window has read all it was sent,   *)
(* if it has asked and was never listed behind a client that held a task   *)
(* up, it shows all the daemon's peers as online, and besides them only    *)
(* phones that a text, a file or a transfer was published of since they    *)
(* were lost, or that never announced themselves.                          *)
THEOREM WindowTruthfulAlways == FanoutSpec => []WindowTruthful
PROOF
  <1>1. FanoutInit => Truthful
    BY FanoutInvariantInit
  <1>2. FanoutInvariant /\ Truthful /\ [FanoutNext]_fanoutVars => Truthful'
    BY TruthNext DEF FanoutInvariant
  <1>3. FanoutInvariant /\ Truthful => WindowTruthful
    <2> SUFFICES ASSUME FanoutInvariant, Truthful, NEW w \in asked, w \notin behind, AtRest, Open(w), buffer[w] = <<>>
                 PROVE  online \subseteq known[w] \ away[w] /\ known[w] \ away[w] \subseteq online \cup stray
      BY DEF WindowTruthful
    <2>1. /\ w \in Windows /\ known[w] \subseteq Peers /\ Current(w)
          /\ online \subseteq Peers /\ stray \cap online = {}
      BY DEF FanoutInvariant, FanoutShaped, Current
    <2>2. ASSUME NEW p \in Peers, p \notin stray PROVE p \in known[w] \ away[w] <=> p \in online
      <3>1. ready = <<>>
        BY NothingUnderWay
      <3>2. ~ToTell(ready, p, Now(p))
        BY <3>1 DEF ToTell, LastWord, Unsaid
      <3>3. WellTold(w, p)
        BY <2>1, <2>2, <3>2 DEF Truthful, Truth
      <3>4. ~Told(buffer[w], p, Now(p)) /\ ~Added(buffer[w], p)
        BY DEF Told, LastWord, Added
      <3> QED BY <3>3, <3>4 DEF WellTold, Shows
    <2> QED BY <2>1, <2>2
  <1> QED BY <1>1, <1>2, <1>3, FanoutInvariantAlways, PTL DEF FanoutSpec

=============================================================================
