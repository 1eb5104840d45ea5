----------------------------- MODULE MCIpcChat -----------------------------
(* Messages for model checking IpcChat.                                    *)
EXTENDS IpcChat

CONSTANTS alice, bob, all, m1, m2, m3, b1, x1

(* Two texts and a file to two peers, a broadcast, an automatic reply.     *)
TwoPeers == [m \in Messages |-> CASE m = b1 -> all [] m = m3 -> bob [] OTHER -> alice]
=============================================================================
