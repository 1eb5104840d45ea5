--------------------------- MODULE FragmentClaims ---------------------------
(***************************************************************************)
(* What the documentation says of fragment reassembly and the code does    *)
(* not do.  The README gives the constants each was refuted with.  A       *)
(* history variable tells which set ids have been reassembled.             *)
(***************************************************************************)
EXTENDS FragmentReassembly

VARIABLE completed  \* the ids of the sets that were reassembled

hvars == <<vars, completed>>

CompletedNow == {f \in FragIds : \E t \in Transmissions : \E i \in Indices(KeyOf[t.msg]) :
                                     t.id = f /\ Complete(f, t.msg, i)}

HInit == Init /\ completed = {}

HNext == Next /\ completed' = completed \cup CompletedNow

HSpec == HInit /\ [][HNext]_hvars

(* CHANGELOG: "When a fragment set expires without completing, the daemon  *)
(* sends a DM to the sender": the callback that sends it runs for every    *)
(* set that expires.                                                       *)
EveryExpiryNotified ==
    [][Cleanup => \A f \in Expired : \E e \in events' : e.type = "expired" /\ e.id = f]_vars

(* IPC_API: "The daemon caches the received fragments [...]; if the sender *)
(* retransmits, the new attempt inherits the cached pieces": what a notice *)
(* reports as held is there for the next attempt.                          *)
ReportedHeldIsCached ==
    [][\A e \in events' : e.type = "expired" =>
          LET k == sets[e.id].key IN
          Indices(k) \ e.missing \subseteq DOMAIN RescueFrags(rescue', k)]_vars

(* CHANGELOG: the "attempt counter persists across completions so late-    *)
(* arriving stale fragments never reset the counter and generate spurious  *)
(* notifications": no set id that was reassembled is reported as expired.  *)
NoSpuriousNotice == \A e \in events : e.type = "expired" => e.id \notin completed

(* IPC_API: fragment_completed is emitted when a transfer "that required   *)
(* at least two attempts finally reassembles": some earlier set of the     *)
(* message did not complete.                                               *)
CompletedMeansRetried ==
    [][\A e \in events' : e.type = "completed" =>
          \E t, u \in Transmissions :
              t.id = e.id /\ u.msg = t.msg /\ u.id # t.id /\ u.id \notin completed]_hvars

=============================================================================
