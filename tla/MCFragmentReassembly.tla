------------------------ MODULE MCFragmentReassembly ------------------------
(* Constants for model checking FragmentReassembly.                        *)
EXTENDS FragmentReassembly, TLC

CONSTANTS f1, f2, m1, m2, m3

(* One image of four chunks, transmitted under two set ids, and a file of  *)
(* more chunks than the manager takes.                                     *)
RetryKeyOf == (m1 :> [sender |-> "alice", total |-> 4, type |-> "noise"]) @@
              (m3 :> [sender |-> "alice", total |-> 5, type |-> "file"])
RetryTransmissions == [id : {f1, f2}, msg : {m1, m3}]

(* Two senders, one of which transmits twice; the ids collide once, which  *)
(* is what opens the mismatch branch.                                      *)
PairKeyOf == (m1 :> [sender |-> "alice", total |-> 2, type |-> "file"]) @@
             (m2 :> [sender |-> "bob", total |-> 2, type |-> "noise"])
PairTransmissions == {[id |-> f1, msg |-> m1], [id |-> f2, msg |-> m1],
                      [id |-> f2, msg |-> m2]}

(* Two images of one sender that happen to have the same number of chunks. *)
SameShapeKeyOf == [m \in {m1, m2} |-> [sender |-> "alice", total |-> 4, type |-> "noise"]]
SameShapeTransmissions == {[id |-> f1, msg |-> m1], [id |-> f2, msg |-> m2]}

IdSymmetry == Permutations({f1, f2})

=============================================================================
