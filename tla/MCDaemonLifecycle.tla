-------------------------- MODULE MCDaemonLifecycle --------------------------
(* Two daemons of one home.                                                *)
EXTENDS DaemonLifecycle

CONSTANTS a, b, home

OneHome == [i \in {a, b} |-> home]

(* No file, or one from before the Noise key was kept.                     *)
OldFile == [sign |-> 1, noise |-> 0]
NoneOrOld == {None, OldFile}
=============================================================================
