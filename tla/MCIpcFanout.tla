----------------------------- MODULE MCIpcFanout -----------------------------
(* Values for model checking IpcFanout.                                    *)
EXTENDS IpcFanout

CONSTANTS a, b, c, p
=============================================================================
