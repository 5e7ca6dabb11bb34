------------------------- MODULE MCRecorderLifecycle -------------------------
(* Instances of RecorderLifecycle: one raw key, one feature key, the metadata  *)
(* key, a handful of market events and a bound on each fault.                  *)
EXTENDS RecorderLifecycle

CONSTANTS depth, feature, selection

NoFault == [f \in Fault |-> 0]
CrashAndRegister == [NoFault EXCEPT !["crash"] = 1, !["register"] = 1, !["write"] = 1,
                                    !["stop"] = 1]
Restarts == [NoFault EXCEPT !["crash"] = 1, !["reboot"] = 1, !["stop"] = 1,
                            !["heartbeat"] = 1, !["startcrash"] = 1]
=============================================================================
