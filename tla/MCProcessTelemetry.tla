------------------------- MODULE MCProcessTelemetry -------------------------
(* ProcessTelemetry on a handful of pids.                                  *)
EXTENDS ProcessTelemetry

MCActors == [pid : Pids, tgid : Pids]
MCSnapshots == {[check |-> 0, start |-> 0, exe |-> NoExe]}
=============================================================================
