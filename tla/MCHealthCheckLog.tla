--------------------------- MODULE MCHealthCheckLog ---------------------------
(* Small instances of HealthCheckLog.                                      *)
EXTENDS HealthCheckLog
===============================================================================
