--------------------------- MODULE MCNetworkService ---------------------------
(* Small instances of NetworkService.                                      *)
EXTENDS NetworkService, TLC
===============================================================================
