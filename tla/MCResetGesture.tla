---------------------------- MODULE MCResetGesture ----------------------------
(* Small instances of ResetGesture.                                        *)
EXTENDS ResetGesture
===============================================================================
