----------------------------- MODULE MCTrustStore -----------------------------
(* Small instances of TrustStore.                                          *)
EXTENDS TrustStore, TLC
===============================================================================
