---------------------------- MODULE MCFactoryReset ----------------------------
(* Small instances of FactoryReset.                                        *)
EXTENDS FactoryReset, TLC
===============================================================================
