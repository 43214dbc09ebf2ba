--------------------------- MODULE MCEthernetRings ----------------------------
(* Small instances of EthernetRings.                                       *)
EXTENDS EthernetRings, TLC
===============================================================================
