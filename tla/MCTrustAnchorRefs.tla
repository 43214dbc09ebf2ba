--------------------------- MODULE MCTrustAnchorRefs ---------------------------
(* A small instance of TrustAnchorRefs.                                    *)
EXTENDS TrustAnchorRefs
===============================================================================
