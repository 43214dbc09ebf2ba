-------------------------- MODULE MCServerCredentials --------------------------
(* A small instance: the compiled pair, a renewed certificate for its key, *)
(* a second pair and a certificate that does not parse.                    *)
EXTENDS ServerCredentials, TLC

CONSTANTS c1, c1renewed, c2, badCertificate, k1, k2

MCValues == [certificate : Certificates, key : PrivateKeys]
MCDefault == [certificate |-> c1, key |-> k1]
MCKeep == [v \in Values |-> v]
MCKeyOf == (c1 :> k1) @@ (c1renewed :> k1) @@ (c2 :> k2) @@ (badCertificate :> k1)
===============================================================================
