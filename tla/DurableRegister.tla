---------------------------- MODULE DurableRegister ----------------------------
(***************************************************************************)
(* What a settings store promises its clients, with no word of flash.      *)
(*                                                                         *)
(* The register holds one value.  A request to change it is acknowledged,  *)
(* and then survives every restart, or refused, and then leaves the        *)
(* running value alone.  A request that was refused or cut off by a        *)
(* restart may still have reached the medium: its value is in "limbo", and *)
(* the next start may adopt it instead of the acknowledged one.  Nothing   *)
(* else can ever be adopted.                                               *)
(***************************************************************************)
CONSTANTS Values, Default, NoRequest

VARIABLES value, request, limbo, up

rvars == <<value, request, limbo, up>>

RegisterInit ==
  /\ value \in Values
  /\ request = NoRequest
  /\ limbo = {}
  /\ up = FALSE

Request(v) ==
  /\ up /\ request = NoRequest
  /\ request' = v
  /\ UNCHANGED <<value, limbo, up>>

(* The medium changes under a request in progress.                         *)
Settle ==
  /\ request # NoRequest
  /\ limbo' \in SUBSET (limbo \cup {request})
  /\ UNCHANGED <<value, request, up>>

Acknowledge ==
  /\ request # NoRequest
  /\ value' = request
  /\ request' = NoRequest
  /\ limbo' = {}
  /\ UNCHANGED up

Refuse ==
  /\ request # NoRequest
  /\ request' = NoRequest
  /\ limbo' \in SUBSET (limbo \cup {request})
  /\ UNCHANGED <<value, up>>

Stop ==
  /\ up' = FALSE
  /\ request' = NoRequest
  /\ limbo' \in SUBSET (limbo \cup ({request} \ {NoRequest}))
  /\ UNCHANGED value

Start ==
  /\ ~up
  /\ up' = TRUE
  /\ value' \in {value} \cup limbo
  /\ limbo' = {}
  /\ UNCHANGED request

RegisterNext ==
  \/ \E v \in Values : Request(v)
  \/ Settle
  \/ Acknowledge
  \/ Refuse
  \/ Stop
  \/ Start

RegisterSpec == RegisterInit /\ [][RegisterNext]_rvars
===============================================================================
