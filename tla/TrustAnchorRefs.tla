---------------------------- MODULE TrustAnchorRefs ----------------------------
(***************************************************************************)
(* References between three stores.  A resource to check names the trust   *)
(* anchor its server is verified with, and so does the callback target;    *)
(* the anchors, the resources and the callback configuration are saved     *)
(* separately (tls_trust_store.c, health_check_config.c,                   *)
(* callback_config.c), and only the handlers of the management API keep    *)
(* them consistent (api_service.c).                                        *)
(*                                                                         *)
(* A store is what DurableRegister says it is: the value it serves, and    *)
(* possibly a newer image in flash whose save was reported as failed (its  *)
(* limbo), which the next start adopts.  One task serves one request at a  *)
(* time, and no other task changes a store, so a request is one action; a  *)
(* request that a handler refuses changes nothing and is no action.        *)
(***************************************************************************)
EXTENDS Naturals, FiniteSets

CONSTANTS
  MaxAnchors,      \* TLS_TRUST_STORE_MAX_PERSISTED
  MaxResources,    \* HEALTH_CHECK_CONFIG_MAX_RESOURCES
  Free,            \* a resource slot that is not occupied
  NoImage          \* no newer image in flash

ASSUME RefsAssumption ==
  /\ MaxAnchors \in Nat \ {0}
  /\ MaxResources \in Nat \ {0}
  /\ Free \notin 1..MaxAnchors

Ids == 1..MaxAnchors
Slots == 0..(MaxResources - 1)

Tables ==
  [anchors |-> SUBSET Ids,                  \* the occupied identifiers
   resources |-> [Slots -> Ids \cup {Free}],  \* the anchor of each resource
   callback |-> [enabled : BOOLEAN, trustAnchorId : Ids]]

Stores == DOMAIN Tables

VARIABLES
  store,           \* of each store its value and its limbo
  adopted          \* history: a start adopted a change reported as failed

refVars == <<store, adopted>>

anchors == store["anchors"].value
resources == store["resources"].value
callback == store["callback"].value

RefsTypeOK ==
  /\ store = [s \in Stores |-> [value |-> store[s].value, limbo |-> store[s].limbo]]
  /\ \A s \in Stores : /\ store[s].value \in Tables[s]
                       /\ store[s].limbo \in Tables[s] \cup {NoImage}
  /\ adopted \in BOOLEAN

(* A device without settings: the defaults of the three stores.            *)
RefsInit ==
  /\ store =
       [anchors |-> [value |-> {}, limbo |-> NoImage],
        resources |-> [value |-> [i \in Slots |-> Free], limbo |-> NoImage],
        callback |-> [value |-> [enabled |-> FALSE, trustAnchorId |-> 1],
                      limbo |-> NoImage]]
  /\ adopted = FALSE

-------------------------------------------------------------------------------
(* A start: each store loads its newest image.                             *)
Loaded(s) ==
  [value |-> IF s.limbo = NoImage THEN s.value ELSE s.limbo, limbo |-> NoImage]

Restart ==
  /\ store' = [s \in Stores |-> Loaded(store[s])]
  /\ adopted' = (adopted \/ \E s \in Stores : store[s].limbo # NoImage)

WithLimbo(s, image) == [value |-> s.value, limbo |-> image]

(* A save is acknowledged; or fails, with the image it wrote, the one that *)
(* was there before, or none left in flash; or is cut off by a restart,    *)
(* which finds the new image, the one before it, or none.                  *)
Save(s, table) ==
  \/ /\ store' = [store EXCEPT ![s] = [value |-> table, limbo |-> NoImage]]
     /\ UNCHANGED adopted
  \/ /\ \E image \in {table, store[s].limbo, NoImage} :
          store' = [store EXCEPT ![s] = WithLimbo(store[s], image)]
     /\ UNCHANGED adopted
  \/ \E image \in {table, store[s].limbo, NoImage} :
       /\ store' = [t \in Stores |->
            Loaded(IF t = s THEN WithLimbo(store[t], image) ELSE store[t])]
       /\ adopted' = (adopted \/ (image # table /\ image # NoImage)
                              \/ \E t \in Stores \ {s} : store[t].limbo # NoImage)

Exists(id) == id \in anchors

(* HealthCheckConfig_IsTrustAnchorInUse: any occupied resource, enabled or *)
(* not.  CallbackConfig_IsTrustAnchorInUse: only while callbacks are on.   *)
InUse(id) ==
  \/ \E i \in Slots : resources[i] = id
  \/ callback.enabled /\ callback.trustAnchorId = id

-------------------------------------------------------------------------------
(* The anchors. *)

(* The lowest free identifier, if there is one.                            *)
AddAnchor ==
  \E id \in Ids \ anchors :
    /\ \A other \in Ids \ anchors : id <= other
    /\ Save("anchors", anchors \cup {id})

(* The certificate changes, the set of identifiers does not.               *)
ReplaceAnchor(id) ==
  /\ Exists(id)
  /\ Save("anchors", anchors)

DeleteAnchorUnchecked(id) ==        \* seeded fault: callback not asked
  /\ \A i \in Slots : resources[i] # id
  /\ Exists(id)
  /\ Save("anchors", anchors \ {id})

DeleteAnchor(id) ==
  /\ ~InUse(id)
  /\ Exists(id)
  /\ Save("anchors", anchors \ {id})

ResetAnchors ==
  /\ \A id \in Ids : ~InUse(id)
  /\ Save("anchors", {})

-------------------------------------------------------------------------------
(* The two configurations. *)

(* A target that is off may name any identifier.                           *)
SetCallback(enabled, id) ==
  /\ enabled => Exists(id)
  /\ Save("callback", [enabled |-> enabled, trustAnchorId |-> id])

SetPeriod == Save("resources", resources)

AddResource(id) ==
  LET free == {i \in Slots : resources[i] = Free}
  IN /\ Exists(id)
     /\ \E i \in free : /\ \A j \in free : i <= j
                       /\ Save("resources", [resources EXCEPT ![i] = id])

UpdateResource(i, id) ==
  /\ resources[i] # Free
  /\ Exists(id)
  /\ Save("resources", [resources EXCEPT ![i] = id])

DeleteResource(i) ==
  /\ resources[i] # Free
  /\ Save("resources", [resources EXCEPT ![i] = Free])

RefsNext ==
  \/ AddAnchor
  \/ ResetAnchors
  \/ SetPeriod
  \/ \E id \in Ids :
       \/ ReplaceAnchor(id)
       \/ DeleteAnchor(id)
       \/ AddResource(id)
       \/ \E enabled \in BOOLEAN : SetCallback(enabled, id)
       \/ \E i \in Slots : UpdateResource(i, id)
  \/ \E i \in Slots : DeleteResource(i)
  \/ Restart

RefsSpec == RefsInit /\ [][RefsNext]_refVars

-------------------------------------------------------------------------------
(* Every resource, and the callback target while callbacks are on, names   *)
(* an anchor that exists (README.md: "The selected trust anchor cannot be  *)
(* deleted or reset while callback delivery is enabled").                  *)
NoDanglingReference ==
  /\ \A i \in Slots : resources[i] # Free => Exists(resources[i])
  /\ callback.enabled => Exists(callback.trustAnchorId)

(* The handlers keep every reference valid through failed saves and power  *)
(* cuts anywhere, until a start adopts a change that had been reported as  *)
(* failed.                                                                 *)
SoundUntilAdoption == ~adopted => NoDanglingReference
===============================================================================
