--------------------------- MODULE ServerCredentials ---------------------------
(***************************************************************************)
(* The management server's certificate and private key                     *)
(* (tls_server_credentials.c), over the A/B snapshot store.  The two       *)
(* halves arrive in separate requests; a half waits in a RAM staging       *)
(* buffer until it makes a pair with the other staged half, or with the    *)
(* other half of the stored pair.  The pair is then saved by the steps of  *)
(* SnapshotStore, and both buffers are cleared however the save ends.      *)
(*                                                                         *)
(* The requests come from the API task, which holds the TLS lock for the   *)
(* whole connection, so no second request meets a save in progress.        *)
(***************************************************************************)
EXTENDS SnapshotProperties

CONSTANTS
  Certificates,    \* DER certificates, undecodable ones included
  PrivateKeys,     \* DER private keys, undecodable ones included
  Decodable,       \* the certificates and keys that Mbed TLS can parse
  KeyOf,           \* [Certificates -> PrivateKeys]: the key a certificate
                   \* was issued for
  Nothing          \* an empty staging buffer

Parses(pair) == {pair.certificate, pair.key} \subseteq Decodable

Paired(pair) == Parses(pair) /\ KeyOf[pair.certificate] = pair.key

(* The default is the pair compiled into the firmware.  One layout is      *)
(* accepted: tls_server_credentials.c migrates no other.                   *)
ASSUME CredentialsAssumption ==
  /\ Values = [certificate : Certificates, key : PrivateKeys]
  /\ Decodable \subseteq Certificates \cup PrivateKeys
  /\ KeyOf \in [Certificates -> PrivateKeys]
  /\ Nothing \notin Certificates \cup PrivateKeys
  /\ ~WritesDefault
  /\ Paired(Default)
  /\ Version = 1

VARIABLES
  pendingCertificate, pendingKey,   \* the staging buffers
  response,                         \* HTTP status of the last request, 0: none yet
  upload                            \* history: the half it carried

staging == <<pendingCertificate, pendingKey>>

credentialVars == <<vars, staging, response, upload>>

(* Generations start at 1, so that an empty store is told by its 0.        *)
hasValidSnapshot == snapshot.generation > 0

(* What is in flash at first was put there by this code.                   *)
CredentialsInit ==
  /\ Init
  /\ \A b \in Banks : bank[b] \in Image => Paired(bank[b].value)
  /\ pendingCertificate = Nothing
  /\ pendingKey = Nothing
  /\ response = 0
  /\ upload = Nothing

-------------------------------------------------------------------------------
(* The answer to an upload, from the status of its staging.                *)
Respond(status) ==
  CASE status = "activated" -> 200
    [] status = "pending" -> 202
    [] status = "mismatch" -> 409
    [] status = "invalid_data" -> 400
    [] OTHER -> 500

KeepStaging == UNCHANGED staging    \* seeded fault: buffers not cleared

ClearStaging ==
  /\ pendingCertificate' = Nothing
  /\ pendingKey' = Nothing

PairStoredFirst(certificate, key) ==   \* seeded fault: the stored half wins
  IF hasValidSnapshot THEN snapshot.value
  ELSE [certificate |-> certificate, key |-> key]

(* The staged half, if there is one, else the stored one.                  *)
PairToTry(certificate, key) ==
  [certificate |-> IF certificate # Nothing THEN certificate
                   ELSE snapshot.value.certificate,
   key |-> IF key # Nothing THEN key ELSE snapshot.value.key]

TryActivateUnpaired(certificate, key) ==   \* seeded fault: no pair check
  LET pair == PairToTry(certificate, key)
      complete == hasValidSnapshot \/ Nothing \notin {certificate, key}
      stage == pendingCertificate' = certificate /\ pendingKey' = key
  IN \/ ~complete /\ stage /\ response' = Respond("pending") /\ UNCHANGED vars
     \/ complete /\ Parses(pair) /\ SaveBegin(pair) /\ stage /\ response' = 0

(* Parsing may fail for want of memory or of random numbers whatever the   *)
(* data is; then both buffers are cleared.                                 *)
TryActivate(certificate, key) ==
  LET pair == PairToTry(certificate, key)
      bothStaged == Nothing \notin {certificate, key}
      complete == hasValidSnapshot \/ bothStaged
      stage == pendingCertificate' = certificate /\ pendingKey' = key
  IN \/ /\ ~complete \/ (Parses(pair) /\ ~Paired(pair) /\ ~bothStaged)
        /\ stage
        /\ response' = Respond("pending")
        /\ UNCHANGED vars
     \/ /\ complete
        /\ ClearStaging
        /\ response' = Respond("invalid_data")
        /\ UNCHANGED vars
     \/ /\ bothStaged /\ Parses(pair) /\ ~Paired(pair)
        /\ ClearStaging
        /\ response' = Respond("mismatch")
        /\ UNCHANGED vars
     \/ /\ complete /\ Paired(pair)
        /\ SaveBegin(pair)
        /\ stage
        /\ response' = 0

StageCertificate(der) ==
  /\ pc = "idle"
  /\ TryActivate(der, pendingKey)
  /\ upload' = der

StagePrivateKey(der) ==
  /\ pc = "idle"
  /\ TryActivate(pendingCertificate, der)
  /\ upload' = der

(* The two requests, made by an administrator.                             *)
CertificateRequest == \E der \in Certificates : StageCertificate(der)

PrivateKeyRequest == \E der \in PrivateKeys : StagePrivateKey(der)

(* The save, and what TryActivate does when it returns.                    *)
SaveStep ==
  /\ SaveErase \/ SaveProgram \/ SaveVerify
  /\ IF pc' # "idle" THEN UNCHANGED <<staging, response>>
     ELSE /\ ClearStaging
          /\ response' = Respond(IF snapshot' = candidate THEN "activated"
                                 ELSE "storage_error")
  /\ UNCHANGED upload

Surroundings ==
  /\ Boot \/ ChipLeftBusy \/ ChipReady
  /\ UNCHANGED <<staging, response, upload>>

(* RAM is lost: the staging buffers are empty after every start.           *)
Reset ==
  /\ PowerLoss
  /\ ClearStaging
  /\ response' = 0
  /\ upload' = Nothing

CredentialsNext ==
  \/ CertificateRequest
  \/ PrivateKeyRequest
  \/ SaveStep
  \/ Surroundings
  \/ Reset

CredentialsSpec == CredentialsInit /\ [][CredentialsNext]_credentialVars

-------------------------------------------------------------------------------
(* The certificate and the key the server presents belong together, and so *)
(* do those any bank would load after a restart, whatever halves were      *)
(* uploaded in whatever order and wherever a save was cut off (README.md:  *)
(* "The pair is parsed, matched, and committed transactionally").          *)
PairsMatch ==
  /\ Paired(snapshot.value)
  /\ \A b \in Banks : bank[b] \in Image => Paired(bank[b].value)

(* A half is left waiting only as long as there is nothing stored that it  *)
(* pairs with, and two halves never wait together: every sequence of       *)
(* uploads that ends in a pair is settled by its last one                  *)
(* (tlsServerCredentials_TryActivate).                                     *)
NothingLeftBehind ==
  pc = "idle" =>
    /\ Nothing \in {pendingCertificate, pendingKey}
    /\ hasValidSnapshot /\ staging # <<Nothing, Nothing>> =>
         ~Paired(PairToTry(pendingCertificate, pendingKey))

(* A request answered with 200 put its own half into service, in RAM and   *)
(* in flash (apiService_TlsCredentialsRespond).                            *)
ActivatedServesUpload ==
  response = 200 =>
    /\ upload \in {snapshot.value.certificate, snapshot.value.key}
    /\ bank[activeAddress] = snapshot
===============================================================================
