----------------------------- MODULE TlsTransport -----------------------------
(***************************************************************************)
(* The client side of an HTTPS exchange, TLS/Src/tls_transport.c: what     *)
(* TlsTransport_Request may return.  The caller sees a status and the HTTP *)
(* status code; every path from the lock on ends in the clean-up, which    *)
(* closes the socket and gives the TLS lock back.                          *)
(*                                                                         *)
(* The set of HTTP codes is reduced to one per class the callers tell      *)
(* apart: 200, another success, and a failure.                             *)
(***************************************************************************)
EXTENDS Naturals

HttpCodes == {200, 204, 503}

Answer(status, httpStatus) == [status |-> status, httpStatus |-> httpStatus]

(* tlsTransport_Connect: the name is resolved, then the addresses are      *)
(* tried in turn.  "connect" stays in the result once there is a socket,   *)
(* until a later stage sets it.                                            *)
ConnectFailures == {"dnsError", "connectError"}

(* tlsTransport_ReadStatus: a code, or an error.  mbedtls_ssl_read returns *)
(* 0 at the end of the stream, which the loop hands on and the caller      *)
(* takes for success: the status is then "ok" without an HTTP code.        *)
ReadStatus ==
  {Answer("ok", code) : code \in HttpCodes}
  \cup {Answer("ok", 0), Answer("protocolError", 0)}

(* The stages in order, each with what a failure in it leaves in the       *)
(* result: seeding the random generator and setting up the TLS context     *)
(* ("configError"), the trust anchor, the connection, the handshake, the   *)
(* verification result, the two request buffers (which leave the status of *)
(* the connection), the write and the status line.                         *)
TlsTransport_Request ==
  {Answer(status, 0) :
     status \in {"configError", "certificateError"} \cup ConnectFailures
               \cup {"handshakeError", "ioError"}}
  \cup ReadStatus
===============================================================================
