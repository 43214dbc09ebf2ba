------------------------------ MODULE DhcpClient ------------------------------
(***************************************************************************)
(* lwIP's DHCP client with its address conflict detection, as this         *)
(* firmware configures them (lwip/core/ipv4/dhcp.c and acd.c;              *)
(* LWIP_DHCP_DOES_ACD_CHECK follows LWIP_DHCP).  Both run on the tcpip     *)
(* thread only, so each function is an operator from the interface's state *)
(* before the call to its state after it.                                  *)
(*                                                                         *)
(* Durations are left out: a timer runs or does not.  Messages carry their *)
(* type only.  The transaction id is left out, so that a late or repeated  *)
(* answer to an earlier transaction is accepted where the code may have    *)
(* discarded it.                                                           *)
(***************************************************************************)
EXTENDS Integers

CONSTANTS
  MaxSelectTries,  \* DHCPREQUESTs for one offer before starting over (5)
  RebootTries,     \* REBOOT_TRIES (2)
  MaxConflicts     \* MAX_CONFLICTS before the address search is slowed (10)

ASSUME DhcpAssumption ==
  /\ MaxSelectTries \in Nat
  /\ RebootTries \in Nat
  /\ MaxConflicts \in Nat \ {0}

DhcpStates == {"OFF", "INIT", "SELECTING", "REQUESTING", "CHECKING", "BOUND",
               "RENEWING", "REBINDING", "REBOOTING", "BACKING_OFF"}

(* "PROBING" stands for ACD_STATE_PROBE_WAIT, PROBING and ANNOUNCE_WAIT,   *)
(* which treat a conflict alike.  A module removed from the interface's    *)
(* list is "OFF": nothing calls it.                                        *)
AcdStates == {"OFF", "PROBING", "ANNOUNCING", "ONGOING", "RATE_LIMIT"}

(* What the firmware can see of the interface's address and DNS server:    *)
(* "any" is 0.0.0.0, "lease" what the DHCP server gave.                    *)
Addresses == {"any", "lease", "fallback"}

Tries == 0..(IF MaxSelectTries < RebootTries THEN RebootTries
                                              ELSE MaxSelectTries + 1)

Interfaces ==
  [linkUp: BOOLEAN,             \* NETIF_FLAG_LINK_UP
   address: Addresses,          \* netif->ip_addr
   dns: Addresses,              \* DNS server 0
   state: DhcpStates,
   tries: Tries,                \* counted as far as a comparison needs
   timer: BOOLEAN,              \* request_timeout is running
   lease: BOOLEAN,              \* t0, t1 and t2 of the last binding run
   acd: AcdStates,
   conflicts: 0..MaxConflicts,  \* num_conflicts
   defending: BOOLEAN]          \* lastconflict is running

(* The zeroed client of an interface without an address.                   *)
NoClient(linkUp) ==
  [linkUp |-> linkUp, address |-> "any", dns |-> "any", state |-> "OFF",
   tries |-> 0, timer |-> FALSE, lease |-> FALSE, acd |-> "OFF",
   conflicts |-> 0, defending |-> FALSE]

dhcp_supplied_address(n) == n.state \in {"BOUND", "RENEWING", "REBINDING"}

(* A change of state restarts the count of tries and stops the timer.      *)
dhcp_set_state(n, s) ==
  IF n.state = s THEN n
                 ELSE [n EXCEPT !.state = s, !.tries = 0, !.timer = FALSE]

(* One more try of what the current state sends, and its timer.            *)
Send(n) ==
  [n EXCEPT !.tries = IF @ + 1 \in Tries THEN @ + 1 ELSE @, !.timer = TRUE]

dhcp_discover(n) == Send(dhcp_set_state(n, "SELECTING"))
dhcp_select(n)   == Send(dhcp_set_state(n, "REQUESTING"))
dhcp_renew(n)    == Send(dhcp_set_state(n, "RENEWING"))
dhcp_rebind(n)   == Send(dhcp_set_state(n, "REBINDING"))
dhcp_reboot(n)   == Send(dhcp_set_state(n, "REBOOTING"))

(* Seeded fault: the leased address stays in use.                          *)
ReleaseKeepsAddress(n) ==
  IF n.state = "OFF"
  THEN n
  ELSE [dhcp_set_state(n, "OFF") EXCEPT !.lease = FALSE, !.acd = "OFF"]

(* The address goes only if it was the client's.                           *)
dhcp_release_and_stop(n) ==
  IF n.state = "OFF"
  THEN n
  ELSE [dhcp_set_state(n, "OFF") EXCEPT
          !.lease = FALSE, !.acd = "OFF",
          !.address = IF dhcp_supplied_address(n) THEN "any" ELSE @]

(* memory: the client's structure and its UDP control block could be       *)
(* allocated.  Without them the client is off and nothing retries.         *)
dhcp_start(n, memory) ==
  LET cleared == [NoClient(n.linkUp) EXCEPT !.address = n.address,
                                            !.dns = n.dns]
  IN  CASE ~memory -> cleared
        [] memory /\ ~n.linkUp -> dhcp_set_state(cleared, "INIT")
        [] memory /\ n.linkUp -> dhcp_discover(cleared)

dhcp_network_changed_link_up(n) ==
  CASE n.state \in {"REBINDING", "RENEWING", "BOUND", "REBOOTING"} ->
         dhcp_reboot([n EXCEPT !.tries = 0])
    [] n.state = "OFF" -> n
    [] OTHER -> dhcp_discover([n EXCEPT !.tries = 0])

(* finite: the server bounded the lease; otherwise no timer is set and     *)
(* those of an earlier binding keep running.                               *)
dhcp_bind(n, finite) ==
  [dhcp_set_state(n, "BOUND") EXCEPT
     !.address = "lease", !.lease = @ \/ finite]

dhcp_check(n) ==
  [dhcp_set_state(n, "CHECKING") EXCEPT
     !.acd = "PROBING", !.defending = FALSE]

(* givesDns: the ACK names a DNS server.  It is in use from here on, while *)
(* the address is still being checked.                                     *)
dhcp_handle_ack(n, givesDns) ==
  IF givesDns THEN [n EXCEPT !.dns = "lease"] ELSE n

(* The lease's timers are left running.                                    *)
dhcp_handle_nak(n) ==
  dhcp_discover([dhcp_set_state(n, "BACKING_OFF") EXCEPT !.address = "any"])

(* dhcp_recv: a valid answer of a given type.  In states that do not wait  *)
(* for it, and with the client off, it is dropped.                         *)
RecvOffer(n) ==
  IF n.state = "SELECTING" THEN dhcp_select([n EXCEPT !.timer = FALSE]) ELSE n

RecvAck(n, finite, givesDns) ==
  CASE n.state \in {"REQUESTING", "REBOOTING"} ->
         dhcp_check(dhcp_handle_ack(n, givesDns))
    [] n.state \in {"REBINDING", "RENEWING"} ->
         dhcp_bind(dhcp_handle_ack(n, givesDns), finite)
    [] OTHER -> n

RecvNak(n) ==
  IF n.state \in {"REBOOTING", "REQUESTING", "REBINDING", "RENEWING"}
  THEN dhcp_handle_nak(n) ELSE n

(* dhcp_timeout: the request timer ran out.                                *)
dhcp_timeout(n, memory) ==
  LET stopped == [n EXCEPT !.timer = FALSE]
  IN  CASE n.state \in {"BACKING_OFF", "SELECTING"} -> dhcp_discover(stopped)
        [] n.state = "REQUESTING" /\ n.tries <= MaxSelectTries ->
             dhcp_select(stopped)
        [] n.state = "REQUESTING" /\ n.tries > MaxSelectTries ->
             dhcp_start(dhcp_release_and_stop(stopped), memory)
        [] n.state = "REBOOTING" /\ n.tries < RebootTries ->
             dhcp_reboot(stopped)
        [] n.state = "REBOOTING" /\ n.tries >= RebootTries ->
             dhcp_discover(stopped)
        [] OTHER -> stopped

(* dhcp_coarse_tmr: renewal, rebinding and the end of the lease.           *)
dhcp_t1_timeout(n) ==
  IF n.state \in {"REQUESTING", "BOUND", "RENEWING"} THEN dhcp_renew(n) ELSE n

dhcp_t2_timeout(n) ==
  IF n.state \in {"REQUESTING", "BOUND", "RENEWING", "REBINDING"}
  THEN dhcp_rebind(n) ELSE n

LeaseEnds(n, memory) == dhcp_start(dhcp_release_and_stop(n), memory)

-----------------------------------------------------------------------------
(* Address conflict detection.                                             *)

(* dhcp_conflict_callback, by the reason it is called with.                *)
AcdDecline(n) == [dhcp_set_state(n, "BACKING_OFF") EXCEPT !.address = "any"]
AcdRestartClient(n) == [dhcp_set_state(n, "BACKING_OFF") EXCEPT !.timer = TRUE]
AcdIpOk(n, finite) == dhcp_bind(n, finite)

acd_restart(n) ==
  LET declined == AcdDecline([n EXCEPT !.conflicts =
                                IF @ < MaxConflicts THEN @ + 1 ELSE @])
  IN  IF declined.conflicts >= MaxConflicts
      THEN [declined EXCEPT !.acd = "RATE_LIMIT"]
      ELSE AcdRestartClient([declined EXCEPT !.acd = "OFF"])

(* acd_arp_reply: another host uses the address.  While only probing that  *)
(* is enough; later the address is defended once, then given up.           *)
acd_arp_reply(n) ==
  CASE n.acd = "PROBING" -> acd_restart(n)
    [] n.acd \in {"ANNOUNCING", "ONGOING"} /\ n.defending -> acd_restart(n)
    [] n.acd \in {"ANNOUNCING", "ONGOING"} /\ ~n.defending ->
         [n EXCEPT !.defending = TRUE]
    [] OTHER -> n

(* acd_tmr, when the wait of the current state is over.                    *)
acd_tmr(n, finite) ==
  CASE n.acd = "PROBING" -> [n EXCEPT !.acd = "ANNOUNCING", !.conflicts = 0]
    [] n.acd = "ANNOUNCING" -> AcdIpOk([n EXCEPT !.acd = "ONGOING"], finite)
    [] n.acd = "RATE_LIMIT" -> AcdRestartClient([n EXCEPT !.acd = "OFF"])
    [] OTHER -> n

acd_network_changed_link_down(n) == [n EXCEPT !.acd = "OFF"]
===============================================================================
