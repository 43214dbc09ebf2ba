---------------------------- MODULE NetworkService ----------------------------
(***************************************************************************)
(* The network service (Srv/Src/network_service.c) on top of lwIP's DHCP   *)
(* client: it follows the link, starts DHCP when the link comes up, falls  *)
(* back to a static configuration when no lease arrives in time, and       *)
(* publishes networkReady, which the time, health-check and API tasks poll.*)
(*                                                                         *)
(* Everything here runs on the tcpip thread: CoreProcess is posted to it   *)
(* every 100 ms, the DHCP and conflict-detection timers and the received   *)
(* packets are handled on it.  An action is one such callback; the cable,  *)
(* the DHCP server and the other hosts act in between.                     *)
(***************************************************************************)
EXTENDS DhcpClient

CONSTANT MaxTroubles  \* faults and refusals in one behaviour

ASSUME NetworkAssumption == MaxTroubles \in Nat

VARIABLES
  cable,          \* what the PHY reports: negotiated or not
  net,            \* the interface and its DHCP client
  configuration,  \* activeConfiguration
  networkReady,
  late,           \* NETWORK_DHCP_TIMEOUT_MS have passed since dhcpStartedAt
  phase,          \* "starting" until CoreInit; "halted" in System_ErrorHandler
  troubles        \* faults and refusals left

vars == <<cable, net, configuration, networkReady, late, phase, troubles>>

Configurations == {"NONE", "DHCP", "FALLBACK"}

NetworkTypeOK ==
  /\ cable \in BOOLEAN
  /\ net \in Interfaces
  /\ configuration \in Configurations
  /\ networkReady \in BOOLEAN
  /\ late \in BOOLEAN
  /\ phase \in {"starting", "running", "halted"}
  /\ troubles \in 0..MaxTroubles

Init ==
  /\ cable \in BOOLEAN
  /\ net = NoClient(FALSE)
  /\ configuration = "NONE"
  /\ networkReady = FALSE
  /\ late = FALSE
  /\ phase = "starting"
  /\ troubles = MaxTroubles

Suffer == /\ troubles > 0
          /\ troubles' = troubles - 1

(* memory is whether an allocation inside dhcp_start succeeds; a failure   *)
(* is a trouble.                                                           *)
Allocation(memory) ==
  IF memory THEN UNCHANGED troubles ELSE Suffer

-----------------------------------------------------------------------------
(* The service's own state, threaded through its functions.                *)
Service == [net |-> net, configuration |-> configuration,
            ready |-> networkReady, late |-> late]

Becomes(s) ==
  /\ net' = s.net
  /\ configuration' = s.configuration
  /\ networkReady' = s.ready
  /\ late' = s.late

networkService_Report(s) == [s EXCEPT !.ready = s.net.linkUp]

(* Seeded fault: nothing is reported.                                      *)
FallbackUnreported(s) ==
  [s EXCEPT !.net = [s.net EXCEPT !.address = "fallback", !.dns = "fallback"],
            !.configuration = "FALLBACK"]

networkService_ApplyFallback(s) ==
  LET stopped == IF s.net.linkUp THEN s.net ELSE dhcp_release_and_stop(s.net)
  IN  networkService_Report(
        [s EXCEPT !.net = [stopped EXCEPT !.address = "fallback",
                                          !.dns = "fallback"],
                  !.configuration = "FALLBACK"])

networkService_StartDhcp(s, memory) ==
  LET started == dhcp_start([s.net EXCEPT !.address = "any", !.dns = "any"],
                            memory)
      reset == [net |-> started, configuration |-> "NONE",
                ready |-> FALSE, late |-> FALSE]
  IN  IF memory THEN reset ELSE networkService_ApplyFallback(reset)

(* Seeded fault: the client is not stopped.                                *)
LinkChangedKeepsClient(s, memory) ==
  IF s.net.linkUp
  THEN networkService_StartDhcp(s, memory)
  ELSE [s EXCEPT !.configuration = "NONE", !.ready = FALSE, !.late = FALSE]

networkService_LinkChanged(s, memory) ==
  IF s.net.linkUp
  THEN networkService_StartDhcp(s, memory)
  ELSE [net |-> dhcp_release_and_stop(s.net), configuration |-> "NONE",
        ready |-> FALSE, late |-> FALSE]

(* NetworkInterface_UpdateLink with netif_set_link_up and ..._down.        *)
UpdateLink(s, up, memory) ==
  CASE up /\ ~s.net.linkUp ->
         networkService_LinkChanged(
           [s EXCEPT !.net = dhcp_network_changed_link_up(
                               [s.net EXCEPT !.linkUp = TRUE])], memory)
    [] ~up /\ s.net.linkUp ->
         networkService_LinkChanged(
           [s EXCEPT !.net = acd_network_changed_link_down(
                               [s.net EXCEPT !.linkUp = FALSE])], memory)
    [] OTHER -> s

(* Seeded fault: a lease that arrives after the fallback is not adopted.   *)
FollowFirstOnly(s) ==
  CASE s.net.linkUp /\ s.configuration = "NONE"
         /\ dhcp_supplied_address(s.net) ->
         networkService_Report([s EXCEPT !.configuration = "DHCP"])
    [] s.net.linkUp /\ s.configuration = "NONE" /\ s.late
         /\ ~dhcp_supplied_address(s.net) -> networkService_ApplyFallback(s)
    [] OTHER -> s

(* What CoreProcess does once the link has been read.                      *)
FollowDhcp(s) ==
  CASE ~s.net.linkUp -> s
    [] s.net.linkUp /\ dhcp_supplied_address(s.net) ->
         IF s.configuration = "DHCP" THEN s
         ELSE networkService_Report([s EXCEPT !.configuration = "DHCP"])
    [] s.net.linkUp /\ ~dhcp_supplied_address(s.net) ->
         IF s.configuration = "NONE" /\ s.late
         THEN networkService_ApplyFallback(s) ELSE s

-----------------------------------------------------------------------------
(* The network task's start: netif_add, then the first reading of the      *)
(* link.  A PHY that does not answer, or a tcpip thread that takes longer  *)
(* than NETWORK_INIT_TIMEOUT_MS, ends in System_ErrorHandler, where the    *)
(* watchdog resets the device.                                             *)
CoreInit(memory) ==
  /\ phase = "starting"
  /\ Allocation(memory)
  /\ Becomes(UpdateLink(Service, cable, memory))
  /\ phase' = "running"
  /\ UNCHANGED cable

InitFails ==
  /\ phase = "starting"
  /\ Suffer
  /\ phase' = "halted"
  /\ UNCHANGED <<cable, net, configuration, networkReady, late>>

WatchdogReset ==
  /\ phase = "halted"
  /\ Becomes([net |-> NoClient(FALSE), configuration |-> "NONE",
              ready |-> FALSE, late |-> FALSE])
  /\ phase' = "starting"
  /\ UNCHANGED <<cable, troubles>>

(* Every 100 ms.  A failed PHY read leaves everything as it is.            *)
CoreProcess(memory) ==
  /\ phase = "running"
  /\ Allocation(memory)
  /\ Becomes(FollowDhcp(UpdateLink(Service, cable, memory)))
  /\ UNCHANGED <<cable, phase>>

(* A step of lwIP's on the tcpip thread that leaves the service alone.     *)
Lwip(next) ==
  /\ phase = "running"
  /\ net' = next
  /\ UNCHANGED <<cable, configuration, networkReady, late, phase>>

Offer == /\ Lwip(RecvOffer(net))
         /\ UNCHANGED troubles

Ack == /\ \E finite, givesDns \in BOOLEAN : Lwip(RecvAck(net, finite, givesDns))
       /\ UNCHANGED troubles

Nak == /\ Lwip(RecvNak(net))
       /\ Suffer

Conflict == /\ Lwip(acd_arp_reply(net))
            /\ Suffer

RequestTimesOut ==
  /\ net.timer
  /\ \E memory \in BOOLEAN :
       Lwip(dhcp_timeout(net, memory)) /\ Allocation(memory)

AcdTimer ==
  /\ net.acd \in {"PROBING", "ANNOUNCING", "RATE_LIMIT"}
  /\ \E finite \in BOOLEAN : Lwip(acd_tmr(net, finite))
  /\ UNCHANGED troubles

DefenceEnds ==
  /\ net.defending
  /\ Lwip([net EXCEPT !.defending = FALSE])
  /\ UNCHANGED troubles

Renewal ==
  /\ net.lease
  /\ Lwip(dhcp_t1_timeout(net)) \/ Lwip(dhcp_t2_timeout(net))
  /\ UNCHANGED troubles

Expiry ==
  /\ net.lease
  /\ \E memory \in BOOLEAN : Lwip(LeaseEnds(net, memory))
  /\ Suffer

CableChanges ==
  /\ Suffer
  /\ cable' = ~cable
  /\ UNCHANGED <<net, configuration, networkReady, late, phase>>

TimePasses ==
  /\ phase = "running"
  /\ ~late
  /\ late' = TRUE
  /\ UNCHANGED <<cable, net, configuration, networkReady, phase, troubles>>

Next ==
  \/ \E memory \in BOOLEAN : CoreInit(memory)
  \/ InitFails
  \/ WatchdogReset
  \/ \E memory \in BOOLEAN : CoreProcess(memory)
  \/ Offer
  \/ Ack
  \/ Nak
  \/ Conflict
  \/ RequestTimesOut
  \/ AcdTimer
  \/ DefenceEnds
  \/ Renewal
  \/ Expiry
  \/ CableChanges
  \/ TimePasses

Spec == Init /\ [][Next]_vars

(* The tasks and timers run, and of the messages of a client that keeps     *)
(* asking the server answers one in time again and again.                  *)
FairSpec ==
  /\ Spec
  /\ WF_vars(\E memory \in BOOLEAN : CoreInit(memory))
  /\ WF_vars(WatchdogReset)
  /\ WF_vars(\E memory \in BOOLEAN : CoreProcess(memory))
  /\ WF_vars(RequestTimesOut)
  /\ WF_vars(AcdTimer)
  /\ WF_vars(TimePasses)
  /\ SF_vars(Offer)
  /\ SF_vars(Ack)

-----------------------------------------------------------------------------
(* Whatever the DHCP client or the conflict detection was doing when the   *)
(* link went down, once the service has seen it the client is off, no      *)
(* leased address is left and nobody is told that the network is ready:    *)
(* networkService_LinkChanged with dhcp_stop.  So a link that comes back   *)
(* never enters lwIP's REBOOTING or INIT.                                  *)
LinkLossRevokes ==
  /\ ~net.linkUp => /\ net.state = "OFF" /\ net.acd = "OFF"
                    /\ net.address # "lease"
                    /\ configuration = "NONE" /\ ~networkReady
  /\ net.state \notin {"REBOOTING", "INIT"}

(* A leased address is in use only while the client holds the lease, an    *)
(* address is still being probed or announced only while the client waits  *)
(* for the verdict, and tasks are told the network is ready only with a    *)
(* configuration chosen: dhcp_handle_nak, dhcp_conflict_callback,          *)
(* dhcp_release_and_stop and CoreProcess against each other's order.       *)
AddressHasOwner ==
  /\ net.address = "lease" => dhcp_supplied_address(net)
  /\ net.acd \in {"PROBING", "ANNOUNCING"} => net.state = "CHECKING"
  /\ networkReady => configuration # "NONE"

(* With the cable in, the network becomes ready, lease or no lease: the    *)
(* 10 s fallback of CoreProcess.                                           *)
BecomesReady == cable ~> (networkReady \/ ~cable)

(* README, "DHCP remains eligible to replace fallback settings after link  *)
(* or server recovery": with the cable in and a server that answers, a     *)
(* device whose DHCP client could be started ends with a leased address    *)
(* and DHCP as its configuration, whichever refusals, conflicts, expiries  *)
(* and fallbacks came before.                                              *)
LeaseReplacesFallback ==
  [](net.linkUp /\ net.state # "OFF")
    ~> (configuration = "DHCP" /\ net.address = "lease")

-----------------------------------------------------------------------------
(* Two statements of the documentation that the code does not keep; the    *)
(* README tells how.                                                       *)

(* network_service.h of NetworkService_IsReady: "Link is up and DHCP or    *)
(* fallback parameters are assigned."                                      *)
ReadyHasAddress == networkReady => net.address # "any"

(* README, "replace fallback settings": with DHCP as the configuration no  *)
(* setting of the fallback is left.                                        *)
NoFallbackUnderDhcp == configuration = "DHCP" => net.dns # "fallback"
===============================================================================
