------------------------------ MODULE Packets ------------------------------
(***************************************************************************)
(* The way of a subscriber's packets through one ONU: from VOLTHA to the   *)
(* loop of the ONU, to a HandlePackets goroutine of the UNI, to the one of *)
(* the service, and the answers back; DHCP to the server behind the NNI    *)
(* and IGMP memberships, which the API joins and leaves.                   *)
(*                                                                         *)
(* UniPort.PacketCh is made once and never closed: every time the UNI goes *)
(* up one more goroutine receives from it.  Service.PacketCh is made and   *)
(* closed with the service.  The machines of the clients are in Service;   *)
(* here a client may accept or refuse to start.                            *)
(***************************************************************************)
EXTENDS Naturals, Sequences, FiniteSets, Frames

CONSTANTS
    Catalog,      \* the services of the ONU: UNI, index, tags and protocols
    GroupsUsed,   \* multicast groups, as four bytes
    Vlans,        \* values of IgmpRequest.VLAN, 0 = the service's C-tag
    MaxEnables,   \* bound on how often a UNI is enabled
    MaxStimuli    \* bound on what VOLTHA and the API ask for

ASSUME CatalogAssumption ==
    \A s \in DOMAIN Catalog : Catalog[s].uni \in Nat /\ Catalog[s].k \in Nat

Services == DOMAIN Catalog
Unis == {Catalog[s].uni : s \in Services}
Enables == 1..MaxEnables

\* The services of a UNI, in the order of the configuration.
ServicesOf(u) ==
    SetToSortSeq({s \in Services : Catalog[s].uni = u},
                 LAMBDA a, b : Catalog[a].k < Catalog[b].k)

UniPorts == SetToSortSeq(Unis, <)

VARIABLES
    oper,       \* UniPort.OperState
    enables,    \* per UNI, the HandlePackets goroutines that were started
    portNo,     \* UniPort.PortNo
    internal,   \* Service.InternalState
    chan,       \* Service.PacketCh: the enabling that made it, 0 = nil
    open,       \* the channels, by service and enabling, that are not closed
    gem,        \* Service.GemPort
    groups,     \* Service.groupAddresses: which map, and what it holds
    loop,       \* what ProcessOnuMessages does
    closing,    \* per UNI, the services its enter_down callback is to disable
    forwarder,  \* per UNI and goroutine, what UniPort.HandlePackets does
    handler,    \* per service and enabling, what Service.HandlePackets does
    api,        \* the ChangeIgmpState call in progress
    sends,      \* goroutines that are about to send: discoveries, reports
    up, down,   \* packets in VOLTHA: from the ONU, for the ONU
    stimuli,    \* what was asked for so far
    lease,      \* history: the address of each service's last ack
    expected,   \* history: the services that sent a discovery
    joined,     \* history: the memberships that API callers were told
    view,       \* history: the memberships that VOLTHA was told
    panicked,   \* a goroutine panicked
    overtaken   \* history: what did not wait for the others to finish

ports == <<oper, enables, portNo>>
channels == <<internal, chan, open>>
told == <<lease, expected, joined, view>>
vars == <<ports, channels, gem, groups, loop, closing, forwarder, handler, api,
          sends, up, down, stimuli, told, panicked, overtaken>>

\* VOLTHA's number of a port, and the GEM port of a service.
PortOf(u) == u + 1
GemOf(s) == 1023 + s

Mac(s) == <<46, 0, 0, 1, Catalog[s].uni, Catalog[s].k>>

NoMap == [nil |-> TRUE, id |-> 0, of |-> <<>>]
Idle == [at |-> "idle"]

Quiet ==
    /\ loop = Idle /\ api = Idle /\ sends = {} /\ up = {} /\ down = {}
    /\ \A u \in Unis : closing[u] = <<>>
    /\ \A u \in Unis, n \in Enables : forwarder[u][n] = Idle
    /\ \A s \in Services, n \in Enables : handler[s][n] = Idle

Overtakers == {"enable", "disable", "flow", "packet", "stray", "call"}

\* VOLTHA or the API asks for something, once in a behaviour out of order.
AsksIf(who, orderly) ==
    /\ stimuli < MaxStimuli
    /\ stimuli' = stimuli + 1
    /\ orderly \/ overtaken = "nothing"
    /\ overtaken' = IF orderly THEN overtaken ELSE who

\* In order: what was asked for earlier is done.
Asks(who) == AsksIf(who, Quiet)

Init ==
    /\ oper = [u \in Unis |-> "down"] /\ enables = [u \in Unis |-> 0]
    /\ portNo = [u \in Unis |-> 0]
    /\ internal = [s \in Services |-> "created"] /\ chan = [s \in Services |-> 0]
    /\ open = {} /\ gem = [s \in Services |-> 0]
    /\ groups = [s \in Services |-> NoMap]
    /\ loop = Idle /\ closing = [u \in Unis |-> <<>>] /\ api = Idle
    /\ forwarder = [u \in Unis |-> [n \in Enables |-> Idle]]
    /\ handler = [s \in Services |-> [n \in Enables |-> Idle]]
    /\ sends = {} /\ up = {} /\ down = {} /\ stimuli = 0
    /\ lease = [s \in Services |-> <<>>] /\ expected = {}
    /\ joined = [s \in Services |-> <<>>] /\ view = [s \in Services |-> {}]
    /\ panicked = FALSE /\ overtaken = "nothing"

---------------------------------------------------------------------------
(* The UNI goes up, in the loop of the ONU, and down.                      *)

UniEnable(u) ==
    /\ loop = Idle /\ oper[u] = "down" /\ closing[u] = <<>>
    /\ enables[u] < MaxEnables
    /\ Asks("enable")
    /\ oper' = [oper EXCEPT ![u] = "up"]
    /\ enables' = [enables EXCEPT ![u] = @ + 1]
    /\ loop' = [at |-> "initialize", rest |-> ServicesOf(u)]
    /\ UNCHANGED <<portNo, channels, gem, groups, closing, forwarder, handler,
                   api, sends, up, down, told, panicked>>

\* Mutant: only the first service of the UNI is initialized.
InitializeFirst ==
    /\ loop.at = "initialize"
    /\ LET s == Head(loop.rest)
           n == enables[Catalog[s].uni] IN
       /\ internal' = [internal EXCEPT ![s] = "initialized"]
       /\ chan' = [chan EXCEPT ![s] = n]
       /\ open' = open \cup {<<s, n>>}
       /\ loop' = Idle
    /\ UNCHANGED <<ports, gem, groups, closing, forwarder, handler, api, sends,
                   up, down, stimuli, told, panicked, overtaken>>

InitializeService ==
    /\ loop.at = "initialize"
    /\ LET s == Head(loop.rest)
           n == enables[Catalog[s].uni] IN
       /\ internal' = [internal EXCEPT ![s] = "initialized"]
       /\ chan' = [chan EXCEPT ![s] = n]
       /\ open' = open \cup {<<s, n>>}
       /\ loop' = IF Len(loop.rest) = 1 THEN Idle
                  ELSE [loop EXCEPT !.rest = Tail(@)]
    /\ UNCHANGED <<ports, gem, groups, closing, forwarder, handler, api, sends,
                   up, down, stimuli, told, panicked, overtaken>>

\* VOLTHA drops the memberships of a port that goes down.
UniDisable(u) ==
    /\ oper[u] = "up"
    /\ loop.at = "initialize" => Catalog[Head(loop.rest)].uni # u
    /\ Asks("disable")
    /\ oper' = [oper EXCEPT ![u] = "down"]
    /\ closing' = [closing EXCEPT ![u] = ServicesOf(u)]
    /\ view' = [s \in Services |-> IF Catalog[s].uni = u THEN {} ELSE view[s]]
    /\ joined' = [s \in Services |-> IF Catalog[s].uni = u THEN <<>> ELSE joined[s]]
    /\ UNCHANGED <<enables, portNo, channels, gem, groups, loop, forwarder,
                   handler, api, sends, up, down, lease, expected, panicked>>

\* A forwarder that is blocked on the channel panics when it is closed.
CloseService(u) ==
    /\ closing[u] # <<>>
    /\ LET s == Head(closing[u]) IN
       /\ internal[s] = "initialized"
       /\ internal' = [internal EXCEPT ![s] = "disabled"]
       /\ open' = open \ {<<s, chan[s]>>}
       /\ panicked' = \E n \in Enables :
              LET job == forwarder[u][n]
              IN  job.at = "send" /\ Head(job.rest) = s /\ job.on = chan[s]
    /\ UNCHANGED <<ports, chan, gem, groups, loop, closing, forwarder, handler,
                   api, sends, up, down, stimuli, told, overtaken>>

\* Mutant: the memberships stay.
ForgetChannelOnly(u) ==
    /\ closing[u] # <<>>
    /\ LET s == Head(closing[u]) IN
       /\ internal[s] = "disabled"
       /\ chan' = [chan EXCEPT ![s] = 0]
       /\ gem' = [gem EXCEPT ![s] = 0]
       /\ closing' = [closing EXCEPT ![u] = Tail(@)]
    /\ UNCHANGED <<ports, internal, open, groups, loop, forwarder, handler, api,
                   sends, up, down, stimuli, told, panicked, overtaken>>

ForgetService(u) ==
    /\ closing[u] # <<>>
    /\ LET s == Head(closing[u]) IN
       /\ internal[s] = "disabled"
       /\ chan' = [chan EXCEPT ![s] = 0]
       /\ gem' = [gem EXCEPT ![s] = 0]
       /\ groups' = [groups EXCEPT ![s] = [NoMap EXCEPT !.id = groups[s].id]]
       /\ closing' = [closing EXCEPT ![u] = Tail(@)]
    /\ UNCHANGED <<ports, internal, open, loop, forwarder, handler, api,
                   sends, up, down, stimuli, told, panicked, overtaken>>

---------------------------------------------------------------------------
(* handleFlowAdd.  VOLTHA adds the flows of a service; a DHCP flow starts  *)
(* the clients it matches.                                                 *)

\* The tag of the DHCP packets of a service: the S-tag of the management
\* service of an FTTB unit, the C-tag of any other.
DhcpTag(s) == IF Catalog[s].dpu THEN Catalog[s].stag ELSE Catalog[s].ctag

DhcpFlow(s) == [uni |-> Catalog[s].uni, eth |-> "ipv4", gem |-> GemOf(s),
                oVlan |-> DhcpTag(s), iVlan |-> 0]
DataFlow(s) == [uni |-> Catalog[s].uni, eth |-> "any", gem |-> GemOf(s),
                oVlan |-> Catalog[s].stag, iVlan |-> Catalog[s].ctag]

addGemPortToService(flow) ==
    [s \in Services |->
        IF /\ Catalog[s].uni = flow.uni
           /\ \/ flow.eth = "ipv4" /\ Catalog[s].dhcp /\ Catalog[s].ctag = flow.oVlan
              \/ Catalog[s].ctag = flow.iVlan /\ Catalog[s].stag = flow.oVlan
        THEN flow.gem ELSE gem[s]]

\* The services whose client HandleDhcp starts.
Matched(flow) ==
    {s \in Services : /\ Catalog[s].uni = flow.uni /\ flow.eth = "ipv4"
                      /\ Catalog[s].dhcp /\ DhcpTag(s) = flow.oVlan}

\* A client that starts sends on service.Channel, which is nil and blocks the
\* loop for good if the service is disabled.
handleFlowAdd(flow) ==
    /\ loop = Idle /\ oper[flow.uni] = "up"
    /\ Asks("flow")
    /\ gem' = addGemPortToService(flow)
    /\ portNo' = [portNo EXCEPT ![flow.uni] = PortOf(flow.uni)]
    /\ \E starting \in SUBSET Matched(flow) :
        /\ sends' = sends \cup {[what |-> "discover", of |-> s] : s \in starting}
        /\ loop' = IF \E s \in starting : chan[s] = 0 THEN [at |-> "stuck"] ELSE Idle
    /\ UNCHANGED <<oper, enables, channels, groups, closing, forwarder, handler,
                   api, up, down, told, panicked>>

\* HandleChannel sends the discovery.
SendDHCPDiscovery(s) ==
    LET send == [what |-> "discover", of |-> s] IN
    /\ send \in sends
    /\ sends' = sends \ {send}
    /\ up' = up \cup {[pkt |-> serializeDHCPPacket(DhcpTag(s), Mac(s),
                                  createDHCPDisc(gem[s], Mac(s))),
                       gem |-> gem[s], port |-> portNo[Catalog[s].uni]]}
    /\ expected' = expected \cup {s}
    /\ UNCHANGED <<ports, channels, gem, groups, loop, closing, forwarder,
                   handler, api, down, stimuli, lease, joined, view,
                   panicked, overtaken>>

\* VOLTHA takes a client's packet to the NNI, under the S-tag of the service,
\* and the server's answer back to the port the packet came from.
UplinkPacketOut(m) ==
    LET single == \E s \in Services : Catalog[s].dpu /\ Mac(s) = m.pkt.src
        stag == CHOOSE t \in {Catalog[s].stag : s \in {r \in Services : Mac(r) = m.pkt.src}} : TRUE
        request == IF single THEN m.pkt ELSE PushSingleTag(stag, m.pkt)
        answer == HandleServerPacket(request)
    IN
    /\ m \in up
    /\ up' = up \ {m}
    /\ down' = IF Answerable(request)
               THEN down \cup {[pkt |-> IF single THEN answer ELSE PopSingleTag(answer),
                                port |-> m.port]}
               ELSE down
    /\ UNCHANGED <<ports, channels, gem, groups, loop, closing, forwarder,
                   handler, api, sends, stimuli, told, panicked, overtaken>>

---------------------------------------------------------------------------
(* Packets for the ONU: OnuPacketOut, the loop, the goroutines of the UNI. *)

multicastGemPortId == 4069

\* VOLTHA gives no port with a packet for the multicast GEM port.
Multicast == 0

Query(v) == PushSingleTag(v, Packet({"IGMP"}, ServerMac, Broadcast, [what |-> "query"]))
Ping == Packet({"ICMPv6"}, ServerMac, Broadcast, None)
Unknown == Packet({"ARP"}, ServerMac, Broadcast, None)

\* The first UNI with the port number.  All those without a flow have number 0.
findUniByPortNo(port) ==
    LET found == SelectSeq(UniPorts, LAMBDA u : portNo[u] = port)
    IN  SubSeq(found, 1, IF found = <<>> THEN 0 ELSE 1)

\* Once for each service that has memberships.
findUniWithIgmpMembership ==
    FlattenSeq([i \in DOMAIN UniPorts |->
        LET u == UniPorts[i]
            Member(s) == /\ oper[u] = "up" /\ internal[s] = "initialized"
                         /\ Catalog[s].igmp /\ DOMAIN groups[s].of # {}
            members == SelectSeq(ServicesOf(u), Member)
        IN  [k \in DOMAIN members |-> u]])

\* The message OnuPacketOut makes: it passes no GEM port on.
OnuPacketMessage(pkt, port) == [pkt |-> pkt, port |-> port, gem |-> 0]

\* The UNIs to whose channels the loop sends a packet.
Recipients(msg) ==
    IF msg.gem = multicastGemPortId THEN findUniWithIgmpMembership
    ELSE findUniByPortNo(msg.port)

Receive(msg) ==
    /\ loop = Idle
    /\ loop' = IF GetPktType(msg.pkt) = "UNKNOWN" \/ Recipients(msg) = <<>> THEN Idle
               ELSE [at |-> "send", msg |-> msg, rest |-> Recipients(msg)]
    /\ UNCHANGED <<ports, channels, gem, groups, closing, forwarder, handler,
                   api, sends, up, told, panicked>>

OnuPacketOut(m) ==
    /\ m \in down
    /\ Receive(OnuPacketMessage(m.pkt, m.port))
    /\ down' = down \ {m}
    /\ UNCHANGED <<stimuli, overtaken>>

\* VOLTHA sends something nobody asked for, to a port or on the multicast GEM.
\* It strays if the UNI is down.
PacketOut(pkt, port) ==
    /\ IF \A u \in Range(findUniByPortNo(port)) : oper[u] = "up"
       THEN Asks("packet") ELSE AsksIf("stray", FALSE)
    /\ Receive(OnuPacketMessage(pkt, port))
    /\ UNCHANGED down

findServiceByMacAddress(u, mac) == SelectSeq(ServicesOf(u), LAMBDA s : Mac(s) = mac)

\* Mutant: DHCP goes to every service of the UNI that needs it, whatever the
\* address.
TargetsByNeed(u, pkt) ==
    IF GetPktType(pkt) \in {"EAPOL", "DHCP"}
    THEN SelectSeq(ServicesOf(u), LAMBDA s : Catalog[s].dhcp)
    ELSE IF GetPktType(pkt) = "IGMP"
    THEN SelectSeq(ServicesOf(u), LAMBDA s : Catalog[s].igmp)
    ELSE <<>>

\* Where UniPort.HandlePackets sends a packet.
Targets(u, pkt) ==
    IF GetPktType(pkt) \in {"EAPOL", "DHCP"} THEN findServiceByMacAddress(u, pkt.dst)
    ELSE IF GetPktType(pkt) = "IGMP"
    THEN SelectSeq(ServicesOf(u), LAMBDA s : Catalog[s].igmp)
    ELSE <<>>

\* The goroutine evaluates the channel of the next service and blocks on it:
\* for good if it is nil; if it is closed, it panics.
Sending(pkt, rest) ==
    IF rest = <<>> THEN Idle
    ELSE [at |-> "send", pkt |-> pkt, rest |-> rest, on |-> chan[Head(rest)]]

Hits(job) == job.at = "send" /\ job.on # 0 /\ <<Head(job.rest), job.on>> \notin open

\* Any of the idle goroutines takes the packet: they are alike.
Forward ==
    /\ loop.at = "send"
    /\ LET u == Head(loop.rest)
           idle == {n \in 1..enables[u] : forwarder[u][n] = Idle}
           job == Sending(loop.msg.pkt, Targets(u, loop.msg.pkt)) IN
       /\ idle # {}
       /\ LET n == CHOOSE k \in idle : \A j \in idle : k <= j
          IN  forwarder' = [forwarder EXCEPT ![u][n] = job]
       /\ panicked' = Hits(job)
    /\ loop' = IF Len(loop.rest) = 1 THEN Idle ELSE [loop EXCEPT !.rest = Tail(@)]
    /\ UNCHANGED <<ports, channels, gem, groups, closing, handler, api, sends,
                   up, down, stimuli, told, overtaken>>

\* Service.HandlePackets receives the packet; the forwarder goes on.
Deliver(u, n) ==
    LET job == forwarder[u][n] IN
    /\ job.at = "send" /\ <<Head(job.rest), job.on>> \in open
    /\ handler[Head(job.rest)][job.on] = Idle
    /\ handler' = [handler EXCEPT ![Head(job.rest)][job.on] = [at |-> "next", pkt |-> job.pkt]]
    /\ LET next == Sending(job.pkt, Tail(job.rest))
       IN  /\ forwarder' = [forwarder EXCEPT ![u][n] = next]
           /\ panicked' = Hits(next)
    /\ UNCHANGED <<ports, channels, gem, groups, loop, closing, api, sends, up,
                   down, stimuli, told, overtaken>>

---------------------------------------------------------------------------
(* Service.HandlePackets: the DHCP and IGMP responders.                    *)

Done(s, n) == handler' = [handler EXCEPT ![s][n] = Idle]

\* An offer is answered, an ack ends the exchange.
HandleDhcpPacket(s, n) ==
    LET pkt == handler[s][n].pkt IN
    /\ handler[s][n].at = "next" /\ GetPktType(pkt) = "DHCP"
    /\ Done(s, n)
    /\ IF pkt.says.what = "offer"
       THEN /\ up' = up \cup {[pkt |-> serializeDHCPPacket(DhcpTag(s), Mac(s),
                                          createDHCPReq(gem[s], Mac(s), pkt.says.ip)),
                               gem |-> gem[s], port |-> portNo[Catalog[s].uni]]}
            /\ UNCHANGED lease
       ELSE /\ lease' = [lease EXCEPT ![s] = pkt.says.ip]
            /\ UNCHANGED up
    /\ UNCHANGED <<ports, channels, gem, groups, loop, closing, forwarder, api,
                   sends, down, stimuli, expected, joined, view, panicked, overtaken>>

\* What VOLTHA makes of a report: nothing, if its checksum is wrong.
Decode(pkt) ==
    LET bytes == pkt.says.bytes
        v3 == bytes[1] = IGMPMembershipReportV3
        verified == tcpipChecksum(bytes) = 0
    IN  [ok |-> verified, leave |-> bytes[1] = IGMPLeaveGroup,
         group |-> SubSeq(bytes, IF v3 THEN 13 ELSE 5, IF v3 THEN 16 ELSE 8)]

Sees(s, type, tag, group) ==
    LET report == Decode(serializeIgmpPacket(tag, Mac(s), type, group))
    IN  view' = [view EXCEPT ![s] =
            IF ~report.ok THEN @
            ELSE IF report.leave THEN {m \in @ : m.group # report.group}
            ELSE {m \in @ : m.group # report.group} \cup {[group |-> report.group, vlan |-> tag]}]

\* A query makes the responder range over the map of groups it was passed.
HandleIgmpPacket(s, n) ==
    /\ handler[s][n].at = "next" /\ GetPktType(handler[s][n].pkt) = "IGMP"
    /\ handler' = [handler EXCEPT ![s][n] =
           [at |-> "range", pkt |-> @.pkt, map |-> groups[s].id, of |-> groups[s].of,
            left |-> DOMAIN groups[s].of]]
    /\ UNCHANGED <<ports, channels, gem, groups, loop, closing, forwarder, api,
                   sends, up, down, stimuli, told, panicked, overtaken>>

AnswerQuery(s, n) ==
    LET job == handler[s][n] IN
    /\ job.at = "range"
    /\ \/ \E g \in job.left :
            /\ handler' = [handler EXCEPT ![s][n].left = @ \ {g}]
            /\ IF job.of[g] = Head(job.pkt.tags)
               THEN Sees(s, IGMPMembershipReportV2, job.of[g], g)
               ELSE UNCHANGED view
       \/ job.left = {} /\ Done(s, n) /\ UNCHANGED view
    /\ UNCHANGED <<ports, channels, gem, groups, loop, closing, forwarder, api,
                   sends, up, down, stimuli, lease, expected, joined, panicked,
                   overtaken>>

---------------------------------------------------------------------------
(* BBSimServer.ChangeIgmpState.                                            *)

Calls == {"join", "joinv3", "leave"}
ReportType(call) ==
    CASE call = "join" -> IGMPMembershipReportV2
      [] call = "joinv3" -> IGMPMembershipReportV3
      [] call = "leave" -> IGMPLeaveGroup

\* Refused if the UNI is down, before anything is changed.
ChangeIgmpState(u, call, g, v) ==
    /\ api = Idle /\ oper[u] = "up"
    /\ Asks("call")
    /\ LET rest == SelectSeq(ServicesOf(u), LAMBDA s : Catalog[s].igmp)
       IN  api' = IF rest = <<>> THEN Idle
                  ELSE [at |-> "check", call |-> call, group |-> g, vlan |-> v, rest |-> rest]
    /\ UNCHANGED <<ports, channels, gem, groups, loop, closing, forwarder,
                   handler, sends, up, down, told, panicked>>

Advance == api' = IF Len(api.rest) = 1 THEN Idle
                  ELSE [api EXCEPT !.at = "check", !.rest = Tail(@)]

VlanOf(s) == IF api.vlan # 0 THEN api.vlan ELSE Catalog[s].ctag

\* Goroutines that range over the map that is written to.
Ranging(s) == {n \in Enables : /\ handler[s][n].at = "range" /\ ~groups[s].nil
                               /\ handler[s][n].map = groups[s].id
                               /\ handler[s][n].left # {}}

\* The runtime may notice a map that is written while it is ranged over.
Write(s, of) ==
    /\ groups' = [groups EXCEPT ![s].of = of]
    /\ panicked' \in {FALSE} \cup (IF Ranging(s) # {} THEN {TRUE} ELSE {})
    /\ handler' = [handler EXCEPT ![s] = [n \in Enables |->
           IF n \in Ranging(s)
           THEN [@[n] EXCEPT !.left = @ \cap DOMAIN of, !.of = of]
           ELSE @[n]]]

Tell(s) ==
    /\ sends' = sends \cup {[what |-> api.call, of |-> s, group |-> api.group,
                             vlan |-> VlanOf(s)]}
    /\ joined' = [joined EXCEPT ![s] =
           IF api.call = "leave"
           THEN [g \in DOMAIN @ \ {api.group} |-> @[g]]
           ELSE [g \in DOMAIN @ \cup {api.group} |->
                    IF g = api.group THEN VlanOf(s) ELSE @[g]]]

\* AddGroupAddress makes the map if there is none; a service that is not
\* initialized is skipped.
CheckService ==
    /\ api.at = "check"
    /\ LET s == Head(api.rest) IN
       IF internal[s] # "initialized"
       THEN Advance /\ UNCHANGED groups
       ELSE /\ api' = [api EXCEPT !.at = "write"]
            /\ groups' = IF groups[s].nil /\ api.call # "leave"
                         THEN [groups EXCEPT ![s] = [nil |-> FALSE, id |-> @.id + 1, of |-> <<>>]]
                         ELSE groups
    /\ UNCHANGED <<ports, channels, gem, loop, closing, forwarder, handler,
                   sends, up, down, stimuli, told, panicked, overtaken>>

\* A write to a nil map panics.
AddGroupAddress ==
    /\ api.at = "write" /\ api.call # "leave"
    /\ LET s == Head(api.rest) IN
       IF groups[s].nil
       THEN panicked' = TRUE /\ UNCHANGED <<groups, handler, api, sends, joined>>
       ELSE /\ Write(s, [g \in DOMAIN groups[s].of \cup {api.group} |->
                            IF g = api.group THEN VlanOf(s) ELSE groups[s].of[g]])
            /\ Tell(s)
            /\ Advance
    /\ UNCHANGED <<ports, channels, gem, loop, closing, forwarder, up, down,
                   stimuli, lease, expected, view, overtaken>>

RemoveGroupAddress ==
    /\ api.at = "write" /\ api.call = "leave"
    /\ LET s == Head(api.rest) IN
       /\ Write(s, [g \in DOMAIN groups[s].of \ {api.group} |-> groups[s].of[g]])
       /\ Tell(s)
       /\ Advance
    /\ UNCHANGED <<ports, channels, gem, loop, closing, forwarder, up, down,
                   stimuli, lease, expected, view, overtaken>>

\* The goroutine that ChangeIgmpState starts sends the report.
SendIGMP(send) ==
    /\ send \in sends /\ send.what # "discover"
    /\ sends' = sends \ {send}
    /\ Sees(send.of, ReportType(send.what), send.vlan, send.group)
    /\ UNCHANGED <<ports, channels, gem, groups, loop, closing, forwarder,
                   handler, api, up, down, stimuli, lease, expected, joined,
                   panicked, overtaken>>

---------------------------------------------------------------------------

\* Everything but what VOLTHA and the API ask for.
Goroutine ==
    \/ InitializeService
    \/ \E u \in Unis : CloseService(u) \/ ForgetService(u)
    \/ \E s \in Services : SendDHCPDiscovery(s)
    \/ \E m \in up : UplinkPacketOut(m)
    \/ \E m \in down : OnuPacketOut(m)
    \/ Forward
    \/ \E u \in Unis, n \in Enables : Deliver(u, n)
    \/ \E s \in Services, n \in Enables :
        HandleDhcpPacket(s, n) \/ HandleIgmpPacket(s, n) \/ AnswerQuery(s, n)
    \/ CheckService \/ AddGroupAddress \/ RemoveGroupAddress
    \/ \E send \in sends : SendIGMP(send)

Stimulus ==
    \/ \E u \in Unis : UniEnable(u) \/ UniDisable(u)
    \/ \E s \in Services : handleFlowAdd(DhcpFlow(s)) \/ handleFlowAdd(DataFlow(s))
    \/ \E u \in Unis, v \in {Catalog[s].ctag : s \in Services} :
        PacketOut(Query(v), PortOf(u)) \/ PacketOut(Query(v), Multicast)
    \/ \E u \in Unis : PacketOut(Ping, PortOf(u)) \/ PacketOut(Unknown, PortOf(u))
    \/ \E u \in Unis, call \in Calls, g \in GroupsUsed, v \in Vlans :
        ChangeIgmpState(u, call, g, v)

\* A panic ends the process.
Next == ~panicked /\ (Goroutine \/ Stimulus)

Spec == Init /\ [][Next]_vars

---------------------------------------------------------------------------

\* No goroutine can go on: each is idle, or blocked for good.
Settled ==
    /\ api = Idle /\ sends = {} /\ up = {} /\ loop.at # "initialize"
    /\ loop = Idle => down = {}
    /\ loop.at = "send" =>
        LET u == Head(loop.rest) IN \A n \in 1..enables[u] : forwarder[u][n] # Idle
    /\ \A u \in Unis : closing[u] = <<>>
    /\ \A u \in Unis, n \in Enables :
        LET job == forwarder[u][n]
        IN  job.at = "send" => <<Head(job.rest), job.on>> \notin open
    /\ \A s \in Services, n \in Enables : handler[s][n] = Idle

\* Types of the ports, the services, their channels and their goroutines.
TypeOK ==
    /\ oper \in [Unis -> {"up", "down"}] /\ enables \in [Unis -> 0..MaxEnables]
    /\ \A u \in Unis : portNo[u] \in {0, PortOf(u)}
    /\ internal \in [Services -> {"created", "initialized", "disabled"}]
    /\ chan \in [Services -> 0..MaxEnables] /\ open \subseteq Services \X Enables
    /\ \A s \in Services : gem[s] \in {0, GemOf(s)}
    /\ \A s \in Services : DOMAIN groups[s].of \subseteq GroupsUsed
    /\ loop.at \in {"idle", "initialize", "send", "stuck"}
    /\ api.at \in {"idle", "check", "write"}
    /\ \A u \in Unis, n \in Enables : forwarder[u][n].at \in {"idle", "send"}
    /\ \A s \in Services, n \in Enables : handler[s][n].at \in {"idle", "next", "range"}
    /\ stimuli \in 0..MaxStimuli /\ expected \subseteq Services
    /\ panicked \in BOOLEAN /\ overtaken \in Overtakers \cup {"nothing"}

\* A client that sent its discovery ends up with the address the server makes
\* of its own MAC address, and no two clients with the same one: its packets
\* get the tags the NNI needs, and the answers come back through the port, the
\* UNI and the MAC address to the very service, while the others' do not.
\* What it sends goes on its own GEM port.  (Not so for the management service
\* of an FTTB unit, whose flow carries its S-tag while addGemPortToService
\* looks for the C-tag; nor if the UNI is disabled during the exchange, or the
\* loop is blocked by a packet for a UNI that is down.)
Leased ==
    /\ TypeOK
    /\ overtaken # "disable" =>
        \A m \in up : \A s \in Services :
            Mac(s) = m.pkt.src /\ ~Catalog[s].dpu => m.gem = GemOf(s)
    /\ overtaken \notin {"stray", "disable"} /\ Settled /\ ~panicked =>
        \A s \in expected : lease[s] = createIpFromMacAddress(Mac(s))
    /\ \A s, r \in Services : lease[s] = lease[r] /\ lease[s] # <<>> => s = r

\* The groups of a service are the ones that API callers joined since its UNI
\* went up, and once the reports are sent they are the ones VOLTHA knows of,
\* with their VLANs: the reports are serialised with checksums that verify,
\* and the answers to queries add nothing and take nothing away.  (The report
\* of one call may overtake that of the next, and the answer to a query that
\* of a leave; a call that overlaps the disabling of the UNI may put a group
\* into the map that Disable has just dropped.)
MembershipsAgree ==
    \A s \in Services :
        /\ overtaken # "disable" /\ closing[Catalog[s].uni] = <<>> =>
            groups[s].of = joined[s]
        /\ Settled /\ overtaken \notin {"stray", "disable", "call", "packet"} =>
            view[s] = {[group |-> g, vlan |-> groups[s].of[g]] : g \in DOMAIN groups[s].of}

\* Neither the loop of the ONU nor a goroutine of a UNI is blocked for good by
\* a packet: there is a receiver for each, as long as no UNI is disabled with
\* packets on their way and VOLTHA sends none to a UNI that is down.  Nor does
\* one panic, on a closed channel or on a map of groups that is nil or being
\* ranged over, unless a call, a packet or the disabling overlaps another.
Delivered ==
    /\ panicked => overtaken \in {"stray", "disable", "call", "packet"}
    /\ Settled /\ ~panicked /\ overtaken \notin {"stray", "disable"} => Quiet

\* findUniWithIgmpMembership: a packet for the multicast GEM port goes to the
\* UNIs that are up and have memberships, and to no other.
MulticastToMembers ==
    loop.at = "send" /\ loop.msg.port = Multicast =>
        Range(loop.rest) \subseteq Range(findUniWithIgmpMembership)
====
