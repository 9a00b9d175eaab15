------------------------------- MODULE Frames -------------------------------
(***************************************************************************)
(* The packets of a subscriber, as the packet handlers and the responders  *)
(* see them: the layers gopacket finds, the two MAC addresses, the VLAN    *)
(* tags (outermost first) and what the DHCP or the IGMP layer says.        *)
(***************************************************************************)
EXTENDS Naturals, Sequences, SequencesExt

None == [what |-> "none"]

Packet(layers, src, dst, says) ==
    [layers |-> layers, src |-> src, dst |-> dst, tags |-> <<>>, says |-> says]

Broadcast == <<255, 255, 255, 255, 255, 255>>
ServerMac == <<170, 187, 204, 221, 238, 255>>

---------------------------------------------------------------------------
(* packetHandlers/filters.go.                                              *)

IsDhcpPacket(pkt) == "DHCPv4" \in pkt.layers
IsIgmpPacket(pkt) == "IGMP" \in pkt.layers
IsIcmpPacket(pkt) == "ICMPv6" \in pkt.layers

GetPktType(pkt) ==
    IF {"EAP", "EAPOL"} \cap pkt.layers # {} THEN "EAPOL"
    ELSE IF IsDhcpPacket(pkt) THEN "DHCP"
    ELSE IF IsIgmpPacket(pkt) THEN "IGMP"
    ELSE IF IsIcmpPacket(pkt) THEN "ICMP"
    ELSE "UNKNOWN"

---------------------------------------------------------------------------
(* packetHandlers/packet_tags.go.                                          *)

VlanMax == 4095

\* What gopacket makes of a frame whose serialisation broke off: the error is
\* dropped, and the bytes written so far are read as a frame.
Garbage == Packet({}, <<>>, <<>>, None)

PushSingleTag(tag, pkt) ==
    IF tag > VlanMax THEN Garbage
    ELSE [pkt EXCEPT !.tags = <<tag>> \o @, !.layers = @ \cup {"Dot1Q"}]

PushDoubleTag(stag, ctag, pkt) == PushSingleTag(stag, PushSingleTag(ctag, pkt))

\* PopSingleTag fails on a packet without a tag.
PopSingleTag(pkt) ==
    [pkt EXCEPT !.tags = Tail(@),
                !.layers = IF Len(pkt.tags) = 1 THEN @ \ {"Dot1Q"} ELSE @]

\* The outer tag and the inner one, which is 0 if there is none.
GetTagsFromPacket(pkt) ==
    [outer |-> Head(pkt.tags), inner |-> IF Len(pkt.tags) = 1 THEN 0 ELSE pkt.tags[2]]

---------------------------------------------------------------------------
(* responders/dhcp: the client's packets.                                  *)

Digits(b) ==
    IF b < 10 THEN <<b>>
    ELSE IF b < 100 THEN <<b \div 10, b % 10>>
    ELSE <<b \div 100, (b \div 10) % 10, b % 10>>

\* The decimal numbers of the six bytes, written one after the other and cut to
\* 32 bits, in two halves of 16.  The result is not unique, and nobody reads it.
macAddressToTxId(mac) ==
    FoldLeft(LAMBDA half, d :
                 LET low == half[2] * 10 + d
                 IN  <<(half[1] * 10 + low \div 65536) % 65536, low % 65536>>,
             <<0, 0>>, FlattenSeq([i \in 1..Len(mac) |-> Digits(mac[i])]))

createDefaultDHCPReq(type, mac, gem) ==
    [what |-> type, op |-> "request", xid |-> macAddressToTxId(mac), mac |-> mac,
     ip |-> <<>>, host |-> gem]

createDHCPDisc(gem, mac) == createDefaultDHCPReq("discover", mac, gem)

createDHCPReq(gem, mac, offeredIp) ==
    [createDefaultDHCPReq("request", mac, gem) EXCEPT !.ip = offeredIp]

serializeDHCPPacket(tag, mac, dhcp) ==
    PushSingleTag(tag, Packet({"DHCPv4"}, mac, Broadcast, dhcp))

---------------------------------------------------------------------------
(* responders/dhcp: the server behind the NNI.  It keeps no state.         *)

Byte == 256

createIpFromMacAddress(mac) == <<(10 + mac[3]) % Byte, mac[4], mac[5], mac[6]>>

createDefaultDhcpReply(type, request) ==
    [request EXCEPT !.what = type, !.op = "reply",
                    !.ip = createIpFromMacAddress(request.mac)]

serializeServerDHCPPacket(dhcp) == Packet({"DHCPv4"}, ServerMac, dhcp.mac, dhcp)

\* The tags of the request go onto the answer, an inner tag of 0 excepted.
Retag(tags, pkt) ==
    IF tags.inner # 0 THEN PushDoubleTag(tags.outer, tags.inner, pkt)
    ELSE PushSingleTag(tags.outer, pkt)

handleDiscover(pkt) ==
    Retag(GetTagsFromPacket(pkt),
          serializeServerDHCPPacket(createDefaultDhcpReply("offer", pkt.says)))

handleRequest(pkt) ==
    Retag(GetTagsFromPacket(pkt),
          serializeServerDHCPPacket(createDefaultDhcpReply("ack", pkt.says)))

\* The server answers only these, and fails on a packet without a tag.
Answerable(pkt) ==
    /\ IsDhcpPacket(pkt)
    /\ pkt.says.what \in {"discover", "request"}
    /\ pkt.tags # <<>>

HandleServerPacket(pkt) ==
    IF pkt.says.what = "discover" THEN handleDiscover(pkt) ELSE handleRequest(pkt)

---------------------------------------------------------------------------
(* responders/igmp: the bytes of a report, and their checksum.             *)

IGMPMembershipReportV2 == 22
IGMPMembershipReportV3 == 34
IGMPLeaveGroup == 23

\* A group record of type IGMPIsEx without sources.
GroupRecord(group) == <<2, 0, 0, 0>> \o group

\* The Internet checksum, as pairs of bytes folded into sixteen bits.
FoldCarry(sum) == (sum \div 65536) + (sum % 65536)

tcpipChecksum(data) ==
    LET Even == IF Len(data) % 2 = 1 THEN Append(data, 0) ELSE data
        sum == FoldLeft(LAMBDA acc, i : acc + Even[2 * i - 1] * Byte + Even[2 * i],
                        0, [i \in 1..(Len(Even) \div 2) |-> i])
    IN  65535 - FoldCarry(FoldCarry(sum))

WithChecksum(data) ==
    LET csum == tcpipChecksum(data)
    IN  [data EXCEPT ![3] = csum \div Byte, ![4] = csum % Byte]

\* The padding that follows is zero and adds nothing to the sum.
SerializeTo(type, group) ==
    IF type = IGMPMembershipReportV3
    THEN WithChecksum(<<type, 0, 0, 0, 0, 0, 0, 1>> \o GroupRecord(group))
    ELSE WithChecksum(<<type, IF type = IGMPLeaveGroup THEN 1 ELSE 0, 0, 0>> \o group)

\* A version 3 report goes to all routers that speak it, the others to the group.
Destination(type, group) ==
    IF type = IGMPMembershipReportV3 THEN <<224, 0, 0, 22>> ELSE group

serializeIgmpPacket(tag, mac, type, group) ==
    PushSingleTag(tag, Packet({"IGMP"}, mac, Broadcast,
        [what |-> "report", to |-> Destination(type, group),
         bytes |-> SerializeTo(type, group)]))
====
