--------------------------- MODULE PacketHeaders ---------------------------
(***************************************************************************)
(* The table of headers of a packet.  A script describes a packet as a     *)
(* transport packet behind any number of encapsulating headers; the tool   *)
(* builds it inside out (new_tcp_packet() and its kin, ..._header_append(),*)
(* packet_encapsulate()) and injects it.  What the kernel sends is sniffed *)
(* and parsed outside in (netdev_receive_loop(), parse_packet()).  Both    *)
(* directions fill in the same table, which run_packet.c compares header   *)
(* by header.                                                              *)
(*                                                                         *)
(* Bytes are abstracted to the fields that the lengths, the protocols and  *)
(* the verdict of the parser depend on: a buffer is the sequence of the    *)
(* fields of its headers ("bits"), a checksum is the pair of the values it *)
(* was computed from, a protocol number is the type of header it announces.*)
(***************************************************************************)
EXTENDS Integers, Sequences, FiniteSets

CONSTANTS
    Descriptions,       \* the transport packets that scripts describe
    GreLengths,         \* lengths of GRE headers, by their optional fields
    MplsEntries,        \* numbers of labels in an MPLS stack
    MaxOuter,           \* bound on the headers in front
    Noise,              \* frames of other traffic on the device
    MaxFrames,          \* bound on the frames that pass during one receive
    PACKET_MAX_HEADERS  \* rows of the table (6 in packet.h)

ASSUME HeadersAssumption ==
    /\ MaxOuter \in Nat /\ MaxFrames \in Nat
    /\ PACKET_MAX_HEADERS \in Nat \ {0, 1}
    /\ GreLengths \subseteq Nat \ (0 .. 3) /\ MplsEntries \subseteq Nat \ {0}
    /\ \A f \in Noise : f.src # "kernel"
    /\ \A d \in Descriptions :
          /\ d.family \in {"IPV4", "IPV6"} /\ d.type \in {"TCP", "UDP", "ICMP"}
          /\ d.options \in Nat /\ d.payload \in Nat

VARIABLES
    pc,         \* what the tool does
    onWire,     \* is this the wire server (Ethernet), or a local tun device?
    desc,       \* history: what the script says, [outer, inner]
    outer,      \* struct packet of the prefix
    pkt,        \* struct packet of the script packet
    sent,       \* the datagram injected, or None
    capture,    \* frames in the buffer of the packet socket
    tun,        \* outbound packets that nobody has read from the tun device
    passed,     \* history: frames that went by so far
    frame,      \* the frame being parsed
    live,       \* struct packet being filled in by the parser
    at,         \* where in the buffer the parser is
    want,       \* the header that the parser goes to next
    left,       \* layer4_bytes
    result,     \* enum packet_parse_result_t
    num_packets \* packets that netdev_receive_loop() has counted

script == <<desc, outer, pkt, sent>>
parser == <<frame, live, at, want, left, result, num_packets>>
device == <<capture, tun, passed>>
vars == <<pc, onWire, script, device, parser>>

None == "none"
U16 == 65536
EtherBytes == 14
PACKET_MAX_HEADER_BYTES == 256
MAX_DATAGRAM_BYTES == 64 * 1024

IpTypes == {"IPV4", "IPV6"}
L4Types == {"TCP", "UDP", "ICMPV4", "ICMPV6"}

\* The smallest header of each type.
HeaderBytes == [t \in IpTypes \cup L4Types \cup {"GRE", "MPLS"} |->
    CASE t \in {"IPV4", "TCP"} -> 20 [] t = "IPV6" -> 40
      [] t \in {"UDP", "ICMPV4", "ICMPV6"} -> 8 [] OTHER -> 4]

\* header_types: the codes that announce a header to IP and to Ethernet.
IpProto(t) == IF t = "MPLS" THEN None ELSE t
EthProto(t) == IF t \in IpTypes \cup {"MPLS"} THEN t ELSE None

NoSum == <<0, None>>
Fields(t, n) == [type |-> t, bytes |-> n, tot |-> 0, proto |-> None, sum |-> NoSum, flag |-> "ok"]

PacketNew(n) == [buf |-> n, l2 |-> 0, ip |-> 0, headers |-> <<>>, bits |-> <<>>, l3 |-> None]

----------------------------------------------------------------------------
\* Building: the transport packet.

\* packet_append_header: NULL when the table or the buffer is full.
CanAppendAlways(p, n) == p.ip + n <= p.buf
CanAppend(p, n) == Len(p.headers) < PACKET_MAX_HEADERS /\ p.ip + n <= p.buf
AppendHeader(p, t, n, total) ==
    [p EXCEPT !.headers = Append(@, [type |-> t, at |-> p.l2 + p.ip, bytes |-> n, total |-> total]),
              !.ip = @ + n]

L4Type(d) == IF d.type # "ICMP" THEN d.type ELSE IF d.family = "IPV4" THEN "ICMPV4" ELSE "ICMPV6"
L4Header(d) == HeaderBytes[L4Type(d)] + (IF d.type = "TCP" THEN d.options ELSE 0)

\* An ICMP message echoes an IP header and 8 bytes behind it, or is padding.
IcmpBytes(d) == IF d.echo THEN HeaderBytes[L4Type(d)] + HeaderBytes[d.family] + 8 ELSE d.payload
L4Bytes(d) == IF d.type = "ICMP" THEN IcmpBytes(d) ELSE L4Header(d) + d.payload
IpBytes(d) == HeaderBytes[d.family] + L4Bytes(d)

\* set_packet_ip_header: the length is passed as a u16.
SetIpHeader(p, family, n, proto) ==
    LET total == n % U16
    IN  [AppendHeader(p, family, HeaderBytes[family], total) EXCEPT
           !.l3 = 0,
           !.bits = <<[Fields(family, HeaderBytes[family]) EXCEPT
                         !.tot = IF family = "IPV4" THEN total ELSE total - 40, !.proto = proto]>>]
\* assert(ip_bytes >= sizeof(*ipv6)) in set_ipv6_header
IpHeaderAsserts(family, n) == family = "IPV6" => n % U16 >= 40

\* The IP header, the header of layer 4 behind it, and room for the payload.
Transport(d, f) ==
    LET p == AppendHeader(SetIpHeader(PacketNew(IpBytes(d)), d.family, IpBytes(d), L4Type(d)),
                          L4Type(d), L4Header(d), L4Bytes(d))
    IN  [p EXCEPT !.bits = Append(@, f), !.ip = IpBytes(d)]
Refused == [pc |-> "refused", pkt |-> PacketNew(0)]
Built(d, f) ==
    IF IpHeaderAsserts(d.family, IpBytes(d)) THEN [pc |-> "prefix", pkt |-> Transport(d, f)]
    ELSE [pc |-> "died", pkt |-> PacketNew(0)]

NewTcpPacket(d) ==
    IF d.options % 4 # 0 \/ L4Header(d) > 60 \/ IpBytes(d) > MAX_DATAGRAM_BYTES \/ ~d.legal THEN Refused
    ELSE Built(d, Fields("TCP", L4Header(d)))

NewUdpPacket(d) ==
    IF IpBytes(d) > MAX_DATAGRAM_BYTES THEN Refused
    ELSE Built(d, [Fields("UDP", L4Header(d)) EXCEPT !.tot = L4Bytes(d) % U16])

\* Names of codes are known for a few types only, never for numbered types.
BadTypeOrCode(d) ==
    \/ d.icmp.type = "unknown" \/ d.icmp.code = "unknown"
    \/ d.icmp.code = "named" /\ d.icmp.type # "with codes"
BadMtu(d) == d.icmp.mtu # None /\ ~(d.icmp.type = "with codes" /\ d.icmp.code = "named" /\ d.icmp.mtu = "fits")
NewIcmpPacket(d) ==
    IF IcmpBytes(d) < HeaderBytes[L4Type(d)] \/ BadTypeOrCode(d) THEN Refused
    ELSE IF IpHeaderAsserts(d.family, IpBytes(d)) /\ BadMtu(d) THEN Refused
    ELSE Built(d, Fields(L4Type(d), L4Header(d)))

NewPacket(d) ==
    CASE d.type = "TCP" -> NewTcpPacket(d) [] d.type = "UDP" -> NewUdpPacket(d) [] OTHER -> NewIcmpPacket(d)

----------------------------------------------------------------------------
\* Building: the headers in front.

\* ..._header_finish: what a header learns from the one inside it.
FinishIpv4(h, f, next) ==
    LET n == HeaderBytes["IPV4"] + next.total
        pr == IpProto(next.type)
    IN  [header |-> [h EXCEPT !.total = n],
         field |-> [f EXCEPT !.tot = n % U16, !.proto = pr, !.sum = <<n % U16, pr>>]]
FinishIpv6Whole(h, f, next) ==
    LET n == HeaderBytes["IPV6"] + next.total
    IN  [header |-> [h EXCEPT !.total = n], field |-> [f EXCEPT !.tot = n % U16, !.proto = IpProto(next.type)]]
FinishIpv6(h, f, next) ==
    [header |-> [h EXCEPT !.total = HeaderBytes["IPV6"] + next.total],
     field |-> [f EXCEPT !.tot = next.total % U16, !.proto = IpProto(next.type)]]
FinishGre(h, f, next) ==
    [header |-> [h EXCEPT !.total = f.bytes + next.total], field |-> [f EXCEPT !.proto = EthProto(next.type)]]
FinishMpls(h, f, next) ==
    [header |-> [h EXCEPT !.total = h.bytes + next.total], field |-> f]
Finish(h, f, next) ==
    CASE h.type = "IPV4" -> FinishIpv4(h, f, next) [] h.type = "IPV6" -> FinishIpv6(h, f, next)
      [] h.type = "GRE" -> FinishGre(h, f, next) [] h.type = "MPLS" -> FinishMpls(h, f, next)
      [] OTHER -> [header |-> h, field |-> f]

\* packet_finish_encapsulation_headers: from the innermost header outwards.
FinishHeaders(p) ==
    LET n == Len(p.headers)
        fin[i \in 1 .. n] ==
            IF i = n THEN [header |-> p.headers[n], field |-> p.bits[n]]
            ELSE Finish(p.headers[i], p.bits[i], fin[i + 1].header)
    IN  [p EXCEPT !.headers = [i \in 1 .. n |-> fin[i].header], !.bits = [i \in 1 .. n |-> fin[i].field]]
\* assert(next_inner->total_bytes <= 0xffff) in ipv6_header_finish
FinishAsserts(p) ==
    \A i \in 1 .. Len(p.headers) - 1 :
        p.headers[i].type = "IPV6" => FinishHeaders(p).headers[i + 1].total < U16

\* packet_copy_with_headroom and packet_encapsulate
Shifted(headers, n) == [i \in DOMAIN headers |-> [headers[i] EXCEPT !.at = @ + n]]
Joined(o, p) ==
    [p EXCEPT !.buf = o.ip + p.ip, !.headers = o.headers \o Shifted(@, o.ip), !.bits = o.bits \o @,
              !.l3 = @ + o.ip]
Encapsulated(o, p) == [FinishHeaders(Joined(o, p)) EXCEPT !.ip = o.ip + p.ip]

----------------------------------------------------------------------------
\* Injecting.

\* checksum_packet: the innermost IP header and what it carries.
Innermost(p) == CHOOSE i \in DOMAIN p.headers : p.headers[i].at = p.l3
CarriedBytes(p) ==
    LET f == p.bits[Innermost(p)] IN IF f.type = "IPV4" THEN f.tot - f.bytes ELSE f.tot
ChecksumAsserts(p) == CarriedBytes(p) > 0 /\ p.ip >= CarriedBytes(p)
Checksummed(p) ==
    LET i == Innermost(p)
        f == p.bits[i]
    IN  [p EXCEPT !.bits[i].sum = IF f.type = "IPV4" THEN <<f.tot, f.proto>> ELSE f.sum,
                  !.bits[i + 1].sum = <<CarriedBytes(p), f.proto>>]

Inject ==
    /\ pc = "built"
    /\ IF ChecksumAsserts(pkt)
       THEN sent' = [bits |-> Checksummed(pkt).bits, bytes |-> pkt.ip] /\ pc' = "injected"
       ELSE pc' = "died" /\ UNCHANGED sent
    /\ UNCHANGED <<onWire, desc, outer, pkt, device, parser>>

----------------------------------------------------------------------------
\* What a description means, whatever the code does: every header announces
\* the next one and reaches to the end of the datagram.

Stack == desc.outer \o << [type |-> desc.inner.family, bytes |-> HeaderBytes[desc.inner.family]],
                          [type |-> L4Type(desc.inner), bytes |-> L4Header(desc.inner)] >>
Payload == L4Bytes(desc.inner) - L4Header(desc.inner)

Offset(s, i) ==
    LET off[j \in 1 .. i] == IF j = 1 THEN 0 ELSE off[j - 1] + s[j - 1].bytes IN off[i]
Total(s, n, i) ==
    LET tot[j \in i .. Len(s)] == s[j].bytes + (IF j = Len(s) THEN n ELSE tot[j + 1]) IN tot[i]

Encoding(s, n) ==
    [i \in DOMAIN s |->
       LET t == s[i].type
           inside == IF i = Len(s) THEN None ELSE s[i + 1].type
       IN  [type |-> t, bytes |-> s[i].bytes, flag |-> "ok",
            tot |-> CASE t \in {"IPV4", "UDP"} -> Total(s, n, i) [] t = "IPV6" -> Total(s, n, i) - 40 [] OTHER -> 0,
            proto |-> IF t \in IpTypes \cup {"GRE"} THEN inside ELSE None,
            sum |-> CASE t = "IPV4" -> <<Total(s, n, i), inside>> [] t \in L4Types -> <<Total(s, n, i), t>>
                      [] OTHER -> NoSum]]
Table(s, n, l2) ==
    [i \in DOMAIN s |-> [type |-> s[i].type, at |-> l2 + Offset(s, i), bytes |-> s[i].bytes, total |-> Total(s, n, i)]]

\* Datagrams whose protocols have numbers to say what follows, and that fit.
Follows(t, u) ==
    CASE t \in IpTypes -> u # "MPLS" [] t = "GRE" -> u \in IpTypes \cup {"MPLS"} [] OTHER -> u \in IpTypes
Expressible(s) == \A i \in 1 .. Len(s) - 1 : Follows(s[i].type, s[i + 1].type)
Sensible(s, n) == Expressible(s) /\ s[1].type \in IpTypes /\ Total(s, n, 1) < U16

\* script.y, which is not under src/, calls the builders in this order.
Begin(d) ==
    /\ pc = "script"
    /\ desc' = [desc EXCEPT !.inner = d]
    /\ pc' = NewPacket(d).pc /\ pkt' = NewPacket(d).pkt
    /\ UNCHANGED <<onWire, outer, sent, device, parser>>

\* A header in front, with the fields it has until packet_encapsulate.
HeaderAppend(f, legal) ==
    /\ pc = "prefix" /\ Len(outer.headers) < MaxOuter
    /\ desc' = [desc EXCEPT !.outer = Append(@, [type |-> f.type, bytes |-> f.bytes])]
    /\ IF CanAppend(outer, f.bytes) /\ legal
       THEN outer' = [AppendHeader(outer, f.type, f.bytes, 0) EXCEPT !.bits = Append(@, f)] /\ UNCHANGED pc
       ELSE pc' = "refused" /\ UNCHANGED outer
    /\ UNCHANGED <<onWire, pkt, sent, device, parser>>
Ipv4HeaderAppend(addresses) == HeaderAppend(Fields("IPV4", HeaderBytes["IPV4"]), addresses)
Ipv6HeaderAppend(addresses) == HeaderAppend(Fields("IPV6", HeaderBytes["IPV6"]), addresses)
GreHeaderAppend(n) == HeaderAppend(Fields("GRE", n), TRUE)
MplsHeaderAppend(entries) == HeaderAppend(Fields("MPLS", 4 * entries), TRUE)

\* packet_encapsulate, for descriptions that have a prefix
Encapsulate ==
    /\ pc = "prefix"
    /\ IF outer.headers = <<>> THEN pc' = "built" /\ UNCHANGED pkt
       ELSE IF Len(outer.headers) + Len(pkt.headers) > PACKET_MAX_HEADERS \/ ~FinishAsserts(Joined(outer, pkt))
       THEN pc' = "died" /\ UNCHANGED pkt
       ELSE pc' = "built" /\ pkt' = Encapsulated(outer, pkt)
    /\ UNCHANGED <<onWire, desc, outer, sent, device, parser>>

----------------------------------------------------------------------------
\* Frames: datagrams of the kernel under test as the packet socket sees them,
\* whole or cut short, padded, fragmented, or with a field that is wrong.

Frame(s, n, bits, bytes, means) ==
    [src |-> "kernel", ether |-> s[1].type, stack |-> s, payload |-> n, bits |-> bits, in |-> bytes, means |-> means]
Intact(s, n) == Frame(s, n, Encoding(s, n), Total(s, n, 1), "OK")
Padded(s, n) == [Intact(s, n) EXCEPT !.in = @ + 6]
WithOptions(s, i) == [s EXCEPT ![i].bytes = @ + 4]
Tunnelled(s) == <<[type |-> "IPV4", bytes |-> 20]>> \o s

CutPoints(s, n) ==
    {Offset(s, i) : i \in DOMAIN s} \cup {Offset(s, i) + 19 : i \in DOMAIN s} \cup {Total(s, n, 1) - 1}
        \cup (IF onWire THEN {-1} ELSE {})
Cut(s, n) == {[Intact(s, n) EXCEPT !.in = k, !.means = "BAD"] : k \in {c \in CutPoints(s, n) : c < Total(s, n, 1)}}

\* One wrong field in header i: values that no datagram may have there.
ReadThroughVersion(s, i) == i = 1 \/ s[i - 1].type \in {"GRE", "MPLS"}
Truncated(s, i) == s[i + 1].type \in {"TCP", "GRE"}
Sums(f, tot, proto) == [f EXCEPT !.tot = tot, !.proto = proto, !.sum = <<tot, proto>>]
WrongIpv4(f, s, i) ==
    {[f EXCEPT !.bytes = 16], [f EXCEPT !.flag = "more"], [f EXCEPT !.flag = "offset"],
     [f EXCEPT !.sum = NoSum], Sums(f, f.tot + 8, f.proto), Sums(f, 16, f.proto)}
        \cup (IF Truncated(s, i) THEN {Sums(f, f.bytes + 2, f.proto)} ELSE {})
WrongIpv6(f, s, i) ==
    {[f EXCEPT !.tot = @ + 8]} \cup (IF Truncated(s, i) THEN {[f EXCEPT !.tot = 2]} ELSE {})
WrongFields(s, n, i) ==
    LET f == Encoding(s, n)[i]
    IN  (CASE f.type = "IPV4" -> WrongIpv4(f, s, i)
           [] f.type = "IPV6" -> WrongIpv6(f, s, i)
           [] f.type = "GRE" -> {[f EXCEPT !.flag = "version"], [f EXCEPT !.flag = "routing"]}
           [] f.type = "TCP" -> {[f EXCEPT !.bytes = 16]} \cup (IF n < 40 THEN {[f EXCEPT !.bytes = @ + 40]} ELSE {})
           [] f.type = "UDP" -> {[f EXCEPT !.tot = 4], [f EXCEPT !.tot = @ + 1], [f EXCEPT !.tot = @ - 1]}
           [] OTHER -> {})
        \cup (IF f.type \in IpTypes /\ ReadThroughVersion(s, i) THEN {[f EXCEPT !.flag = "version"]} ELSE {})
Foreign(s, n, i) ==
    LET f == Encoding(s, n)[i]
    IN  CASE f.type = "IPV4" -> {Sums(f, f.tot, "other")}
          [] f.type \in {"IPV6", "GRE"} -> {[f EXCEPT !.proto = "other"]}
          [] OTHER -> {}

Spoilt(s, n, fields, means) ==
    {Frame(s, n, [Encoding(s, n) EXCEPT ![w[1]] = w[2]], Total(s, n, 1), means) :
        w \in UNION {{<<i, f>> : f \in fields[i]} : i \in DOMAIN s}}
Frames(s, n) ==
    {Intact(s, n), Padded(s, n)} \cup Cut(s, n)
        \cup {Intact(WithOptions(s, i), n) : i \in {j \in DOMAIN s : s[j].type = "IPV4"}}
        \cup (IF s[1].type \in IpTypes THEN {Intact(Tunnelled(s), n)} ELSE {})
        \cup Spoilt(s, n, [i \in DOMAIN s |-> WrongFields(s, n, i)], "BAD")
        \cup Spoilt(s, n, [i \in DOMAIN s |-> Foreign(s, n, i)], "UNKNOWN_L4")
        \cup (IF onWire THEN {[Intact(s, n) EXCEPT !.ether = "other", !.means = "UNKNOWN_L4"]} ELSE {})

\* On Ethernet a stack of labels may come first; on a tun device it cannot.
Sniffable(s, n) ==
    /\ Expressible(s) /\ Total(s, n, 1) < U16 - 24
    /\ s[1].type \in IpTypes \cup (IF onWire THEN {"MPLS"} ELSE {})

----------------------------------------------------------------------------
\* Receiving: netdev_receive_loop.

Receive ==
    /\ pc = "built" /\ pc' = "receiving"
    /\ UNCHANGED <<onWire, script, device, parser>>

\* Frames queue up for the packet socket; those that the kernel sends through
\* the tun device are queued there as well.  The parser shares nothing with
\* the device: what comes while it works is as if it came just after.
Listening == pc \in {"receiving", "drain"} /\ passed < MaxFrames
FrameArrives(f) ==
    /\ capture' = Append(capture, f) /\ passed' = passed + 1
    /\ tun' = IF f.src = "kernel" /\ ~onWire THEN tun + 1 ELSE tun
    /\ UNCHANGED <<pc, onWire, script, parser>>
KernelSends ==
    /\ Listening /\ Sniffable(Stack, Payload)
    /\ \E f \in Frames(Stack, Payload) : FrameArrives(f)
OthersSend == Listening /\ \E f \in Noise : FrameArrives(f)

Idle == [who |-> "nobody", proto |-> None]
Goes(who, proto) == want' = [who |-> who, proto |-> proto]

\* packet_socket_receive: frames of other directions and devices are not ours.
OursOrOwn(f) == f.src # "elsewhere"
Ours(f) == f.src = "kernel"
PACKET_READ_BYTES == 64 * 1024
PacketSocketReceive ==
    /\ pc = "receiving" /\ capture # <<>>
    /\ capture' = Tail(capture)
    /\ IF Ours(Head(capture))
       THEN /\ pc' = "parsing" /\ num_packets' = num_packets + 1
            /\ frame' = Head(capture)
            /\ live' = PacketNew(PACKET_READ_BYTES) /\ at' = 0 /\ left' = 0
            /\ Goes(IF onWire THEN "layer2" ELSE "layer3", None)
            /\ UNCHANGED result
       ELSE UNCHANGED <<pc, parser>>
    /\ UNCHANGED <<onWire, script, tun, passed>>

\* The IP headers already passed know their length once the rest is parsed:
\* the innermost is the primary one, the outermost gives the packet its length.
ParsedIps == {i \in DOMAIN live.headers : live.headers[i].type \in IpTypes}
InnermostIp == CHOOSE i \in ParsedIps : \A j \in ParsedIps : j <= i
OutermostIp == CHOOSE i \in ParsedIps : \A j \in ParsedIps : i <= j
IsOuter(h) == h.at = live.l2
UnwoundTo(i) ==
    LET outermost == live.headers[OutermostIp]
    IN  [live EXCEPT !.l3 = live.headers[i].at,
                     !.ip = IF IsOuter(outermost) THEN outermost.total ELSE live.ip]
UnwoundFirst == IF ParsedIps = {} THEN live ELSE UnwoundTo(OutermostIp)
Unwound == IF ParsedIps = {} THEN live ELSE UnwoundTo(InnermostIp)

\* A packet of an unknown protocol is dropped, the loop goes on.
Concludes(r) ==
    /\ result' = r
    /\ pc' = IF r = "UNKNOWN_L4" THEN "receiving" ELSE IF onWire THEN "returned" ELSE "drain"
    /\ live' = IF r = "OK" THEN Unwound ELSE PacketNew(0)
    /\ want' = Idle
    /\ UNCHANGED <<frame, at, left, num_packets>>

\* local_netdev_read_queue reads from the tun device what has been sniffed.
ReadQueue ==
    /\ pc = "drain" /\ tun >= num_packets
    /\ tun' = tun - num_packets /\ pc' = "returned"
    /\ UNCHANGED <<onWire, script, capture, passed, parser>>

----------------------------------------------------------------------------
\* Parsing.

PacketEnd == frame.in + (IF onWire THEN EtherBytes ELSE 0)
Fits(n) == at + n <= PacketEnd
HereAt == CHOOSE i \in DOMAIN frame.stack : live.l2 + Offset(frame.stack, i) = at
Here == frame.bits[HereAt]

\* The parser moves past a header and goes on to what it carries.
Advances(t, n, total, who, proto) ==
    /\ live' = AppendHeader(live, t, n, total)
    /\ at' = at + n /\ left' = total - n
    /\ Goes(who, proto)
    /\ UNCHANGED <<pc, frame, result, num_packets>>
Parsing(who, t) == pc = "parsing" /\ want.who = who /\ (t # None => want.proto = t)

ParseLayer2 ==
    /\ Parsing("layer2", None)
    /\ IF ~Fits(EtherBytes) THEN Concludes("BAD")
       ELSE /\ at' = at + EtherBytes /\ live' = [live EXCEPT !.l2 = EtherBytes]
            /\ Goes("proto", frame.ether)
            /\ UNCHANGED <<pc, frame, left, result, num_packets>>
    /\ UNCHANGED <<onWire, script, device>>

GoesOn(t) == Goes("header", t) /\ UNCHANGED <<pc, frame, live, at, left, result, num_packets>>

ParseLayer3 ==
    /\ Parsing("layer3", None)
    /\ IF ~Fits(HeaderBytes["IPV4"]) THEN Concludes("BAD")
       ELSE IF Here.flag = "version" THEN Concludes("BAD")
       ELSE GoesOn(Here.type)
    /\ UNCHANGED <<onWire, script, device>>

ParseLayer3ByProto ==
    /\ Parsing("proto", None)
    /\ CASE want.proto \in IpTypes ->
              IF ~Fits(HeaderBytes[want.proto]) THEN Concludes("BAD")
              ELSE IF Here.flag = "version" THEN Concludes("BAD") ELSE GoesOn(want.proto)
         [] want.proto = "MPLS" -> GoesOn("MPLS")
         [] OTHER -> Concludes("UNKNOWN_L4")
    /\ UNCHANGED <<onWire, script, device>>

\* parse_layer4: a datagram inside a datagram goes straight to parse_ipv4 or
\* parse_ipv6, which do not look at the version.
ParseLayer4 ==
    /\ Parsing("layer4", None)
    /\ IF want.proto \in L4Types \cup IpTypes \cup {"GRE"} THEN GoesOn(want.proto)
       ELSE Concludes("UNKNOWN_L4")
    /\ UNCHANGED <<onWire, script, device>>

\* Of a header that lies behind the end parse_ipv4 reads the length field
\* first; whatever it finds, the header does not fit.
BadIpv4ButOffset(f) ==
    \/ f.bytes < HeaderBytes["IPV4"] \/ ~Fits(f.bytes)
    \/ ~Fits(f.tot) \/ f.bytes > f.tot
    \/ f.flag = "more"
    \/ f.sum # <<f.tot, f.proto>>
    \/ ~CanAppend(live, f.bytes)
BadIpv4(f) ==
    \/ f.bytes < HeaderBytes["IPV4"] \/ ~Fits(f.bytes)
    \/ ~Fits(f.tot) \/ f.bytes > f.tot
    \/ f.flag \in {"more", "offset"}
    \/ f.sum # <<f.tot, f.proto>>
    \/ ~CanAppend(live, f.bytes)
ParseIpv4 ==
    /\ Parsing("header", "IPV4")
    /\ IF BadIpv4(Here) THEN Concludes("BAD") ELSE Advances("IPV4", Here.bytes, Here.tot, "layer4", Here.proto)
    /\ UNCHANGED <<onWire, script, device>>

BadIpv6(f) == ~Fits(40) \/ ~Fits(40 + f.tot) \/ ~CanAppend(live, 40)
ParseIpv6 ==
    /\ Parsing("header", "IPV6")
    /\ IF BadIpv6(Here) THEN Concludes("BAD") ELSE Advances("IPV6", 40, 40 + Here.tot, "layer4", Here.proto)
    /\ UNCHANGED <<onWire, script, device>>

BadGre(f) ==
    \/ left < 4 \/ f.flag \in {"version", "routing"}
    \/ f.bytes < 4 \/ f.bytes > left
    \/ ~CanAppend(live, f.bytes)
ParseGre ==
    /\ Parsing("header", "GRE")
    /\ IF BadGre(Here) THEN Concludes("BAD") ELSE Advances("GRE", Here.bytes, left, "proto", Here.proto)
    /\ UNCHANGED <<onWire, script, device>>

\* The entries up to the bottom of the stack; the total is all that was read.
BadMpls(f) == ~Fits(f.bytes) \/ ~CanAppend(live, f.bytes)
ParseMpls ==
    /\ Parsing("header", "MPLS")
    /\ IF BadMpls(Here) THEN Concludes("BAD") ELSE Advances("MPLS", Here.bytes, PacketEnd - at, "layer3", None)
    /\ UNCHANGED <<onWire, script, device>>

\* A transport header ends the parse.
Ends(t, n) ==
    /\ live' = AppendHeader(live, t, n, left) /\ Goes("done", t)
    /\ UNCHANGED <<pc, frame, at, left, result, num_packets>>
BadTcp(f) ==
    \/ left < HeaderBytes["TCP"]
    \/ f.bytes < HeaderBytes["TCP"] \/ f.bytes > left
    \/ ~CanAppend(live, f.bytes)
ParseTcp ==
    /\ Parsing("header", "TCP")
    /\ IF BadTcp(Here) THEN Concludes("BAD") ELSE Ends("TCP", Here.bytes)
    /\ UNCHANGED <<onWire, script, device>>
BadUdp(f) ==
    \/ left < HeaderBytes["UDP"]
    \/ f.tot < HeaderBytes["UDP"] \/ f.tot < left \/ f.tot > left
    \/ ~CanAppend(live, HeaderBytes["UDP"])
ParseUdp ==
    /\ Parsing("header", "UDP")
    /\ IF BadUdp(Here) THEN Concludes("BAD") ELSE Ends("UDP", HeaderBytes["UDP"])
    /\ UNCHANGED <<onWire, script, device>>
BadIcmp(t) == left < HeaderBytes[t] \/ ~CanAppend(live, HeaderBytes[t])
ParseIcmp(t) ==
    /\ Parsing("header", t)
    /\ IF BadIcmp(t) THEN Concludes("BAD") ELSE Ends(t, HeaderBytes[t])
    /\ UNCHANGED <<onWire, script, device>>
ParseDone ==
    /\ Parsing("done", None) /\ Concludes("OK")
    /\ UNCHANGED <<onWire, script, device>>

----------------------------------------------------------------------------
NoDescription == [outer |-> <<>>, inner |-> None]
Init ==
    /\ pc = "script" /\ onWire \in BOOLEAN
    /\ desc = NoDescription /\ outer = PacketNew(PACKET_MAX_HEADER_BYTES) /\ pkt = PacketNew(0) /\ sent = None
    /\ capture = <<>> /\ tun = 0 /\ passed = 0
    /\ frame = None /\ live = PacketNew(0) /\ at = 0 /\ want = Idle /\ left = 0
    /\ result = None /\ num_packets = 0

Prefix ==
    \/ \E addresses \in BOOLEAN : Ipv4HeaderAppend(addresses) \/ Ipv6HeaderAppend(addresses)
    \/ \E n \in GreLengths : GreHeaderAppend(n)
    \/ \E n \in MplsEntries : MplsHeaderAppend(n)
Build == (\E d \in Descriptions : Begin(d)) \/ Prefix \/ Encapsulate
ParsePacket ==
    \/ ParseLayer2 \/ ParseLayer3 \/ ParseLayer3ByProto \/ ParseLayer4
    \/ ParseIpv4 \/ ParseIpv6 \/ ParseGre \/ ParseMpls
    \/ ParseTcp \/ ParseUdp \/ ParseIcmp("ICMPV4") \/ ParseIcmp("ICMPV6") \/ ParseDone
Next ==
    \/ Build \/ Inject \/ Receive
    \/ KernelSends \/ OthersSend \/ PacketSocketReceive \/ ParsePacket \/ ReadQueue
Spec == Init /\ [][Next]_vars

----------------------------------------------------------------------------
\* Types: what the tables of both packets may hold (struct packet, struct header).
TypeOK ==
    /\ pc \in {"script", "refused", "died", "prefix", "built", "injected", "receiving", "parsing", "drain", "returned"}
    /\ onWire \in BOOLEAN /\ result \in {None, "OK", "BAD", "UNKNOWN_L4"}
    /\ tun \in 0 .. MaxFrames /\ num_packets \in 0 .. MaxFrames
    /\ \A p \in {outer, pkt, live} :
        /\ Len(p.headers) <= PACKET_MAX_HEADERS
        /\ \A i \in DOMAIN p.headers : p.headers[i].at \in Nat /\ p.headers[i].total \in Nat

\* What a script describes, in whatever order its headers are put in front of
\* each other, is injected as that very datagram: every header announces the
\* next, every length reaches the end, every checksum is computed after the
\* values it covers have been filled in (packet_encapsulate, checksum_packet);
\* and the table says where each header is.
InjectedAsDescribed ==
    pc = "injected" /\ Sensible(Stack, Payload) =>
        /\ sent.bits = Encoding(Stack, Payload) /\ sent.bytes = Total(Stack, Payload, 1)
        /\ pkt.headers = Table(Stack, Payload, 0) /\ pkt.l3 = Offset(Stack, Len(Stack) - 1)

\* A frame is accepted exactly when it is a whole, unfragmented datagram of
\* protocols that the tool knows and its checksums and lengths agree; padding
\* behind it does not matter, and protocols that the tool does not know never
\* end the receive (parse_packet, netdev_receive_loop).
FrameJudged ==
    /\ pc \in {"drain", "returned"} =>
          result = IF Len(frame.stack) <= PACKET_MAX_HEADERS THEN frame.means ELSE "BAD"
    /\ pc = "receiving" /\ result # None => result = "UNKNOWN_L4" /\ frame.means = "UNKNOWN_L4"

\* The table that comes from a frame is the one that the description gives, so
\* that headers can be compared one by one (run_packet.c verify_header): the
\* offsets are sums of the lengths before, yet lie where the parser was.  Only
\* an MPLS stack counts the padding as well.
IpFirst == frame.stack[1].type \in IpTypes
TableMatchesFrame ==
    pc \in {"drain", "returned"} /\ result = "OK" =>
        LET t == Table(frame.stack, frame.payload, live.l2)
            padded == frame.in > Total(frame.stack, frame.payload, 1)
        IN  /\ Len(live.headers) = Len(t)
            /\ \A i \in DOMAIN t :
                 live.headers[i] = IF padded /\ t[i].type = "MPLS" THEN [t[i] EXCEPT !.total = @ + 6] ELSE t[i]
            /\ live.l3 = t[Len(t) - 1].at
            /\ IpFirst => live.ip = Total(frame.stack, frame.payload, 1)

\* Once a receive is over, the packets that wait in the tun device are those
\* that are still to be sniffed, whatever was skipped on the way
\* (local_netdev_receive reads as many as netdev_receive_loop has counted).
TunFollowsCapture ==
    pc = "returned" /\ ~onWire => tun = Cardinality({i \in DOMAIN capture : capture[i].src = "kernel"})
=============================================================================
