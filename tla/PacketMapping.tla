--------------------------- MODULE PacketMapping ---------------------------
(***************************************************************************)
(* How the fields of a packet are translated between the numbers of a      *)
(* script and those of a live connection (run_packet.c, socket.h), and how *)
(* a packet that the kernel sent is compared with the one that the script  *)
(* expects.  Sequence numbers and time stamps are taken modulo SeqSpace.     *)
(* A packet is a record: ip (the outer header), enc (the encapsulation     *)
(* headers below it), proto and the fields of that header, opts (the TCP   *)
(* options in order), len and data (the payload), udp_len (the length of   *)
(* the payload by the UDP header, if there is one), port (which stands for *)
(* the four-tuple), label (IPv6 flow label) and time.                      *)
(***************************************************************************)
EXTENDS Integers, Sequences, FiniteSets, SequencesExt, FiniteSetsExt

CONSTANT SeqSpace     \* 2^32 in the code

ASSUME SeqSpaceAssumption == SeqSpace \in Nat \ {0}

Numbers == 0..SeqSpace - 1
Plus(a, b) == (a + b) % SeqSpace
Minus(a, b) == (a - b) % SeqSpace

Has(p, flag) == flag \in p.flags
IsTcp(p) == p.proto = "tcp"
IsIcmp(p) == p.proto = "icmp"

-----------------------------------------------------------------------------
(* Sequence numbers are absolute in packets with SYN and relative to the   *)
(* first SYN in all others.  The script chooses the live ISN of the remote *)
(* side, the kernel its own.                                               *)

RemoteOffset(s, is_syn) == IF is_syn THEN 0 ELSE s.live.remote_isn
LocalOffset(s, is_syn) ==
    IF is_syn THEN Minus(s.live.local_isn, s.script.local_isn)
              ELSE s.live.local_isn

\* Seeded fault: only the left edges are mapped
OffsetSackLeft(opts, offset) ==
    [i \in DOMAIN opts |->
       IF opts[i].kind = "sack" THEN [opts[i] EXCEPT !.left = Plus(@, offset)]
                                ELSE opts[i]]

\* offset_sack_blocks(): both edges of every block of every SACK option
OffsetSack(opts, offset) ==
    [i \in DOMAIN opts |->
       IF opts[i].kind = "sack"
         THEN [opts[i] EXCEPT !.left = Plus(@, offset), !.right = Plus(@, offset)]
         ELSE opts[i]]

\* find_tcp_timestamp(): the places of the last time stamp option
Timestamps(p) == {i \in DOMAIN p.opts : p.opts[i].kind = "ts"}
HasTs(p) == IsTcp(p) /\ Timestamps(p) # {}
TsIndex(p) == Max(Timestamps(p))
Ts(p) == p.opts[TsIndex(p)]

\* The echo of a time stamp has a live value, exact or interpolated
EcrKnown(s, p, scaled) ==
    ~Has(p, "ack") \/ ~HasTs(p) \/ Ts(p).ecr \in DOMAIN s.ts_val_map
    \/ (scaled /\ s.first_ts # <<>>)
LiveEcr(s, p) ==
    IF Ts(p).ecr \in DOMAIN s.ts_val_map THEN s.ts_val_map[Ts(p).ecr]
    ELSE Plus(Minus(Ts(p).ecr, s.first_ts[1]), s.first_ts[2])

\* Ports that the script gives are kept, others are those of the socket
LiveTuple(s, p) == IF p.port # 0 /\ ~IsIcmp(p) THEN p.port ELSE s.live.port

\* map_inbound_icmp_packet(): the sequence number of an echoed TCP header
MapEchoed(s, p) ==
    IF p.echoed = "tcp" THEN [p EXCEPT !.seq = Plus(@, LocalOffset(s, FALSE))]
                        ELSE p

\* map_inbound_packet(): from script to live
MapInbound(s, p) ==
    LET q == [p EXCEPT !.port = LiveTuple(s, p)]
        mapped == [q EXCEPT
            !.seq = Plus(@, RemoteOffset(s, Has(p, "syn"))),
            !.ack_seq = IF Has(p, "ack")
                          THEN Plus(@, LocalOffset(s, Has(p, "syn"))) ELSE @,
            !.opts = OffsetSack(@, LocalOffset(s, Has(p, "syn")))]
    IN CASE IsIcmp(p) -> MapEchoed(s, q)
         [] p.proto = "udp" -> q
         [] IsTcp(p) -> IF Has(p, "ack") /\ HasTs(p)
                          THEN [mapped EXCEPT !.opts[TsIndex(p)].ecr = LiveEcr(s, p)]
                          ELSE mapped

\* tcp_convert_seq_number(): from live to script
ConvertSeq(s, p) ==
    LET ackOffset == (-RemoteOffset(s, Has(p, "syn"))) % SeqSpace IN
    IF ~IsTcp(p) THEN p
    ELSE [p EXCEPT
            !.seq = Minus(@, LocalOffset(s, Has(p, "syn"))),
            !.ack_seq = IF Has(p, "ack") THEN Plus(@, ackOffset) ELSE @,
            !.opts = OffsetSack(@, ackOffset)]

\* Seeded fault: what is mapped is the echo
LearnEcr(s, p, script) ==
    IF ~HasTs(p) \/ ~HasTs(script) THEN s
    ELSE [s EXCEPT
            !.ts_val_map = [v \in DOMAIN @ \union {Ts(script).val} |->
                              IF v = Ts(script).val THEN Ts(p).ecr ELSE @[v]],
            !.first_ts = IF @ = <<>> THEN <<Ts(script).val, Ts(p).val>> ELSE @]

\* Time stamps of an outbound packet: the exact mapping is remembered for
\* echoes, the first pair is the base line
LearnTs(s, p, script) ==
    IF ~HasTs(p) \/ ~HasTs(script) THEN s
    ELSE [s EXCEPT
            !.ts_val_map = [v \in DOMAIN @ \union {Ts(script).val} |->
                              IF v = Ts(script).val THEN Ts(p).val ELSE @[v]],
            !.first_ts = IF @ = <<>> THEN <<Ts(script).val, Ts(p).val>> ELSE @]

\* map_outbound_live_packet(), for a socket that has learnt from the packet:
\* the four-tuple becomes that of the script, the time stamp is counted from
\* the base line
MapOutbound(s, p, script) ==
    LET q == [p EXCEPT !.port = script.port] IN
    IF ~HasTs(p) \/ ~HasTs(script) THEN q
    ELSE [q EXCEPT !.opts[TsIndex(p)].val =
                     Plus(s.first_ts[1], Minus(@, s.first_ts[2]))]

-----------------------------------------------------------------------------
(* The comparison of an actual packet with the one of the script.  With    *)
(* "strict" it is the final one; without, two segments of a run that is to *)
(* be joined are compared, and the earlier one stands for the script's.    *)

\* verify_outbound_live_tos(), ECT01 is a value of scripts only
Ect01 == 4
TosMatch(check, actual, script) ==
    CASE check = "none" -> TRUE
      [] check = "tos" -> actual = script
      [] check = "ecn" -> IF script = Ect01 THEN actual % 4 \in {1, 2}
                                            ELSE actual % 4 = script

\* verify_outbound_live_ttl_or_hl(), TTL_CHECK_NONE is 255
TtlMatch(actual, script) == script = 255 \/ actual = script

\* The length of the options, which the IP length and the data offset show
OptionsLen(p) == FoldLeft(LAMBDA n, o : n + o.length, 0, p.opts)
OptionsAllowance(a, s) ==
    IF "options" \in s.nocheck THEN OptionsLen(a) ELSE 0

\* verify_ipv4(), verify_ipv6()
IpMatch(a, s, strict) ==
    /\ a.ip.type = s.ip.type
    /\ strict => a.len + OptionsLen(a)
                   = s.len + OptionsLen(s) + OptionsAllowance(a, s)
    /\ TosMatch(s.tos_chk, a.ip.tos, s.ip.tos)
    /\ TtlMatch(a.ip.ttl, s.ip.ttl)

\* verify_tcp(): FIN, PSH and CWR may differ between segments, which follow
\* each other in sequence space
TcpMatch(a, s, strict) ==
    LET loose == IF strict THEN {} ELSE {"fin", "psh", "cwr"} IN
    /\ OptionsLen(a) = OptionsLen(s) + OptionsAllowance(a, s)
    /\ a.flags \ loose = s.flags \ loose
    /\ a.seq = IF strict THEN s.seq ELSE Plus(s.seq, s.len)
    /\ a.ack_seq = s.ack_seq
    /\ "win" \in s.nocheck \/ a.win = s.win

\* verify_udp(): the length is that of the header
UdpMatch(a, s, strict) == strict => a.udp_len = s.udp_len

\* verify_gre(), verify_mpls(): every field of every header in between
EncMatch(a, s) == a.enc = s.enc

\* verify_icmpv4(), verify_icmpv6()
IcmpMatch(a, s) == a.type_code = s.type_code

\* verify_outbound_live_headers(), layer by layer
HeadersMatch(a, s, strict) ==
    /\ EncMatch(a, s)
    /\ a.proto = s.proto
    /\ IpMatch(a, s, strict)
    /\ CASE IsTcp(s) -> TcpMatch(a, s, strict)
         [] s.proto = "udp" -> UdpMatch(a, s, strict)
         [] IsIcmp(s) -> IcmpMatch(a, s)

\* verify_outbound_live_ipv6_flowlabel(): the live label that the last label
\* of the script stands for; a new one must come with a new live label
LabelOk(s, a, script) ==
    \/ script.label = 0
    \/ /\ a.label # 0
       /\ s.label.script = 0
          \/ (script.label = s.label.script <=> a.label = s.label.live)
LearnLabel(s, a, script) ==
    IF script.label = 0 \/ ~LabelOk(s, a, script) THEN s
    ELSE [s EXCEPT !.label = [script |-> script.label, live |-> a.label]]

\* verify_outbound_tcp_option(): a time stamp within the tolerance (in ticks,
\* 0 where the tick is not known and any value will do), others bit by bit
TsNear(actual, script, ticks) ==
    \/ ticks = 0
    \/ Minus(actual, script) <= ticks \/ Minus(script, actual) <= ticks
OptionMatch(a, s, i, ticks) ==
    CASE a.opts[i].kind \in {"eol", "nop"} -> TRUE
      [] a.opts[i].kind = "ts" -> TsNear(Ts(a).val, Ts(s).val, ticks)
      [] OTHER -> a.opts[i] = s.opts[i]

\* verify_outbound_live_tcp_options(): the same kinds in the same order
OptionsMatch(a, s, ticks) ==
    \/ "options" \in s.nocheck
    \/ /\ Len(a.opts) = Len(s.opts)
       /\ \A i \in DOMAIN s.opts : /\ a.opts[i].kind = s.opts[i].kind
                                   /\ OptionMatch(a, s, i, ticks)

\* verify_packet_fragments(): the headers fit and all segments but the last
\* carry as much
FragmentsMatch(cur, prev, sniffed, expected) ==
    /\ HeadersMatch(cur, prev, FALSE)
    /\ cur.len < expected - sniffed => cur.len = prev.len

\* aggregate_packets(): the headers of the last segment, the sequence number
\* and CWR of the first, the payload of all; the IP length and checksum are
\* made anew, a UDP header keeps the length of the last datagram (its type has
\* no "finish" function)
Aggregate(ps) ==
    LET first == Head(ps)
        last == ps[Len(ps)] IN
    IF Len(ps) = 1 THEN first
    ELSE [last EXCEPT
            !.seq = IF IsTcp(last) THEN first.seq ELSE @,
            !.flags = (@ \ {"cwr"}) \union (first.flags \intersect {"cwr"}),
            !.len = FoldLeft(LAMBDA n, p : n + p.len, 0, ps),
            !.data = IF \A i \in DOMAIN ps : ps[i].data = first.data
                       THEN first.data ELSE "mixed",
            !.ip.sum = "good"]

\* verify_outbound_live_packet(): the first check that fails, "ok" if none.
\* on_time is what verify_time() says.
VerifyLive(s, live, script, ticks, on_time) ==
    LET learnt == LearnTs(s, live, script)
        a == MapOutbound(learnt, live, script) IN
    IF live.ip.type = "ipv4" /\ live.ip.sum = "bad" THEN "checksum"
    ELSE IF ~HeadersMatch(a, script, TRUE) THEN "headers"
    ELSE IF script.ip.type = "ipv6" /\ ~LabelOk(s, a, script) THEN "label"
    ELSE IF IsTcp(script) /\ ~OptionsMatch(a, script, ticks) THEN "options"
    ELSE IF ~IsIcmp(a) /\ a.data # script.data THEN "payload"
    ELSE IF ~on_time THEN "time" ELSE "ok"
=============================================================================
