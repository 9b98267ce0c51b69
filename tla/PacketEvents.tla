---------------------------- MODULE PacketEvents ----------------------------
(***************************************************************************)
(* The packet events of a script (run_packet.c, socket.h): the socket that *)
(* the interpreter keeps for the connection under test, the sniffing,      *)
(* joining and checking of what the kernel sends, the mapping of what is   *)
(* injected into it, and the reset at the end.                             *)
(*                                                                         *)
(* The kernel under test and the author of the script are not part of the  *)
(* program.  The kernel is a small TCP with sequence numbers of its own;   *)
(* it retransmits, cuts data into segments, shares the wire with other     *)
(* connections, and may send something that it should not.  The author     *)
(* describes, in the numbers of the script, what the kernel is to receive  *)
(* and what it sends, and may be wrong about the latter.                   *)
(***************************************************************************)
EXTENDS PacketMapping

CONSTANTS
    Configs,        \* configurations to run, with the events of a script
    Isns,           \* initial sequence numbers, of scripts and of the kernel
    MaxLen,         \* payload of a packet of a script
    MaxQueue,       \* packets waiting to be sniffed
    MaxSends        \* packets that the kernel sends of its own accord

ASSUME IsnAssumption == Isns \subseteq Numbers
ASSUME BoundAssumption == {MaxLen, MaxQueue, MaxSends} \subseteq Nat

VARIABLES
    config,     \* command line and kind of script
    sock,       \* state->socket_under_test
    phase,      \* "idle", "sniff": in do_outbound_script_packet(), "failed"
                \* or "closed"
    ev,         \* the event: the packet of the script, the packets sniffed
                \* for it (in script numbers), and the same as they were
    verdict,    \* of the last outbound event
    injected,   \* the last packet injected, and the kernel it went to
    out,        \* live packets on their way to netdev_receive()
    kern,       \* the connection in the kernel
    author,     \* what the script has said so far
    budget      \* events and sends left

codeVars == <<config, sock, phase, ev, verdict, injected>>
vars == <<codeVars, out, kern, author, budget>>

Ports == 1..4
ListenPort == 1         \* live_bind_port
StrayPort == 4          \* of some other connection to the same remote side
NoIsn == -1             \* the script has not chosen its ISN

NoPair == [script |-> 0, live |-> 0]
NoHeader == [flags |-> {}, seq |-> 0, ack_seq |-> 0, len |-> 0]
Header(p) == [flags |-> p.flags, seq |-> p.seq, ack_seq |-> p.ack_seq,
              len |-> p.len]

\* socket_new(), and the socket that is not there
NewSock(state, proto) ==
    [state |-> state, proto |-> proto,
     script |-> [local_isn |-> 0, remote_isn |-> 0],
     live |-> [local_isn |-> 0, remote_isn |-> 0, port |-> 0],
     ts_val_map |-> <<>>, first_ts |-> <<>>, label |-> NoPair,
     last_outbound |-> NoHeader, last_injected |-> NoHeader]
NoSock == NewSock("NULL", "none")

NoVerdict == [result |-> "none", script |-> <<>>, raw |-> <<>>, label |-> NoPair]
NoEvent == [script |-> <<>>, sniffed |-> <<>>, raw |-> <<>>]
NoInjection == [p |-> <<>>, to |-> <<>>, script |-> <<>>]

Packet(proto, flags, seq, ack_seq, len) ==
    [proto |-> proto, enc |-> <<>>, flags |-> flags, seq |-> seq,
     ack_seq |-> ack_seq, len |-> len, udp_len |-> len, win |-> 1, opts |-> <<>>,
     data |-> "zeros", port |-> 0, label |-> 0, time |-> "due",
     ip |-> [type |-> config.ip, tos |-> 0, ttl |-> 64, sum |-> "good"],
     tos_chk |-> config.tos_chk, nocheck |-> config.nocheck,
     echoed |-> "none", type_code |-> 0]

TsOption(val, ecr) == [kind |-> "ts", length |-> 3, val |-> val, ecr |-> ecr]
SackOption(l, r) == [kind |-> "sack", length |-> 3, left |-> l, right |-> r]

-----------------------------------------------------------------------------
(* The kernel under test.                                                  *)

Closed == [st |-> "closed", port |-> 0, iss |-> 0, irs |-> 0, rcv |-> 0,
           nxt |-> 0, una |-> 0, clock |-> 1, ts_recent |-> 0, vals |-> {},
           label |-> 1]

Synchronized(k) == k.st \in {"syn_rcvd", "established"}

LivePacket(k, flags, seq, len) ==
    [IF config.proto = "udp" THEN Packet("udp", {}, 0, 0, len)
     ELSE Packet("tcp", flags, seq, IF "ack" \in flags THEN k.rcv ELSE 0, len)
       EXCEPT !.port = k.port, !.tos_chk = "none", !.nocheck = {},
              !.label = IF config.ip = "ipv6" THEN k.label ELSE 0,
              !.opts = IF config.ts THEN <<TsOption(k.clock, k.ts_recent)>> ELSE <<>>]

Sends(k, ps) ==
    /\ Len(out) + Len(ps) <= MaxQueue
    /\ out' = out \o ps
    /\ kern' = [k EXCEPT !.vals = IF config.ts /\ ps # <<>>
                                    THEN @ \union {k.clock} ELSE @]

\* What is wrong with a packet that a faulty kernel sends
Deviate(p, dev) ==
    CASE dev = "none" -> p
      [] dev = "tos" -> [p EXCEPT !.ip.tos = 1]
      [] dev = "sum" -> [p EXCEPT !.ip.sum = "bad"]
      [] dev = "win" -> [p EXCEPT !.win = 2]
      [] dev = "options" -> [p EXCEPT !.opts = <<[kind |-> "mss", length |-> 1, val |-> 0]>> \o @]
      [] dev = "data" -> [p EXCEPT !.data = "other"]
      [] dev = "late" -> [p EXCEPT !.time = "late"]
Deviations == {"tos", "sum", "win", "options", "data", "late"}

\* What a script can say wrongly
Slips == {"seq", "ack", "len", "psh", "label"}

ASSUME ConfigsAssumption ==
    \A c \in Configs : /\ c.proto \in {"tcp", "udp"}
                       /\ c.deviations \subseteq Deviations
                       /\ c.mistakes \subseteq Slips

\* A segment of n bytes, or n of one
Segments(k, n) ==
    {<<LivePacket(k, {"ack"}, k.nxt, n)>>,
     [i \in 1..n |-> LivePacket(k, {"ack"}, Plus(k.nxt, i - 1), 1)]}

AppWrites ==
    /\ kern.st = "established"
    /\ budget.sends > 0
    /\ \E n \in 1..MaxLen, dev \in {"none"} \union config.deviations :
         \E segs \in Segments(kern, n) :
           \E i \in DOMAIN segs :
             Sends([kern EXCEPT !.nxt = Plus(@, n)],
                   [segs EXCEPT ![i] = Deviate(@, dev)])
    /\ budget' = [budget EXCEPT !.sends = @ - 1]
    /\ UNCHANGED <<codeVars, author>>

Unacked(k) ==
    CASE k.st = "syn_sent" -> <<LivePacket(k, {"syn"}, k.iss, 0)>>
      [] k.st = "syn_rcvd" -> <<LivePacket(k, {"syn", "ack"}, k.iss, 0)>>
      [] k.st = "established" /\ k.una # k.nxt ->
           <<LivePacket(k, {"ack"}, k.una, Minus(k.nxt, k.una))>>
      [] OTHER -> <<>>

Retransmits ==
    /\ config.proto = "tcp"
    /\ budget.sends > 0
    /\ Unacked(kern) # <<>>
    /\ \E l \in IF config.ip = "ipv6" THEN {1, 2} ELSE {1} :
         LET k == [kern EXCEPT !.label = l, !.clock = Plus(@, 1)] IN
         Sends(k, Unacked(k))
    /\ budget' = [budget EXCEPT !.sends = @ - 1]
    /\ UNCHANGED <<codeVars, author>>

StrayPacket ==
    /\ config.strays
    /\ budget.sends > 0
    /\ Len(out) < MaxQueue
    /\ \E n \in 0..MaxLen :
         out' = Append(out, [LivePacket(kern, {"ack"}, 0, n) EXCEPT !.port = StrayPort])
    /\ budget' = [budget EXCEPT !.sends = @ - 1]
    /\ UNCHANGED <<codeVars, kern, author>>

\* What the connection has sent and the script has not yet described
OwnUpTo[i \in 0..Len(out)] ==
    IF i = 0 THEN <<>>
    ELSE IF out[i].port = kern.port THEN Append(OwnUpTo[i - 1], out[i])
    ELSE OwnUpTo[i - 1]
Own == OwnUpTo[Len(out)]

InWindow(k, x) == Minus(x, k.una) <= Minus(k.nxt, k.una)

\* The kernel takes in packet p; what does not belong to the connection or is
\* not in sequence is dropped
Receives(p) ==
    LET k == [kern EXCEPT !.ts_recent = IF HasTs(p) THEN Ts(p).val ELSE @]
        acked == [k EXCEPT !.una = p.ack_seq] IN
    IF ~IsTcp(p) \/ (kern.st # "listen" /\ p.port # kern.port) THEN Sends(kern, <<>>)
    ELSE
    CASE kern.st = "listen" /\ p.flags = {"syn"} /\ p.port = ListenPort ->
           \E iss \in Isns :
             LET c == [k EXCEPT !.st = "syn_rcvd", !.port = ListenPort,
                                !.iss = iss, !.irs = p.seq, !.rcv = Plus(p.seq, 1),
                                !.una = iss, !.nxt = Plus(iss, 1)] IN
             Sends(c, Unacked(c))
      [] kern.st = "syn_sent" /\ {"syn", "ack"} \subseteq p.flags /\ p.ack_seq = kern.nxt ->
           LET c == [acked EXCEPT !.st = "established", !.irs = p.seq,
                                  !.rcv = Plus(p.seq, 1)] IN
           Sends(c, <<LivePacket(c, {"ack"}, c.nxt, 0)>>)
      [] Synchronized(kern) /\ Has(p, "ack") /\ ~Has(p, "syn") /\ p.seq = kern.rcv
           /\ InWindow(kern, p.ack_seq)
           /\ (kern.st = "syn_rcvd" => p.ack_seq = kern.nxt) ->
           LET n == p.len + IF Has(p, "fin") THEN 1 ELSE 0
               c == [acked EXCEPT !.st = "established", !.rcv = Plus(@, n)] IN
           Sends(c, IF n = 0 THEN <<>> ELSE <<LivePacket(c, {"ack"}, c.nxt, 0)>>)
      [] OTHER -> Sends(kern, <<>>)

-----------------------------------------------------------------------------
(* System calls of the script.  On a wire server the client makes them, and *)
(* only the kernel knows.                                                   *)

Listen ==
    /\ phase = "idle" /\ config.passive /\ kern.st = "closed"
    /\ kern' = [kern EXCEPT !.st = "listen"]
    /\ sock' = IF config.is_wire_server THEN sock
               ELSE NewSock("PASSIVE_LISTENING", config.proto)
    /\ UNCHANGED <<config, phase, ev, verdict, injected, out, author, budget>>

\* A UDP socket is connected without a packet; a socket that is connected
\* again after a disconnect has a new port
Connect ==
    /\ phase = "idle" /\ ~config.passive /\ kern.st = "closed"
    /\ \E iss \in Isns, port \in {2, 3} \ {kern.port} :
         LET k == [kern EXCEPT !.st = IF config.proto = "tcp" THEN "syn_sent"
                                                              ELSE "established",
                               !.port = port, !.iss = iss, !.una = iss,
                               !.nxt = IF config.proto = "tcp" THEN Plus(iss, 1)
                                                              ELSE iss] IN
         Sends(k, Unacked(k))
    /\ sock' = IF config.is_wire_server THEN sock
                ELSE IF sock = NoSock THEN NewSock("ACTIVE_CONNECTING", config.proto)
                ELSE [sock EXCEPT !.state = "ACTIVE_CONNECTING"]
    /\ verdict' = NoVerdict
    /\ UNCHANGED <<config, phase, ev, injected, author, budget>>

\* connect() with AF_UNSPEC, when the script has described all packets
Disconnect ==
    /\ phase = "idle" /\ ~config.passive /\ ~config.is_wire_server
    /\ kern.st = "established" /\ config.proto = "tcp" /\ ~author.reconnected
    /\ Own = <<>>
    /\ kern' = [kern EXCEPT !.st = "closed"]
    /\ sock' = [sock EXCEPT !.state = "NEW"]
    /\ author' = [author EXCEPT !.reconnected = TRUE, !.isn = NoIsn, !.seen = FALSE]
    /\ verdict' = NoVerdict
    /\ injected' = NoInjection
    /\ UNCHANGED <<config, phase, ev, out, budget>>

-----------------------------------------------------------------------------
(* run_packet_event(): the socket for a packet of the script.              *)

\* handle_listen_for_script_packet(): any inbound TCP packet will do
ListenMatch(p, dir) ==
    /\ IsTcp(p) /\ dir = "in"
    /\ sock = NoSock \/ (~config.is_wire_server /\ sock.state = "PASSIVE_LISTENING")
ChildFor(p) ==
    [NewSock("PASSIVE_PACKET_RECEIVED", p.proto) EXCEPT
       !.script.remote_isn = p.seq, !.live.remote_isn = p.seq,
       !.live.port = ListenPort]

\* handle_connect_for_script_packet()
ConnectMatch(p, dir) ==
    /\ IsTcp(p) /\ dir = "out" /\ Has(p, "syn") /\ ~Has(p, "ack")
    /\ IF config.is_wire_server THEN sock = NoSock
                                ELSE sock.state = "ACTIVE_CONNECTING"
ConnectFor(p) ==
    LET s == IF sock = NoSock THEN NewSock("INIT", p.proto) ELSE sock IN
    [s EXCEPT !.state = "ACTIVE_SYN_SENT", !.script.local_isn = p.seq]

\* is_script_packet_match_for_socket()
ScriptMatch(p) == sock # NoSock /\ (sock.proto = p.proto \/ IsIcmp(p))

\* find_or_create_socket_for_script_packet(), NoSock if it fails: a packet with
\* ports of its own is for any socket
SocketFor(p, dir) ==
    IF ListenMatch(p, dir) THEN ChildFor(p)
    ELSE IF ConnectMatch(p, dir) THEN ConnectFor(p)
    ELSE IF ScriptMatch(p) \/ (p.port # 0 /\ ~IsIcmp(p)) THEN sock
    ELSE NoSock

-----------------------------------------------------------------------------
(* do_outbound_script_packet().                                            *)

SynAck(p) == IsTcp(p) /\ {"syn", "ack"} \subseteq p.flags

\* "Script says we should see an outbound server SYNACK."
NoteSynAck(s, p) ==
    IF s.state = "PASSIVE_PACKET_RECEIVED" /\ SynAck(p)
      THEN [s EXCEPT !.script.local_isn = p.seq] ELSE s

BeginOutbound(p) ==
    LET s == SocketFor(p, "out") IN
    IF s = NoSock THEN /\ phase' = "failed"
                       /\ UNCHANGED <<sock, ev>>
    ELSE /\ phase' = "sniff"
         /\ sock' = NoteSynAck(s, p)
         /\ ev' = [script |-> p, sniffed |-> <<>>, raw |-> <<>>]

\* find_socket_for_live_packet(), find_connect_for_live_packet()
KnownFlow(q) == sock.live.port = q.port
NewFlow(q) ==
    \/ q.proto = "udp" /\ sock.proto = "udp" /\ sock.state = "ACTIVE_CONNECTING"
    \/ IsTcp(q) /\ Has(q, "syn") /\ ~Has(q, "ack") /\ sock.proto = "tcp"
       /\ sock.state = "ACTIVE_SYN_SENT"

\* Seeded fault: a connection keeps the first ISN
LearnPort(q) ==
    IF KnownFlow(q) THEN sock
    ELSE [sock EXCEPT !.live.port = q.port,
                      !.live.local_isn = IF IsTcp(q) /\ sock.live.local_isn = 0
                                           THEN q.seq ELSE sock.live.local_isn]

LearnFlow(q) ==
    IF KnownFlow(q) THEN sock
    ELSE [sock EXCEPT !.live.port = q.port,
                      !.live.local_isn = IF IsTcp(q) THEN q.seq ELSE sock.live.local_isn]

\* The first packet sniffed for a SYNACK makes the live ISN known; of every
\* TCP packet the header is kept for the reset
AfterSniff(q) ==
    LET s == LearnFlow(q)
        t == IF s.state = "PASSIVE_PACKET_RECEIVED" /\ SynAck(ev.script)
               THEN [s EXCEPT !.state = "PASSIVE_SYNACK_SENT",
                              !.live.local_isn = q.seq]
               ELSE s
    IN IF IsTcp(q) THEN [t EXCEPT !.last_outbound = Header(q)] ELSE t

Total(ps) == FoldLeft(LAMBDA n, p : n + p.len, 0, ps)

\* Seeded fault: packets of different flows are joined
JoinedAny(q) ==
    [sniffed |-> Append(ev.sniffed, ConvertSeq(AfterSniff(q), q)),
     raw |-> Append(ev.raw, q)]

\* The packets sniffed so far with q, in script numbers: those of another
\* flow are forgotten
Joined(q) ==
    LET p == ConvertSeq(AfterSniff(q), q) IN
    IF ev.sniffed # <<>> /\ Last(ev.sniffed).port # q.port
      THEN [sniffed |-> <<p>>, raw |-> <<q>>]
      ELSE [sniffed |-> Append(ev.sniffed, p), raw |-> Append(ev.raw, q)]

Fits(ps) ==
    Len(ps) > 1 =>
       FragmentsMatch(Last(ps), ps[Len(ps) - 1], Total(Front(ps)), ev.script.len)

\* "To allow remote mode execution of scripts that expect TSO or GSO"
WantsMore(ps) ==
    /\ Total(ps) < ev.script.len
    /\ ~config.strict_segments \/ config.is_wire_server

SniffOther ==
    /\ phase = "sniff" /\ out # <<>>
    /\ ~KnownFlow(Head(out)) /\ ~NewFlow(Head(out))
    /\ out' = Tail(out)
    /\ UNCHANGED <<codeVars, kern, author, budget>>

Sniff(q) == /\ phase = "sniff" /\ out # <<>> /\ q = Head(out)
            /\ KnownFlow(q) \/ NewFlow(q)
            /\ out' = Tail(out)

\* Seeded fault: the event is not over
ConcludesKeeping(result, raw) ==
    /\ verdict' = [result |-> result, script |-> ev.script, raw |-> raw,
                   label |-> author.label]
    /\ ev' = ev
    /\ author' = [author EXCEPT !.seen = TRUE]

Concludes(result, raw) ==
    /\ verdict' = [result |-> result, script |-> ev.script, raw |-> raw,
                   label |-> author.label]
    /\ ev' = NoEvent
    /\ author' = [author EXCEPT
         !.seen = TRUE,
         !.label = IF ev.script.label # 0
                     THEN [script |-> ev.script.label, live |-> Last(raw).label] ELSE @]

SniffMore ==
    \E q \in ToSet(out) :
      LET j == Joined(q) IN
      /\ Sniff(q)
      /\ Fits(j.sniffed) /\ WantsMore(j.sniffed)
      /\ sock' = AfterSniff(q)
      /\ ev' = [script |-> ev.script, sniffed |-> j.sniffed, raw |-> j.raw]
      /\ UNCHANGED <<config, phase, verdict, injected, kern, author, budget>>

SniffMismatch ==
    \E q \in ToSet(out) :
      LET j == Joined(q) IN
      /\ Sniff(q)
      /\ \/ ~Fits(j.sniffed)
         \/ ~WantsMore(j.sniffed) /\ Total(j.sniffed) # ev.script.len
      /\ sock' = AfterSniff(q)
      /\ phase' = "failed"
      /\ Concludes("error", j.raw)
      /\ UNCHANGED <<config, injected, kern, budget>>

\* verify_outbound_live_packet(); what follows the IP checksum is not fatal
\* with --non_fatal=packet
SniffLast ==
    \E q \in ToSet(out) :
      LET j == Joined(q)
          s == AfterSniff(q)
          live == Aggregate(j.sniffed)
          check == VerifyLive(s, live, ev.script, config.ticks, q.time = "due") IN
      /\ Sniff(q)
      /\ Fits(j.sniffed) /\ ~WantsMore(j.sniffed)
      /\ Total(j.sniffed) = ev.script.len
      /\ sock' = IF check = "checksum" THEN s
                 ELSE LET t == LearnTs(s, live, ev.script) IN
                      IF check = "headers" THEN t ELSE LearnLabel(t, live, ev.script)
      /\ IF check # "ok" /\ (check = "checksum" \/ ~config.non_fatal_packet)
           THEN phase' = "failed" /\ Concludes("error", j.raw)
           ELSE phase' = "idle" /\ Concludes(IF check = "ok" THEN "ok" ELSE "warn", j.raw)
      /\ UNCHANGED <<config, injected, kern, budget>>

-----------------------------------------------------------------------------
(* do_inbound_script_packet().                                             *)

AfterInbound(s, p) ==
    CASE s.state = "PASSIVE_SYNACK_SENT" /\ IsTcp(p) /\ Has(p, "ack") ->
           [s EXCEPT !.state = "PASSIVE_SYNACK_ACKED"]
      [] s.state = "ACTIVE_SYN_SENT" /\ SynAck(p) ->
           [s EXCEPT !.state = "ACTIVE_SYN_ACKED",
                     !.script.remote_isn = p.seq, !.live.remote_isn = p.seq]
      [] OTHER -> s

\* With --is_anyip, which is left out, a UDP or ICMP packet that comes before any
\* is sent also fills in the four-tuple of the socket
RunInbound(p) ==
    LET found == SocketFor(p, "in")
        s == AfterInbound(found, p)
        q == MapInbound(s, p) IN
    IF found = NoSock \/ (IsTcp(p) /\ ~EcrKnown(s, p, config.tcp_ts_ecr_scaled))
      THEN /\ phase' = "failed"
           /\ sock' = IF found = NoSock THEN sock ELSE s
           /\ UNCHANGED <<injected, out, kern>>
      ELSE /\ sock' = IF IsTcp(q) THEN [s EXCEPT !.last_injected = Header(q)] ELSE s
           /\ injected' = [p |-> q, to |-> kern, script |-> p]
           /\ Receives(q)
           /\ UNCHANGED phase

-----------------------------------------------------------------------------
(* The author.  Inbound packets are the next that the kernel should get;   *)
(* the ones expected describe what it has sent or will send, or err in one *)
(* field.                                                                  *)

Rel(x, isn) == Minus(x, isn)
ScriptVal(v) == Plus(v, config.skew)

WithTs(p, i) ==
    IF config.ts THEN [p EXCEPT !.opts = <<TsOption(1, Plus(author.val, i))>> \o @] ELSE p

InboundPackets ==
    LET seq == Rel(kern.rcv, kern.irs)
        acks == {Plus(Rel(kern.una, kern.iss), i) : i \in 0..Minus(kern.nxt, kern.una)}
        in(flags, s, a, n) == WithTs(Packet("tcp", flags, s, a, n), 0)
        early == {WithTs(Packet("tcp", {"ack"}, seq, a, 0), 1) : a \in acks} IN
    IF config.proto = "udp"
    THEN IF kern.st = "established" /\ author.seen
           THEN {Packet("udp", {}, 0, 0, n) : n \in 1..MaxLen} ELSE {}
    ELSE
    CASE kern.st = "listen" -> {Packet("tcp", {"syn"}, i, 0, 0) : i \in Isns}
      [] kern.st = "syn_sent" /\ author.seen ->
           {in({"syn", "ack"}, i, Plus(author.isn, 1), 0) : i \in Isns}
      [] kern.st = "syn_rcvd" /\ author.seen ->
           {in({"ack"}, seq, Rel(kern.nxt, kern.iss), n) : n \in 0..1}
      [] kern.st = "established" ->
           {in({"ack"} \union f, seq, a, n) : a \in acks, n \in 0..MaxLen, f \in {{}, {"fin"}}}
           \union (IF config.ts THEN early ELSE {})
           \union (IF ~config.sack THEN {}
                   ELSE {[Packet("tcp", {"ack"}, seq, a, 0) EXCEPT
                            !.opts = <<SackOption(a, b)>>] : a \in acks, b \in acks}
                        \union {[Packet("icmp", {}, a, 0, 0) EXCEPT !.echoed = "tcp"]
                                  : a \in acks})
      [] OTHER -> {}

\* What the script should say of the segments qs
Describe(qs, isn) ==
    LET q == Head(qs) IN
    [q EXCEPT
       !.seq = CASE ~IsTcp(q) -> 0
                 [] IsTcp(q) /\ Has(q, "syn") -> isn
                 [] OTHER -> Rel(q.seq, kern.iss),
       !.ack_seq = IF Has(q, "ack") /\ ~Has(q, "syn") THEN Rel(@, kern.irs) ELSE @,
       !.len = Total(qs), !.udp_len = Total(qs),
       !.win = 1, !.data = "zeros", !.port = 0, !.time = "due",
       !.ip = Packet("tcp", {}, 0, 0, 0).ip,
       !.opts = IF config.ts
                  THEN <<TsOption(ScriptVal(Ts(Last(qs)).val), 0)>> ELSE <<>>,
       !.label = IF q.label = 0 THEN 0
                  ELSE IF author.label = NoPair THEN 1
                  ELSE IF q.label = author.label.live THEN author.label.script
                  ELSE 3 - author.label.script,
       !.tos_chk = config.tos_chk, !.nocheck = config.nocheck]

Mistake(p, field) ==
    CASE field = "none" -> p
      [] field = "seq" -> IF Has(p, "syn") THEN p ELSE [p EXCEPT !.seq = Plus(@, 1)]
      [] field = "ack" -> IF Has(p, "ack") THEN [p EXCEPT !.ack_seq = Plus(@, 1)] ELSE p
      [] field = "len" -> [p EXCEPT !.len = @ + 1, !.udp_len = @ + 1]
      [] field = "psh" -> [p EXCEPT !.flags = @ \union {"psh"}]
      [] field = "label" -> IF p.label = 0 THEN p ELSE [p EXCEPT !.label = 3 - @]

ExpectedPackets ==
    {Mistake(Describe(SubSeq(Own, 1, j), isn), m) :
       j \in {i \in DOMAIN Own : i = 1 \/ \A h \in 1..i : Own[h].len > 0},
       m \in config.mistakes \union {"none"},
       isn \in IF author.isn = NoIsn THEN Isns ELSE {author.isn}}
    \union (IF kern.st = "established" /\ Own = <<>>
              THEN {Describe(<<LivePacket(kern, {"ack"}, kern.nxt, n)>>, 0) : n \in 1..MaxLen}
              ELSE {})

OutboundEvent ==
    /\ phase = "idle" /\ budget.events > 0 /\ kern.st # "closed"
    /\ \E p \in ExpectedPackets :
         /\ BeginOutbound(p)
         /\ author' = [author EXCEPT !.isn = IF Has(p, "syn") THEN p.seq ELSE @,
                                     !.val = IF HasTs(p) THEN Ts(p).val ELSE @]
    /\ verdict' = NoVerdict
    /\ injected' = NoInjection
    /\ budget' = [budget EXCEPT !.events = @ - 1]
    /\ UNCHANGED <<config, out, kern>>

InboundEvent ==
    /\ phase = "idle" /\ budget.events > 0
    /\ \E p \in InboundPackets : RunInbound(p)
    /\ verdict' = NoVerdict
    /\ budget' = [budget EXCEPT !.events = @ - 1]
    /\ UNCHANGED <<config, ev, author>>

-----------------------------------------------------------------------------
(* socket_close() and reset_connection() at the end of the run.            *)

\* Seeded fault: the FIN that was injected is not counted
SequenceNoFin(h) == h.len + Cardinality(h.flags \intersect {"syn"})

\* The sequence numbers that a packet takes
SequenceLen(h) == h.len + Cardinality(h.flags \intersect {"syn", "fin"})

ResetPacket(s) ==
    LET i == s.last_injected
        o == s.last_outbound
        rst(seq, ack) == [Packet("tcp", {"rst", "ack"}, seq, ack, 0) EXCEPT
                            !.port = s.live.port] IN
    CASE "ack" \in i.flags -> rst(Plus(i.seq, SequenceLen(i)), i.ack_seq)
      [] "ack" \notin i.flags /\ "ack" \in o.flags -> rst(o.ack_seq, o.seq)
      [] OTHER -> rst(0, Plus(o.seq, 1))

SocketClose ==
    /\ phase = "idle"
    /\ phase' = "closed"
    /\ injected' = IF sock.proto = "tcp" /\ sock.live.port # 0
                     THEN [p |-> ResetPacket(sock), to |-> kern, script |-> <<>>] ELSE NoInjection
    /\ sock' = NoSock
    /\ UNCHANGED <<config, ev, verdict, out, kern, author, budget>>

-----------------------------------------------------------------------------
Init ==
    /\ config \in Configs
    /\ sock = NoSock /\ phase = "idle" /\ ev = NoEvent
    /\ verdict = NoVerdict /\ injected = NoInjection
    /\ out = <<>> /\ kern = Closed
    /\ author = [isn |-> NoIsn, seen |-> FALSE, reconnected |-> FALSE, val |-> 0,
                 label |-> NoPair]
    /\ budget = [events |-> config.events, sends |-> MaxSends]

Kernel == AppWrites \/ Retransmits \/ StrayPacket
Calls == Listen \/ Connect \/ Disconnect
Events == OutboundEvent \/ InboundEvent
Sniffs == SniffOther \/ SniffMore \/ SniffMismatch \/ SniffLast
Next == Kernel \/ Calls \/ Events \/ Sniffs \/ SocketClose

Spec == Init /\ [][Next]_vars

-----------------------------------------------------------------------------
States == {"NULL", "INIT", "NEW", "PASSIVE_LISTENING", "PASSIVE_PACKET_RECEIVED",
           "PASSIVE_SYNACK_SENT", "PASSIVE_SYNACK_ACKED", "ACTIVE_CONNECTING",
           "ACTIVE_SYN_SENT", "ACTIVE_SYN_ACKED"}

\* Type invariant: the socket under test, and an event in progress exactly
\* while packets are sniffed for it
TypeOK ==
    /\ sock.state \in States
    /\ {sock.live.local_isn, sock.live.remote_isn, sock.script.local_isn} \subseteq Numbers
    /\ sock.live.port \in Ports \union {0}
    /\ phase \in {"idle", "sniff", "failed", "closed"}
    /\ phase = "sniff" <=> ev # NoEvent

\* What run_packet_event() injects for a packet that the script means to be
\* the next of the connection is the next for the kernel: sequence number,
\* acknowledgment, SACK blocks, the sequence number that an ICMP message
\* echoes and the port all belong to the live connection.  (A UDP socket takes
\* the port of whatever was last sent to the remote side.)
KernelAccepts ==
    injected # NoInjection /\ phase # "closed"
      /\ (config.proto = "udp" => ~config.strays) =>
      LET p == injected.p
          k == injected.to IN
      /\ p.port = IF k.st = "listen" THEN ListenPort ELSE k.port
      /\ IsTcp(p) =>
           /\ Synchronized(k) => p.seq = k.rcv
           /\ Has(p, "ack") => InWindow(k, p.ack_seq)
           /\ \A i \in DOMAIN p.opts : p.opts[i].kind = "sack" =>
                InWindow(k, p.opts[i].left) /\ InWindow(k, p.opts[i].right)
      /\ IsIcmp(p) => InWindow(k, p.seq)

\* A time stamp that the script echoes reaches the kernel as the one that it
\* stands for, and unless echoes are interpolated as one that the kernel has
\* sent (map_inbound_packet() and the mapping learnt from outbound packets).
EchoIsGenuine ==
    injected # NoInjection /\ phase # "closed" /\ HasTs(injected.p) =>
      /\ Ts(injected.p).ecr = Minus(Ts(injected.script).ecr, config.skew)
      /\ ~config.tcp_ts_ecr_scaled => Ts(injected.p).ecr \in injected.to.vals

\* The segments of a verdict, taken together, are the packet of the script:
\* segments of TCP may be joined, a UDP datagram is a packet of its own
SamePacket(v) ==
    LET f == Head(v.raw)
        l == Last(v.raw)
        s == v.script IN
    /\ Total(v.raw) = s.len
    /\ IsTcp(s) \/ l.len = s.len
    /\ IsTcp(s) =>
         /\ l.flags = s.flags
         /\ f.seq = IF Has(s, "syn") THEN kern.iss ELSE Plus(kern.iss, s.seq)
         /\ \A i \in 1..Len(v.raw) - 1 :
              v.raw[i + 1].seq = Plus(v.raw[i].seq, v.raw[i].len)
         /\ Has(s, "ack") =>
              l.ack_seq = IF Has(s, "syn") THEN s.ack_seq ELSE Plus(kern.irs, s.ack_seq)
    /\ s.label # 0 /\ v.label # NoPair => (s.label = v.label.script <=> l.label = v.label.live)

\* What is wrong with a segment, and what the script does not look at
Faults(q) ==
    (IF q.ip.tos # 0 THEN {"tos"} ELSE {})
      \union (IF q.ip.sum # "good" THEN {"sum"} ELSE {})
      \union (IF q.win # 1 THEN {"win"} ELSE {})
      \union (IF \E i \in DOMAIN q.opts : q.opts[i].kind = "mss" THEN {"options"} ELSE {})
      \union (IF q.data # "zeros" THEN {"data"} ELSE {})
      \union (IF q.time # "due" THEN {"late"} ELSE {})
Unchecked(v) ==
    v.script.nocheck \union (IF v.script.tos_chk = "none" THEN {"tos"} ELSE {})
      \union (IF Len(v.raw) > 1 THEN {"sum"} ELSE {})

\* An outbound event ends with OK if the kernel sent, in its own numbers, what
\* the script describes in those of the script, and only then.  That a segment
\* before the last has the wrong options, TOS byte or checksum is not seen.
\* Datagrams that were joined into one of the script's length never pass: the
\* joined packet has the UDP header of the last, with its length.
VerdictExact ==
    verdict.result # "none" =>
      LET v == verdict IN
      /\ v.result = "ok" =>
           /\ SamePacket(v)
           /\ Faults(Last(v.raw)) \subseteq Unchecked(v)
           /\ \A i \in DOMAIN v.raw : Faults(v.raw[i]) \intersect {"win", "data"}
                                        \subseteq Unchecked(v)
      /\ SamePacket(v) /\ (\A i \in DOMAIN v.raw : Faults(v.raw[i]) = {})
           /\ (\A i \in 1..Len(v.raw) - 1 : v.raw[i].len = v.raw[1].len
                                            /\ v.raw[i].port = v.raw[1].port
                                            /\ v.raw[i].ack_seq = v.raw[1].ack_seq)
         => v.result = "ok"

\* Packets that an outbound event joins are of one connection, also when
\* another one to the same remote side gets in between.
OneFlow ==
    verdict.result # "none" =>
      \A i \in DOMAIN verdict.raw : verdict.raw[i].port = verdict.raw[1].port

\* The RST that socket_close() injects is one that the kernel obeys: in
\* sequence, or acknowledging its SYN, whenever the script has seen a packet
\* of the connection.
ResetObeyed ==
    phase = "closed" /\ injected # NoInjection /\ author.seen /\ ~author.reconnected =>
      LET p == injected.p
          k == injected.to IN
      /\ p.port = k.port
      /\ Synchronized(k) => p.seq = k.rcv
      /\ k.st = "syn_sent" => p.ack_seq = k.nxt
=============================================================================
