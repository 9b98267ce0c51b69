------------------------- MODULE PacketEventsProofs -------------------------
(***************************************************************************)
(* Proofs about PacketEvents, for every sequence space, all ISNs, lengths, *)
(* queues and configurations.                                              *)
(*                                                                         *)
(* The invariant says for each state of the kernel what the socket of the  *)
(* script knows of the connection.  Before the script has described a      *)
(* packet it is Waiting.  From then on it is Tracked: it is Connecting     *)
(* while the kernel has sent its SYN, Accepting while it has sent its      *)
(* SYN-ACK, and Connected afterwards, and its live numbers and the headers *)
(* kept for the reset are the kernel's own as far as packets have been     *)
(* sniffed and injected.  Wire says that what is on its way to             *)
(* netdev_receive() is of the connection, with the numbers that the socket *)
(* will need, or of another one, which it will tell by the port.  That a   *)
(* number of the script is mapped to the kernel's own is then modular      *)
(* arithmetic (ThereAndBack, AcksAreMapped, SynAckIsMapped).               *)
(***************************************************************************)
EXTENDS PacketEvents, TLAPS, SequenceTheorems, FiniteSetTheorems,
        WellFoundedInduction

\* Time for each leaf of a proof, in seconds
USE SMTT(20), ZenonT(40)

-----------------------------------------------------------------------------
(* Sequence numbers.                                                       *)

LEMMA NumbersAreClosed ==
  ASSUME NEW a \in Int, NEW b \in Int
  PROVE  Plus(a, b) \in Numbers /\ Minus(a, b) \in Numbers
  <1>1. PICK n \in Nat \ {0} : n = SeqSpace
    BY SeqSpaceAssumption
  <1>2. \A x \in Int : x % n \in 0 .. n - 1
    OBVIOUS
  <1>3. a + b \in Int /\ a - b \in Int
    OBVIOUS
  <1>4. QED
    BY <1>1, <1>2, <1>3 DEF Plus, Minus, Numbers

\* The three cases of reduction that occur
LEMMA Reduced ==
  ASSUME NEW n \in Nat \ {0}
  PROVE  /\ \A x \in 0 .. n - 1 : x % n = x
         /\ \A x \in n .. n + n - 1 : x % n = x - n
         /\ \A x \in -n .. -1 : x % n = x + n
  OBVIOUS

LEMMA SumIs ==
  ASSUME NEW a \in Numbers, NEW b \in Numbers
  PROVE  /\ a \in Nat /\ b \in Nat /\ SeqSpace \in Nat \ {0} /\ a < SeqSpace /\ b < SeqSpace
         /\ Plus(a, b) = IF a + b < SeqSpace THEN a + b ELSE a + b - SeqSpace
         /\ Minus(a, b) = IF a >= b THEN a - b ELSE a - b + SeqSpace
  <1>1. PICK n \in Nat \ {0} : n = SeqSpace
    BY SeqSpaceAssumption
  <1>2. a \in 0 .. n - 1 /\ b \in 0 .. n - 1
    BY <1>1 DEF Numbers
  <1>3. PICK x \in Int, y \in Int : x = a + b /\ y = a - b
    BY <1>2
  <1>4. /\ x % n = IF x < n THEN x ELSE x - n
        /\ y % n = IF y >= 0 THEN y ELSE y + n
    <2>1. x < n => x \in 0 .. n - 1
      BY <1>2, <1>3
    <2>2. ~(x < n) => x \in n .. n + n - 1
      BY <1>2, <1>3
    <2>3. y >= 0 => y \in 0 .. n - 1
      BY <1>2, <1>3
    <2>4. ~(y >= 0) => y \in -n .. -1
      BY <1>2, <1>3
    <2>5. QED
      BY <2>1, <2>2, <2>3, <2>4, Reduced
  <1>5. y >= 0 <=> a >= b
    BY <1>2, <1>3
  <1>6. QED
    BY <1>1, <1>2, <1>3, <1>4, <1>5 DEF Plus, Minus

LEMMA PlusZero == ASSUME NEW a \in Numbers PROVE Plus(a, 0) = a
  <1>1. 0 \in Numbers
    BY SeqSpaceAssumption DEF Numbers
  <1>2. QED
    BY <1>1, SumIs

\* From live to script and back
LEMMA ThereAndBack ==
  ASSUME NEW a \in Numbers, NEW b \in Numbers
  PROVE  Plus(Minus(a, b), b) = a
  <1>1. PICK d \in Numbers : d = Minus(a, b)
    BY NumbersAreClosed DEF Numbers
  <1>2. PICK n \in Nat : n = SeqSpace
    BY SumIs
  <1>3. /\ a \in Nat /\ b \in Nat /\ d \in Nat /\ a < n /\ b < n /\ d < n
        /\ d = IF a >= b THEN a - b ELSE a - b + n
        /\ Plus(d, b) = IF d + b < n THEN d + b ELSE d + b - n
    BY <1>1, <1>2, SumIs
  <1>4. Plus(d, b) = a
    BY <1>3
  <1>5. QED
    BY <1>1, <1>4

\* An acknowledgment i bytes into the window, which the script counts from the
\* ISN
LEMMA AcksAreMapped ==
  ASSUME NEW una \in Numbers, NEW iss \in Numbers, NEW i \in Numbers
  PROVE  /\ Plus(Plus(Minus(una, iss), i), iss) = Plus(una, i)
         /\ Minus(Plus(una, i), una) = i
  <1>1. PICK d \in Numbers : d = Minus(una, iss)
    BY NumbersAreClosed DEF Numbers
  <1>2. PICK e \in Numbers : e = Plus(d, i)
    BY NumbersAreClosed DEF Numbers
  <1>3. PICK f \in Numbers : f = Plus(una, i)
    BY NumbersAreClosed DEF Numbers
  <1>4. PICK n \in Nat : n = SeqSpace
    BY SumIs
  <1>5. /\ una \in Nat /\ iss \in Nat /\ i \in Nat /\ d \in Nat /\ e \in Nat /\ f \in Nat
        /\ una < n /\ iss < n /\ i < n /\ d < n /\ e < n /\ f < n
    BY <1>4, SumIs
  <1>6. /\ d = IF una >= iss THEN una - iss ELSE una - iss + n
        /\ e = IF d + i < n THEN d + i ELSE d + i - n
        /\ f = IF una + i < n THEN una + i ELSE una + i - n
        /\ Plus(e, iss) = IF e + iss < n THEN e + iss ELSE e + iss - n
        /\ Minus(f, una) = IF f >= una THEN f - una ELSE f - una + n
    BY <1>1, <1>2, <1>3, <1>4, SumIs
  <1>7. Plus(e, iss) = f
    BY <1>5, <1>6
  <1>8. Minus(f, una) = i
    BY <1>5, <1>6
  <1>9. QED
    BY <1>1, <1>2, <1>3, <1>7, <1>8

\* The acknowledgment of the SYN, in the numbers of the script an absolute one
LEMMA SynAckIsMapped ==
  ASSUME NEW iss \in Numbers, NEW isn \in Numbers
  PROVE  Plus(Plus(isn, 1), Minus(iss, isn)) = Plus(iss, 1)
  <1>1. PICK d \in Numbers : d = Minus(iss, isn)
    BY NumbersAreClosed DEF Numbers
  <1>2. PICK n \in Nat \ {0} : n = SeqSpace
    BY SeqSpaceAssumption
  <1>3. CASE n = 1
    <2>1. Plus(Plus(isn, 1), d) \in Numbers /\ Plus(iss, 1) \in Numbers
      BY <1>1, NumbersAreClosed DEF Numbers
    <2>2. QED
      BY <1>1, <1>2, <1>3, <2>1 DEF Numbers
  <1>4. CASE n # 1
    <2>1. 1 \in Numbers
      BY <1>2, <1>4 DEF Numbers
    <2>2. PICK e \in Numbers : e = Plus(isn, 1)
      BY NumbersAreClosed DEF Numbers
    <2>3. /\ iss \in Nat /\ isn \in Nat /\ d \in Nat /\ e \in Nat
          /\ iss < n /\ isn < n /\ d < n /\ e < n
          /\ d = IF iss >= isn THEN iss - isn ELSE iss - isn + n
          /\ e = IF isn + 1 < n THEN isn + 1 ELSE isn + 1 - n
          /\ Plus(e, d) = IF e + d < n THEN e + d ELSE e + d - n
          /\ Plus(iss, 1) = IF iss + 1 < n THEN iss + 1 ELSE iss + 1 - n
      BY <1>1, <1>2, <2>1, <2>2, SumIs
    <2>4. Plus(e, d) = Plus(iss, 1)
      BY <1>2, <2>3
    <2>5. QED
      BY <1>1, <2>2, <2>4
  <1>5. QED
    BY <1>3, <1>4

-----------------------------------------------------------------------------
(* Packets and sequences of packets.                                       *)

PacketFields == {"proto", "enc", "flags", "seq", "ack_seq", "len", "udp_len", "win", "opts",
                 "data", "port", "label", "time", "ip", "tos_chk", "nocheck", "echoed", "type_code"}
IsPacket(p) == DOMAIN p = PacketFields

LEMMA PacketIs ==
  ASSUME NEW proto, NEW flags, NEW seq, NEW ack_seq, NEW len
  PROVE  LET p == Packet(proto, flags, seq, ack_seq, len) IN
         /\ IsPacket(p) /\ p.proto = proto /\ p.flags = flags /\ p.seq = seq /\ p.ack_seq = ack_seq
         /\ p.len = len /\ p.opts = <<>> /\ p.port = 0 /\ p.echoed = "none"
  BY DEF Packet, IsPacket, PacketFields

\* Fields of a packet that the kernel makes
Made(k, flags, seq, q) ==
    /\ IsPacket(q) /\ q.port = k.port
    /\ IF config.proto = "udp"
         THEN q.proto = "udp" /\ q.flags = {} /\ q.seq = 0 /\ q.ack_seq = 0
         ELSE /\ q.proto = "tcp" /\ q.flags = flags /\ q.seq = seq
              /\ q.ack_seq = IF "ack" \in flags THEN k.rcv ELSE 0

LEMMA LivePacketIs ==
  ASSUME NEW k, NEW flags, NEW seq, NEW len
  PROVE  Made(k, flags, seq, LivePacket(k, flags, seq, len))
  <1>1. PICK b : b = IF config.proto = "udp" THEN Packet("udp", {}, 0, 0, len)
                     ELSE Packet("tcp", flags, seq, IF "ack" \in flags THEN k.rcv ELSE 0, len)
    OBVIOUS
  <1>2. /\ IsPacket(b)
        /\ IF config.proto = "udp"
             THEN b.proto = "udp" /\ b.flags = {} /\ b.seq = 0 /\ b.ack_seq = 0
             ELSE /\ b.proto = "tcp" /\ b.flags = flags /\ b.seq = seq
                  /\ b.ack_seq = IF "ack" \in flags THEN k.rcv ELSE 0
    BY <1>1, PacketIs
  <1>3. PICK l, o : LivePacket(k, flags, seq, len) =
                      [b EXCEPT !.port = k.port, !.tos_chk = "none", !.nocheck = {},
                                !.label = l, !.opts = o]
    BY <1>1 DEF LivePacket
  <1>4. QED
    BY <1>2, <1>3 DEF Made, IsPacket, PacketFields

LEMMA DeviateIs ==
  ASSUME NEW k, NEW flags, NEW seq, NEW q, Made(k, flags, seq, q), NEW dev \in {"none"} \cup Deviations
  PROVE  Made(k, flags, seq, Deviate(q, dev))
  BY DEF Made, Deviate, Deviations, IsPacket, PacketFields

IsList(s) == \E S : s \in Seq(S)

LEMMA ListIs ==
  ASSUME NEW s, IsList(s)
  PROVE  Len(s) \in Nat /\ DOMAIN s = 1 .. Len(s)
  BY DEF IsList

LEMMA ListsJoined ==
  ASSUME NEW s, NEW t, IsList(s), IsList(t)
  PROVE  /\ IsList(s \o t)
         /\ \A i \in 1 .. Len(s \o t) : \/ i \in 1 .. Len(s) /\ (s \o t)[i] = s[i]
                                        \/ \E j \in 1 .. Len(t) : (s \o t)[i] = t[j]
  <1>1. PICK S, T : s \in Seq(S) /\ t \in Seq(T)
    BY DEF IsList
  <1>2. PICK m \in Nat, n \in Nat : m = Len(s) /\ n = Len(t)
    BY <1>1
  <1>3. PICK U : U = S \cup T
    OBVIOUS
  <1>4. s \in Seq(U) /\ t \in Seq(U)
    BY <1>1, <1>3
  <1>5. /\ s \o t \in Seq(U) /\ Len(s \o t) = m + n
        /\ \A i \in 1 .. m + n : (s \o t)[i] = IF i <= m THEN s[i] ELSE t[i - m]
    BY <1>2, <1>4, ConcatProperties
  <1>6. ASSUME NEW i \in 1 .. m + n
        PROVE  \/ i \in 1 .. m /\ (s \o t)[i] = s[i]
               \/ \E j \in 1 .. n : (s \o t)[i] = t[j]
    <2>1. CASE i <= m
      BY <1>5, <2>1
    <2>2. CASE ~(i <= m)
      <3>1. i - m \in 1 .. n
        BY <2>2
      <3>2. QED
        BY <1>5, <2>2, <3>1
    <2>3. QED
      BY <2>1, <2>2
  <1>7. QED
    BY <1>2, <1>5, <1>6 DEF IsList

LEMMA ListAppended ==
  ASSUME NEW s, NEW e, IsList(s)
  PROVE  /\ IsList(Append(s, e)) /\ Len(Append(s, e)) = Len(s) + 1
         /\ \A i \in 1 .. Len(s) : Append(s, e)[i] = s[i]
         /\ Append(s, e)[Len(s) + 1] = e
  <1>1. PICK S : s \in Seq(S)
    BY DEF IsList
  <1>2. PICK U : U = S \cup {e}
    OBVIOUS
  <1>3. s \in Seq(U) /\ e \in U
    BY <1>1, <1>2
  <1>4. /\ Append(s, e) \in Seq(U) /\ Len(Append(s, e)) = Len(s) + 1
        /\ \A i \in 1 .. Len(s) : Append(s, e)[i] = s[i]
        /\ Append(s, e)[Len(s) + 1] = e
    BY <1>3, AppendProperties
  <1>5. QED
    BY <1>4 DEF IsList

LEMMA HeadAndTail ==
  ASSUME NEW s, IsList(s), s # <<>>
  PROVE  /\ 1 \in 1 .. Len(s) /\ Head(s) = s[1] /\ IsList(Tail(s))
         /\ \A i \in 1 .. Len(Tail(s)) : \E j \in 1 .. Len(s) : Tail(s)[i] = s[j]
  <1>1. PICK S : s \in Seq(S)
    BY DEF IsList
  <1>2. PICK n \in Nat \ {0} : n = Len(s)
    BY <1>1, EmptySeq
  <1>3. /\ Head(s) = s[1] /\ Tail(s) \in Seq(S) /\ Len(Tail(s)) = n - 1
        /\ \A i \in 1 .. n - 1 : Tail(s)[i] = s[i + 1]
    BY <1>1, <1>2, HeadTailProperties
  <1>4. \A i \in 1 .. n - 1 : i + 1 \in 1 .. n
    OBVIOUS
  <1>5. QED
    BY <1>2, <1>3, <1>4 DEF IsList

LEMMA ShortLists ==
  /\ IsList(<<>>) /\ Len(<<>>) = 0
  /\ \A e : IsList(<<e>>) /\ Len(<<e>>) = 1 /\ <<e>>[1] = e
  /\ \A n \in Nat : \A f : f = [i \in 1 .. n |-> f[i]] => IsList(f) /\ Len(f) = n
  <1>1. \A S : <<>> \in Seq(S)
    OBVIOUS
  <1>2. \A e : <<e>> \in Seq({e})
    OBVIOUS
  <1>3. ASSUME NEW n \in Nat, NEW f, f = [i \in 1 .. n |-> f[i]]
        PROVE  IsList(f) /\ Len(f) = n
    <2>1. PICK S : S = {f[i] : i \in 1 .. n}
      OBVIOUS
    <2>2. f \in [1 .. n -> S]
      BY <1>3, <2>1
    <2>3. f \in Seq(S)
      BY <2>2
    <2>4. QED
      BY <2>2, <2>3 DEF IsList
  <1>4. QED
    BY <1>1, <1>2, <1>3 DEF IsList

-----------------------------------------------------------------------------
(* The invariant.  What the code knows of the connection is tied to the    *)
(* kernel's numbers, state by state of the kernel.                         *)

KernFields == {"st", "port", "iss", "irs", "rcv", "nxt", "una", "clock", "ts_recent", "vals", "label"}

KernOK(k) ==
    /\ DOMAIN k = KernFields
    /\ k.st \in {"closed", "listen", "syn_sent", "syn_rcvd", "established"}
    /\ k.port \in 0 .. 3
    /\ {k.iss, k.irs, k.rcv, k.nxt, k.una} \subseteq Numbers
    /\ k.st = "syn_sent" => k.una = k.iss /\ k.nxt = Plus(k.iss, 1)
    /\ k.st = "syn_rcvd" => k.port = ListenPort

\* A packet on its way to netdev_receive(): of the connection, or of another
OnWire(c, k, q) ==
    /\ IsPacket(q) /\ q.proto = c.proto /\ q.seq \in Numbers /\ q.ack_seq \in Numbers
    /\ c.proto = "udp" => q.flags = {}
    /\ \/ q.port = StrayPort /\ c.strays /\ "syn" \notin q.flags
       \/ /\ q.port = k.port /\ k.st \in {"syn_sent", "syn_rcvd", "established"}
          /\ "syn" \in q.flags => q.seq = k.iss
          /\ c.proto = "tcp" =>
               /\ k.st = "syn_sent" => q.flags = {"syn"}
               /\ k.st = "syn_rcvd" => q.flags = {"syn", "ack"} /\ q.ack_seq = k.rcv

SockFields == {"state", "proto", "script", "live", "ts_val_map", "first_ts", "label",
               "last_outbound", "last_injected"}

SockOK(s) ==
    /\ DOMAIN s = SockFields
    /\ DOMAIN s.script = {"local_isn", "remote_isn"}
    /\ DOMAIN s.live = {"local_isn", "remote_isn", "port"}
    /\ s.state \in States
    /\ {s.live.local_isn, s.live.remote_isn, s.script.local_isn} \subseteq Numbers
    /\ s.live.port \in Ports \cup {0}

\* The script has described no packet since the last system call
Waiting(c, s, k, a) ==
    /\ c.proto = "tcp" /\ ~a.seen
    /\ k.st \in {"closed", "listen", "syn_sent"}
    /\ k.st = "closed" =>
         /\ a.isn = NoIsn /\ s.live.port = k.port
         /\ \/ s = NoSock
            \/ s.state = "NEW" /\ s.proto = "tcp" /\ ~c.passive /\ ~c.is_wire_server /\ a.reconnected
    /\ k.st = "listen" => IF c.is_wire_server THEN s = NoSock ELSE s.state = "PASSIVE_LISTENING"
    /\ k.st = "syn_sent" =>
         /\ IF c.is_wire_server THEN s = NoSock ELSE s.state = "ACTIVE_CONNECTING" /\ s.proto = "tcp"
         /\ a.isn = NoIsn /\ s.live.port # k.port /\ s.live.port # StrayPort
         /\ ~a.reconnected => "ack" \notin s.last_injected.flags

\* run_packet_event() has a socket for the connection, which it has come across
\* on the wire once an event has been concluded
Connecting(s, k, a) ==
    /\ s.state = "ACTIVE_SYN_SENT" /\ s.script.local_isn = a.isn /\ a.isn # NoIsn
    /\ ~a.reconnected => "ack" \notin s.last_injected.flags
    /\ IF s.live.port = k.port
         THEN /\ s.live.local_isn = k.iss
              /\ s.last_outbound.flags = {"syn"} /\ s.last_outbound.seq = k.iss
         ELSE ~a.seen

Accepting(s, k, a) ==
    /\ s.live.port = k.port /\ s.live.remote_isn = k.irs
    /\ "ack" \notin s.last_injected.flags
    /\ \/ s.state = "PASSIVE_PACKET_RECEIVED" /\ ~a.seen
       \/ /\ s.state = "PASSIVE_SYNACK_SENT" /\ s.live.local_isn = k.iss
          /\ "ack" \in s.last_outbound.flags /\ s.last_outbound.ack_seq = k.rcv

Connected(s, k) ==
    /\ s.state \in {"PASSIVE_SYNACK_ACKED", "ACTIVE_SYN_ACKED"}
    /\ s.live.port = k.port /\ s.live.local_isn = k.iss /\ s.live.remote_isn = k.irs
    /\ "ack" \in s.last_injected.flags
    /\ Plus(s.last_injected.seq, SequenceLen(s.last_injected)) = k.rcv

Tracked(c, s, k, a) ==
    IF c.proto = "udp"
    THEN s.proto # "tcp" /\ (~c.strays /\ a.seen => s.live.port = k.port /\ k.st # "closed")
    ELSE /\ s.proto = "tcp" /\ s.live.port # StrayPort
         /\ k.st \in {"syn_sent", "syn_rcvd", "established"}
         /\ k.st = "syn_sent" => Connecting(s, k, a)
         /\ k.st = "syn_rcvd" => Accepting(s, k, a)
         /\ k.st = "established" => Connected(s, k)

Expecting == config.proto = "tcp" /\ kern.st = "syn_rcvd" => SynAck(ev.script)

Linked ==
    /\ phase = "idle" => Waiting(config, sock, kern, author) \/ Tracked(config, sock, kern, author)
    /\ phase = "sniff" => Tracked(config, sock, kern, author) /\ Expecting

Wire == IsList(out) /\ \A i \in 1 .. Len(out) : OnWire(config, kern, out[i])

\* The packets sniffed so far are of one connection
Sniffed(e) ==
    /\ IsList(e.raw) /\ IsList(e.sniffed) /\ Len(e.raw) = Len(e.sniffed)
    /\ \A i \in 1 .. Len(e.raw) : e.raw[i].port = e.raw[1].port /\ e.sniffed[i].port = e.raw[i].port

Event ==
    /\ DOMAIN ev = {"script", "sniffed", "raw"} /\ Sniffed(ev)
    /\ IF phase = "sniff" THEN IsPacket(ev.script) ELSE ev = NoEvent

AuthorFields == {"isn", "seen", "reconnected", "val", "label"}

Shapes ==
    /\ config \in Configs
    /\ phase \in {"idle", "sniff", "failed", "closed"}
    /\ DOMAIN author = AuthorFields /\ author.isn \in Isns \cup {NoIsn}
    /\ KernOK(kern) /\ SockOK(sock) /\ Wire /\ Event

IInv == Shapes /\ Linked /\ KernelAccepts /\ OneFlow /\ ResetObeyed

\* What of a kernel the invariant looks at
SameKern(k, l) ==
    /\ l.st = k.st /\ l.port = k.port /\ l.iss = k.iss /\ l.irs = k.irs /\ l.rcv = k.rcv
    /\ DOMAIN l = DOMAIN k

LEMMA ConfigIs ==
  ASSUME config \in Configs
  PROVE  /\ config.proto \in {"tcp", "udp"} /\ config.deviations \subseteq Deviations
         /\ config.mistakes \subseteq Slips
  BY ConfigsAssumption

LEMMA OnWireOfSame ==
  ASSUME NEW c, NEW k, NEW l, NEW q, OnWire(c, k, q), SameKern(k, l)
  PROVE  OnWire(c, l, q)
  BY DEF OnWire, SameKern

LEMMA TrackedOfSame ==
  ASSUME NEW c, NEW s, NEW k, NEW l, NEW a, SameKern(k, l)
  PROVE  /\ Tracked(c, s, k, a) => Tracked(c, s, l, a)
         /\ Waiting(c, s, k, a) => Waiting(c, s, l, a)
  <1>1. Tracked(c, s, k, a) => Tracked(c, s, l, a)
    BY DEF SameKern, Tracked, Connecting, Accepting, Connected
  <1>2. Waiting(c, s, k, a) => Waiting(c, s, l, a)
    BY DEF SameKern, Waiting
  <1>3. QED
    BY <1>1, <1>2

LEMMA ZeroAndOne == 0 \in Numbers /\ \A x \in Numbers : x \in Int
  BY SeqSpaceAssumption DEF Numbers

LEMMA MadeIsOnWire ==
  ASSUME NEW k, NEW flags, NEW seq, NEW q, Made(k, flags, seq, q), KernOK(k), seq \in Numbers,
         config \in Configs, k.st \in {"syn_sent", "syn_rcvd", "established"},
         "syn" \in flags => seq = k.iss,
         k.st = "syn_sent" => flags = {"syn"}, k.st = "syn_rcvd" => flags = {"syn", "ack"}
  PROVE  OnWire(config, k, q)
  <1>1. q.seq \in Numbers /\ q.ack_seq \in Numbers /\ q.proto = config.proto /\ IsPacket(q)
    BY ConfigIs, ZeroAndOne DEF Made, KernOK
  <1>2. "syn" \in q.flags => q.seq = k.iss
    BY ConfigIs DEF Made
  <1>3. q.port = k.port
    BY DEF Made
  <1>4. /\ config.proto = "tcp" => /\ k.st = "syn_sent" => q.flags = {"syn"}
                                   /\ k.st = "syn_rcvd" => q.flags = {"syn", "ack"} /\ q.ack_seq = k.rcv
        /\ config.proto = "udp" => q.flags = {}
    BY DEF Made
  <1>5. QED
    BY <1>1, <1>2, <1>3, <1>4 DEF OnWire

LEMMA UnackedIsOnWire ==
  ASSUME NEW k, KernOK(k), config \in Configs
  PROVE  /\ IsList(Unacked(k))
         /\ \A i \in 1 .. Len(Unacked(k)) : OnWire(config, k, Unacked(k)[i])
  <1>1. PICK iss \in Numbers, una \in Numbers : iss = k.iss /\ una = k.una
    BY DEF KernOK
  <1>2. CASE k.st = "syn_sent"
    <2>1. PICK q : q = LivePacket(k, {"syn"}, iss, 0) /\ Unacked(k) = <<q>>
      BY <1>1, <1>2 DEF Unacked
    <2>2. Made(k, {"syn"}, iss, q)
      BY <2>1, LivePacketIs
    <2>3. OnWire(config, k, q)
      BY <1>1, <1>2, <2>2, MadeIsOnWire
    <2>4. QED
      BY <2>1, <2>3, ShortLists
  <1>3. CASE k.st = "syn_rcvd"
    <2>1. PICK q : q = LivePacket(k, {"syn", "ack"}, iss, 0) /\ Unacked(k) = <<q>>
      BY <1>1, <1>3 DEF Unacked
    <2>2. Made(k, {"syn", "ack"}, iss, q)
      BY <2>1, LivePacketIs
    <2>3. OnWire(config, k, q)
      BY <1>1, <1>3, <2>2, MadeIsOnWire
    <2>4. QED
      BY <2>1, <2>3, ShortLists
  <1>4. CASE k.st = "established" /\ k.una # k.nxt
    <2>1. PICK q : q = LivePacket(k, {"ack"}, una, Minus(k.nxt, una)) /\ Unacked(k) = <<q>>
      BY <1>1, <1>4 DEF Unacked
    <2>2. Made(k, {"ack"}, una, q)
      BY <2>1, LivePacketIs
    <2>3. OnWire(config, k, q)
      BY <1>1, <1>4, <2>2, MadeIsOnWire
    <2>4. QED
      BY <2>1, <2>3, ShortLists
  <1>5. CASE k.st \notin {"syn_sent", "syn_rcvd"} /\ ~(k.st = "established" /\ k.una # k.nxt)
    BY <1>5, ShortLists DEF Unacked
  <1>6. QED
    BY <1>2, <1>3, <1>4, <1>5

\* Packets ps are sent, by a kernel that the earlier ones fit as well
LEMMA SendsKeepsWire ==
  ASSUME NEW k, NEW ps, Wire, Sends(k, ps), KernOK(k), IsList(ps), config' = config,
         \A q : OnWire(config, kern, q) => OnWire(config, k, q),
         \A i \in 1 .. Len(ps) : OnWire(config, k, ps[i])
  PROVE  Wire' /\ KernOK(kern') /\ SameKern(k, kern') /\ kern'.una = k.una /\ kern'.nxt = k.nxt
  <1>1. PICK l, v : l = kern' /\ l = [k EXCEPT !.vals = v]
    BY DEF Sends
  <1>2. SameKern(k, l) /\ KernOK(l) /\ l.una = k.una /\ l.nxt = k.nxt
    BY <1>1 DEF KernOK, KernFields, SameKern
  <1>3. out' = out \o ps /\ IsList(out)
    BY DEF Sends, Wire
  <1>4. IsList(out')
    BY <1>3, ListsJoined
  <1>5. ASSUME NEW i \in 1 .. Len(out')
        PROVE  OnWire(config, l, out'[i])
    <2>1. \/ i \in 1 .. Len(out) /\ out'[i] = out[i]
          \/ \E j \in 1 .. Len(ps) : out'[i] = ps[j]
      BY <1>3, <1>5, ListsJoined
    <2>2. OnWire(config, k, out'[i])
      BY <2>1 DEF Wire
    <2>3. QED
      BY <1>2, <2>2, OnWireOfSame
  <1>6. QED
    BY <1>1, <1>2, <1>4, <1>5 DEF Wire

\* A step of the kernel that the script does not wait for
LEMMA KernelStepKeeps ==
  ASSUME IInv, UNCHANGED <<codeVars, author>>, Wire', KernOK(kern'), SameKern(kern, kern')
  PROVE  IInv'
  <1>1. UNCHANGED <<config, sock, phase, ev, verdict, injected, author>>
    BY DEF codeVars
  <1>2. Shapes'
    BY <1>1 DEF IInv, Shapes, Event
  <1>3. Linked'
    <2>1. kern'.st = kern.st
      BY DEF SameKern
    <2>2. Expecting => Expecting'
      BY <1>1, <2>1 DEF Expecting
    <2>3. /\ Tracked(config, sock, kern, author) => Tracked(config, sock, kern', author)
          /\ Waiting(config, sock, kern, author) => Waiting(config, sock, kern', author)
      BY TrackedOfSame
    <2>4. QED
      BY <1>1, <2>2, <2>3 DEF IInv, Linked
  <1>4. (KernelAccepts /\ OneFlow /\ ResetObeyed)'
    BY <1>1 DEF IInv, KernelAccepts, OneFlow, ResetObeyed
  <1>5. QED
    BY <1>2, <1>3, <1>4 DEF IInv

-----------------------------------------------------------------------------
(* Steps of the kernel under test.                                         *)

LEMMA SegmentsAreOnWire ==
  ASSUME NEW k, KernOK(k), k.st = "established", config \in Configs, NEW n \in Nat,
         NEW segs \in Segments(k, n)
  PROVE  /\ IsList(segs) /\ segs = [i \in DOMAIN segs |-> segs[i]]
         /\ \A i \in DOMAIN segs : \E seq \in Numbers : Made(k, {"ack"}, seq, segs[i])
  <1>1. k.nxt \in Numbers /\ \A i \in 1 .. n : Plus(k.nxt, i - 1) \in Numbers
    <2>1. k.nxt \in Numbers /\ k.nxt \in Int
      BY ZeroAndOne DEF KernOK
    <2>2. \A i \in 1 .. n : i - 1 \in Int
      OBVIOUS
    <2>3. QED
      BY <2>1, <2>2, NumbersAreClosed
  <1>2. CASE segs = <<LivePacket(k, {"ack"}, k.nxt, n)>>
    <2>1. PICK q : q = LivePacket(k, {"ack"}, k.nxt, n) /\ Made(k, {"ack"}, k.nxt, q)
      BY LivePacketIs
    <2>2. segs = <<q>> /\ DOMAIN segs = {1} /\ segs[1] = q /\ IsList(segs)
      BY <1>2, <2>1, ShortLists
    <2>3. QED
      BY <1>1, <2>1, <2>2
  <1>3. CASE segs = [i \in 1 .. n |-> LivePacket(k, {"ack"}, Plus(k.nxt, i - 1), 1)]
    <2>1. /\ DOMAIN segs = 1 .. n /\ segs = [i \in 1 .. n |-> segs[i]]
          /\ \A i \in 1 .. n : segs[i] = LivePacket(k, {"ack"}, Plus(k.nxt, i - 1), 1)
      BY <1>3
    <2>2. \A i \in 1 .. n : Made(k, {"ack"}, Plus(k.nxt, i - 1), segs[i])
      BY <2>1, LivePacketIs
    <2>3. QED
      BY <1>1, <2>1, <2>2, ShortLists
  <1>4. QED
    BY <1>2, <1>3 DEF Segments

LEMMA AppWritesStep == IInv /\ AppWrites => IInv'
  <1> SUFFICES ASSUME IInv, AppWrites PROVE IInv'
    OBVIOUS
  <1>1. /\ KernOK(kern) /\ Wire /\ config \in Configs /\ UNCHANGED <<codeVars, author>>
        /\ kern.st = "established"
    BY DEF IInv, Shapes, AppWrites
  <1>2. PICK n \in 1 .. MaxLen, dev \in {"none"} \cup config.deviations :
           \E segs \in Segments(kern, n) : \E i \in DOMAIN segs :
             Sends([kern EXCEPT !.nxt = Plus(@, n)], [segs EXCEPT ![i] = Deviate(@, dev)])
    BY DEF AppWrites
  <1> PICK segs \in Segments(kern, n) : \E i \in DOMAIN segs :
             Sends([kern EXCEPT !.nxt = Plus(@, n)], [segs EXCEPT ![i] = Deviate(@, dev)])
    BY <1>2
  <1> PICK i \in DOMAIN segs :
             Sends([kern EXCEPT !.nxt = Plus(@, n)], [segs EXCEPT ![i] = Deviate(@, dev)])
    OBVIOUS
  <1>3. PICK k, ps : /\ k = [kern EXCEPT !.nxt = Plus(kern.nxt, n)]
                     /\ ps = [segs EXCEPT ![i] = Deviate(segs[i], dev)] /\ Sends(k, ps)
    OBVIOUS
  <1>4. KernOK(k) /\ SameKern(kern, k)
    <2>1. n \in Int /\ kern.nxt \in Int
      BY <1>1, ZeroAndOne DEF KernOK
    <2>2. Plus(kern.nxt, n) \in Numbers
      BY <2>1, NumbersAreClosed
    <2>3. QED
      BY <1>1, <1>3, <2>2 DEF KernOK, KernFields, SameKern
  <1>5. /\ IsList(segs) /\ segs = [h \in DOMAIN segs |-> segs[h]]
        /\ \A h \in DOMAIN segs : \E seq \in Numbers : Made(kern, {"ack"}, seq, segs[h])
    <2>1. n \in Nat
      OBVIOUS
    <2>2. QED
      BY <1>1, <2>1, SegmentsAreOnWire
  <1>6. PICK m \in Nat : m = Len(segs) /\ DOMAIN segs = 1 .. m
    BY <1>5, ListIs
  <1>7. DOMAIN ps = 1 .. m /\ ps = [h \in 1 .. m |-> ps[h]]
    BY <1>3, <1>6
  <1>8. IsList(ps) /\ Len(ps) = m
    BY <1>7, ShortLists
  <1>9. \A h \in 1 .. m : \E seq \in Numbers : Made(kern, {"ack"}, seq, ps[h])
    <2> SUFFICES ASSUME NEW h \in 1 .. m PROVE \E seq \in Numbers : Made(kern, {"ack"}, seq, ps[h])
      OBVIOUS
    <2>1. PICK seq \in Numbers : Made(kern, {"ack"}, seq, segs[h])
      BY <1>5, <1>6
    <2>2. dev \in {"none"} \cup Deviations
      BY <1>1, ConfigIs
    <2>3. Made(kern, {"ack"}, seq, Deviate(segs[h], dev))
      BY <2>1, <2>2, DeviateIs
    <2>4. ps[h] = segs[h] \/ ps[h] = Deviate(segs[h], dev)
      BY <1>3, <1>6
    <2>5. QED
      BY <2>1, <2>3, <2>4
  <1>10. \A h \in 1 .. Len(ps) : OnWire(config, k, ps[h])
    <2> SUFFICES ASSUME NEW h \in 1 .. m PROVE OnWire(config, k, ps[h])
      BY <1>8
    <2>1. PICK seq \in Numbers : Made(kern, {"ack"}, seq, ps[h])
      BY <1>9
    <2>2. OnWire(config, kern, ps[h])
      BY <1>1, <2>1, MadeIsOnWire
    <2>3. QED
      BY <1>4, <2>2, OnWireOfSame
  <1>11. \A q : OnWire(config, kern, q) => OnWire(config, k, q)
    BY <1>4, OnWireOfSame
  <1>12. Wire' /\ KernOK(kern') /\ SameKern(k, kern')
    BY <1>1, <1>3, <1>4, <1>8, <1>10, <1>11, SendsKeepsWire DEF codeVars
  <1>13. SameKern(kern, kern')
    BY <1>4, <1>12 DEF SameKern
  <1>14. QED
    BY <1>1, <1>12, <1>13, KernelStepKeeps

LEMMA RetransmitsStep == IInv /\ Retransmits => IInv'
  <1> SUFFICES ASSUME IInv, Retransmits PROVE IInv'
    OBVIOUS
  <1>1. KernOK(kern) /\ Wire /\ config \in Configs /\ UNCHANGED <<codeVars, author>>
    BY DEF IInv, Shapes, Retransmits
  <1>2. PICK l : LET k == [kern EXCEPT !.label = l, !.clock = Plus(@, 1)] IN Sends(k, Unacked(k))
    BY DEF Retransmits
  <1>3. PICK k : k = [kern EXCEPT !.label = l, !.clock = Plus(kern.clock, 1)] /\ Sends(k, Unacked(k))
    BY <1>2
  <1>4. KernOK(k) /\ SameKern(kern, k)
    BY <1>1, <1>3 DEF KernOK, KernFields, SameKern
  <1>5. /\ IsList(Unacked(k))
        /\ \A i \in 1 .. Len(Unacked(k)) : OnWire(config, k, Unacked(k)[i])
    BY <1>1, <1>4, UnackedIsOnWire
  <1>6. \A q : OnWire(config, kern, q) => OnWire(config, k, q)
    BY <1>4, OnWireOfSame
  <1>7. Wire' /\ KernOK(kern') /\ SameKern(k, kern')
    BY <1>1, <1>3, <1>4, <1>5, <1>6, SendsKeepsWire DEF codeVars
  <1>8. SameKern(kern, kern')
    BY <1>4, <1>7 DEF SameKern
  <1>9. QED
    BY <1>1, <1>7, <1>8, KernelStepKeeps

LEMMA StrayPacketStep == IInv /\ StrayPacket => IInv'
  <1> SUFFICES ASSUME IInv, StrayPacket PROVE IInv'
    OBVIOUS
  <1>1. /\ KernOK(kern) /\ Wire /\ config \in Configs /\ UNCHANGED <<codeVars, author, kern>>
        /\ config.strays
    BY DEF IInv, Shapes, StrayPacket
  <1>2. PICK n : out' = Append(out, [LivePacket(kern, {"ack"}, 0, n) EXCEPT !.port = StrayPort])
    BY DEF StrayPacket
  <1>3. PICK p, q : /\ p = LivePacket(kern, {"ack"}, 0, n) /\ Made(kern, {"ack"}, 0, p)
                    /\ q = [p EXCEPT !.port = StrayPort] /\ out' = Append(out, q)
    BY <1>2, LivePacketIs
  <1>4. OnWire(config, kern, q)
    BY <1>1, <1>3, ZeroAndOne, ConfigIs DEF OnWire, Made, IsPacket, PacketFields, KernOK
  <1>5. Wire'
    <2>1. PICK m \in Nat : m = Len(out) /\ IsList(out)
      BY <1>1, ListIs DEF Wire
    <2>2. /\ IsList(out') /\ Len(out') = m + 1 /\ out'[m + 1] = q
          /\ \A i \in 1 .. m : out'[i] = out[i]
      BY <1>3, <2>1, ListAppended
    <2>3. \A i \in 1 .. m + 1 : OnWire(config, kern, out'[i])
      BY <1>1, <1>4, <2>1, <2>2 DEF Wire
    <2>4. QED
      BY <1>1, <2>2, <2>3 DEF Wire, codeVars
  <1>6. QED
    BY <1>1, <1>5, KernelStepKeeps DEF SameKern

-----------------------------------------------------------------------------
(* The start, and the system calls.                                        *)

LEMMA NewSockIs ==
  ASSUME NEW state \in States, NEW proto
  PROVE  LET s == NewSock(state, proto) IN
         /\ SockOK(s) /\ s.state = state /\ s.proto = proto /\ s.live.port = 0
         /\ s.live.local_isn = 0 /\ s.last_injected.flags = {}
  BY ZeroAndOne DEF NewSock, SockOK, SockFields, NoHeader, Ports

LEMMA NoSockIs ==
  /\ SockOK(NoSock) /\ NoSock.state = "NULL" /\ NoSock.proto = "none" /\ NoSock.live.port = 0
  /\ NoSock.last_injected.flags = {}
  <1>1. "NULL" \in States
    BY DEF States
  <1>2. QED
    BY <1>1, NewSockIs DEF NoSock

LEMMA NothingSniffed == DOMAIN NoEvent = {"script", "sniffed", "raw"} /\ Sniffed(NoEvent)
  BY ShortLists DEF NoEvent, Sniffed

LEMMA InitIInv == Init => IInv
  <1> SUFFICES ASSUME Init PROVE IInv
    OBVIOUS
  <1>1. /\ config \in Configs /\ sock = NoSock /\ phase = "idle" /\ ev = NoEvent /\ verdict = NoVerdict
        /\ injected = NoInjection /\ out = <<>> /\ kern = Closed
        /\ author = [isn |-> NoIsn, seen |-> FALSE, reconnected |-> FALSE, val |-> 0, label |-> NoPair]
    BY DEF Init
  <1>2. KernOK(kern)
    BY <1>1, ZeroAndOne DEF KernOK, KernFields, Closed
  <1>3. Wire
    BY <1>1, ShortLists DEF Wire
  <1>4. Event
    BY <1>1, NothingSniffed DEF Event
  <1>5. Shapes
    BY <1>1, <1>2, <1>3, <1>4, NoSockIs DEF Shapes, AuthorFields
  <1>6. Linked
    <2>1. kern.st = "closed" /\ kern.port = 0
      BY <1>1 DEF Closed
    <2>2. CASE config.proto = "udp"
      BY <1>1, <2>1, <2>2, NoSockIs DEF Linked, Tracked
    <2>3. CASE config.proto = "tcp"
      BY <1>1, <2>1, <2>3, NoSockIs DEF Linked, Waiting
    <2>4. QED
      BY <1>1, <2>2, <2>3, ConfigIs
  <1>7. KernelAccepts /\ OneFlow /\ ResetObeyed
    BY <1>1 DEF KernelAccepts, OneFlow, ResetObeyed, NoVerdict
  <1>8. QED
    BY <1>5, <1>6, <1>7 DEF IInv

\* In such a state no packet on the wire is of the connection
LEMMA OnlyStrays ==
  ASSUME NEW c, NEW k, NEW q, OnWire(c, k, q), k.st \in {"closed", "listen"}, NEW l
  PROVE  OnWire(c, l, q)
  BY DEF OnWire

LEMMA ListenStep == IInv /\ Listen => IInv'
  <1> SUFFICES ASSUME IInv, Listen PROVE IInv'
    OBVIOUS
  <1>1. /\ phase = "idle" /\ config.passive /\ kern.st = "closed"
        /\ UNCHANGED <<config, phase, ev, verdict, injected, out, author>>
        /\ kern' = [kern EXCEPT !.st = "listen"]
        /\ sock' = IF config.is_wire_server THEN sock ELSE NewSock("PASSIVE_LISTENING", config.proto)
    BY DEF Listen
  <1>2. Shapes /\ Linked
    BY DEF IInv
  <1>3. KernOK(kern') /\ kern'.st = "listen"
    BY <1>1, <1>2 DEF Shapes, KernOK, KernFields
  <1>4. Wire'
    BY <1>1, <1>2, OnlyStrays DEF Shapes, Wire
  <1>5. "PASSIVE_LISTENING" \in States
    BY DEF States
  <1>6. Shapes'
    BY <1>1, <1>2, <1>3, <1>4, <1>5, NewSockIs DEF Shapes, Event
  <1>7. Linked'
    <2>1. CASE config.proto = "tcp"
      <3>1. Waiting(config, sock, kern, author)
        BY <1>1, <1>2, <2>1 DEF Linked, Tracked
      <3>2. Waiting(config, sock', kern', author)
        BY <1>1, <1>3, <1>5, <3>1, NewSockIs DEF Waiting
      <3>3. QED
        BY <1>1, <3>2 DEF Linked
    <2>2. CASE config.proto = "udp"
      <3>1. Tracked(config, sock, kern, author)
        BY <1>1, <1>2, <2>2 DEF Linked, Waiting
      <3>2. Tracked(config, sock', kern', author)
        BY <1>1, <1>3, <1>5, <2>2, <3>1, NewSockIs DEF Tracked
      <3>3. QED
        BY <1>1, <3>2 DEF Linked
    <2>3. QED
      BY <1>2, <2>1, <2>2, ConfigIs DEF Shapes
  <1>8. (KernelAccepts /\ OneFlow /\ ResetObeyed)'
    BY <1>1 DEF IInv, KernelAccepts, OneFlow, ResetObeyed
  <1>9. QED
    BY <1>6, <1>7, <1>8 DEF IInv

LEMMA ConnectStep == IInv /\ Connect => IInv'
  <1> SUFFICES ASSUME IInv, Connect PROVE IInv'
    OBVIOUS
  <1>1. /\ phase = "idle" /\ kern.st = "closed" /\ verdict' = NoVerdict
        /\ UNCHANGED <<config, phase, ev, injected, author>>
        /\ sock' = IF config.is_wire_server THEN sock
                   ELSE IF sock = NoSock THEN NewSock("ACTIVE_CONNECTING", config.proto)
                   ELSE [sock EXCEPT !.state = "ACTIVE_CONNECTING"]
    BY DEF Connect
  <1>2. Shapes /\ Linked
    BY DEF IInv
  <1>3. PICK iss \in Isns, port \in {2, 3} \ {kern.port} :
           LET k == [kern EXCEPT !.st = IF config.proto = "tcp" THEN "syn_sent" ELSE "established",
                                 !.port = port, !.iss = iss, !.una = iss,
                                 !.nxt = IF config.proto = "tcp" THEN Plus(iss, 1) ELSE iss] IN
           Sends(k, Unacked(k))
    BY DEF Connect
  <1>4. PICK k : /\ k = [kern EXCEPT !.st = IF config.proto = "tcp" THEN "syn_sent" ELSE "established",
                                     !.port = port, !.iss = iss, !.una = iss,
                                     !.nxt = IF config.proto = "tcp" THEN Plus(iss, 1) ELSE iss]
                 /\ Sends(k, Unacked(k))
    BY <1>3
  <1>5. iss \in Numbers /\ Plus(iss, 1) \in Numbers
    <2>1. iss \in Numbers /\ iss \in Int
      BY IsnAssumption, ZeroAndOne
    <2>2. QED
      BY <2>1, NumbersAreClosed
  <1>6. /\ KernOK(k) /\ k.port = port /\ k.iss = iss
        /\ k.st = IF config.proto = "tcp" THEN "syn_sent" ELSE "established"
    <2>1. k.st = IF config.proto = "tcp" THEN "syn_sent" ELSE "established"
      BY <1>2, <1>4 DEF Shapes, KernOK, KernFields
    <2>2. k.iss = iss /\ k.una = iss /\ k.port = port
      BY <1>2, <1>4 DEF Shapes, KernOK, KernFields
    <2>3. k.nxt = IF config.proto = "tcp" THEN Plus(iss, 1) ELSE iss
      BY <1>2, <1>4 DEF Shapes, KernOK, KernFields
    <2>4. DOMAIN k = KernFields /\ k.irs = kern.irs /\ k.rcv = kern.rcv
      BY <1>2, <1>4 DEF Shapes, KernOK, KernFields
    <2>5. QED
      BY <1>2, <1>5, <2>1, <2>2, <2>3, <2>4 DEF Shapes, KernOK
  <1>7. Wire' /\ KernOK(kern') /\ SameKern(k, kern')
    <2>1. /\ IsList(Unacked(k))
          /\ \A i \in 1 .. Len(Unacked(k)) : OnWire(config, k, Unacked(k)[i])
      BY <1>2, <1>6, UnackedIsOnWire DEF Shapes
    <2>2. \A q : OnWire(config, kern, q) => OnWire(config, k, q)
      BY <1>1, OnlyStrays
    <2>3. QED
      BY <1>1, <1>2, <1>4, <1>6, <2>1, <2>2, SendsKeepsWire DEF Shapes
  <1>8. "ACTIVE_CONNECTING" \in States
    BY DEF States
  <1>9. /\ SockOK(sock') /\ sock'.live.port = sock.live.port
        /\ ~config.is_wire_server => sock'.state = "ACTIVE_CONNECTING"
        /\ sock' = sock \/ sock'.proto = sock.proto \/ sock'.proto = config.proto
    <2>1. SockOK(sock)
      BY <1>2 DEF Shapes
    <2>2. CASE config.is_wire_server
      BY <1>1, <2>1, <2>2
    <2>3. CASE ~config.is_wire_server /\ sock = NoSock
      BY <1>1, <1>8, <2>3, NewSockIs, NoSockIs
    <2>4. CASE ~config.is_wire_server /\ sock # NoSock
      <3>1. sock' = [sock EXCEPT !.state = "ACTIVE_CONNECTING"]
        BY <1>1, <2>4
      <3>2. QED
        BY <1>8, <2>1, <3>1 DEF SockOK, SockFields
    <2>5. QED
      BY <2>2, <2>3, <2>4
  <1>10. Shapes'
    BY <1>1, <1>2, <1>7, <1>9 DEF Shapes, Event
  <1>11. Linked'
    <2>1. CASE config.proto = "tcp"
      <3>1. Waiting(config, sock, kern, author)
        BY <1>1, <1>2, <2>1 DEF Linked, Tracked
      <3>2. /\ kern.port \in 0 .. 3 /\ sock.live.port = kern.port /\ kern'.port = port
            /\ kern'.st = "syn_sent" /\ ~author.seen /\ author.isn = NoIsn
        BY <1>1, <1>2, <1>6, <1>7, <2>1, <3>1 DEF Waiting, Shapes, KernOK, SameKern
      <3>3. sock'.live.port # kern'.port /\ sock'.live.port # StrayPort
        BY <1>9, <3>2 DEF StrayPort
      <3>4. IF config.is_wire_server THEN sock' = NoSock
            ELSE sock'.state = "ACTIVE_CONNECTING" /\ sock'.proto = "tcp"
        <4>1. config.is_wire_server => sock' = NoSock
          BY <1>1, <3>1 DEF Waiting
        <4>2. ~config.is_wire_server /\ sock = NoSock => sock'.proto = "tcp"
          BY <1>1, <1>8, <2>1, NewSockIs
        <4>3. ~config.is_wire_server /\ sock # NoSock => sock'.proto = "tcp"
          BY <1>1, <1>2, <3>1 DEF Waiting, Shapes, SockOK, SockFields
        <4>4. QED
          BY <1>9, <4>1, <4>2, <4>3
      <3>5. ~author.reconnected => "ack" \notin sock'.last_injected.flags
        <4>1. ~author.reconnected => sock = NoSock
          BY <1>1, <3>1 DEF Waiting
        <4>2. sock = NoSock => sock'.last_injected.flags = {}
          BY <1>1, <1>8, NewSockIs, NoSockIs
        <4>3. QED
          BY <4>1, <4>2
      <3>6. Waiting(config, sock', kern', author)
        BY <2>1, <3>2, <3>3, <3>4, <3>5 DEF Waiting
      <3>7. QED
        BY <1>1, <3>6 DEF Linked
    <2>2. CASE config.proto = "udp"
      <3>1. Tracked(config, sock, kern, author)
        BY <1>1, <1>2, <2>2 DEF Linked, Waiting
      <3>2. sock'.proto # "tcp"
        BY <1>9, <2>2, <3>1 DEF Tracked
      <3>3. ~(~config.strays /\ author.seen)
        BY <1>1, <2>2, <3>1 DEF Tracked
      <3>4. Tracked(config, sock', kern', author)
        BY <2>2, <3>2, <3>3 DEF Tracked
      <3>5. QED
        BY <1>1, <3>4 DEF Linked
    <2>3. QED
      BY <1>2, <2>1, <2>2, ConfigIs DEF Shapes
  <1>12. (KernelAccepts /\ OneFlow /\ ResetObeyed)'
    BY <1>1 DEF IInv, KernelAccepts, OneFlow, ResetObeyed, NoVerdict
  <1>13. QED
    BY <1>10, <1>11, <1>12 DEF IInv

-----------------------------------------------------------------------------
(* What the author of the script describes.                                *)

LEMMA LeastNumber ==
  ASSUME NEW S \in SUBSET Nat, S # {}
  PROVE  \E m \in S : \A k \in S : m <= k
  <1>1. \E m \in S : \A k \in S : <<k, m>> \notin OpToRel(<, Nat)
    BY NatLessThanWellFounded, WFMin, ZenonT(40)
  <1>2. PICK m \in S : \A k \in S : <<k, m>> \notin OpToRel(<, Nat)
    BY <1>1
  <1>3. \A k \in S : ~(k < m)
    BY <1>2 DEF OpToRel
  <1>4. QED
    BY <1>3

\* Induction over the numbers up to n, for the set of those with the claim
LEMMA SetInduction ==
  ASSUME NEW n \in Nat, NEW S \in SUBSET Nat, 0 \in S,
         \A k \in 0 .. n : k \in S /\ k + 1 <= n => k + 1 \in S
  PROVE  0 .. n \subseteq S
  <1> SUFFICES ASSUME (0 .. n) \ S # {} PROVE FALSE
    OBVIOUS
  <1>1. PICK m \in (0 .. n) \ S : \A k \in (0 .. n) \ S : m <= k
    <2>1. (0 .. n) \ S \in SUBSET Nat
      OBVIOUS
    <2>2. QED
      BY <2>1, LeastNumber
  <1>2. m - 1 \in 0 .. n /\ m - 1 \in S
    BY <1>1
  <1>3. QED
    BY <1>1, <1>2

\* f picks from the first n packets of s those of a port
Picks(f, s, port, n) ==
    f = [i \in 0 .. n |-> IF i = 0 THEN <<>>
                          ELSE IF s[i].port = port THEN Append(f[i - 1], s[i])
                          ELSE f[i - 1]]

LEMMA PicksExist ==
  ASSUME NEW s, NEW port, NEW n \in Nat
  PROVE  \E f : Picks(f, s, port, n)
  <1> DEFINE S == {m \in Nat : \E f : Picks(f, s, port, m)}
  <1>1. 0 \in S
    <2>1. PICK f : f = [i \in 0 .. 0 |-> <<>>]
      OBVIOUS
    <2>2. Picks(f, s, port, 0)
      BY <2>1 DEF Picks
    <2>3. QED
      BY <2>2
  <1>2. ASSUME NEW k \in 0 .. n, k \in S
        PROVE  k + 1 \in S
    <2>1. PICK f : Picks(f, s, port, k)
      BY <1>2
    <2>2. PICK g : g = [i \in 0 .. k + 1 |-> IF i <= k THEN f[i]
                                             ELSE IF s[i].port = port THEN Append(f[k], s[i])
                                             ELSE f[k]]
      OBVIOUS
    <2>3. \A i \in 0 .. k : g[i] = f[i]
      BY <2>2
    <2>4. \A i \in 0 .. k : f[i] = IF i = 0 THEN <<>>
                                   ELSE IF s[i].port = port THEN Append(f[i - 1], s[i])
                                   ELSE f[i - 1]
      BY <2>1 DEF Picks
    <2>5. ASSUME NEW i \in 0 .. k + 1
          PROVE  g[i] = IF i = 0 THEN <<>>
                        ELSE IF s[i].port = port THEN Append(g[i - 1], s[i])
                        ELSE g[i - 1]
      <3>1. CASE i = 0
        BY <2>3, <2>4, <3>1
      <3>2. CASE i \in 1 .. k
        <4>1. i - 1 \in 0 .. k /\ i \in 0 .. k /\ i # 0
          BY <3>2
        <4>2. QED
          BY <2>3, <2>4, <4>1
      <3>3. CASE i = k + 1
        <4>1. i - 1 = k /\ k \in 0 .. k /\ ~(i <= k) /\ i # 0
          BY <3>3
        <4>2. QED
          BY <2>2, <2>3, <4>1
      <3>4. QED
        BY <3>1, <3>2, <3>3
    <2>6. g = [i \in 0 .. k + 1 |-> g[i]]
      BY <2>2
    <2>7. Picks(g, s, port, k + 1)
      BY <2>5, <2>6 DEF Picks
    <2>8. QED
      BY <2>7
  <1>3. S \in SUBSET Nat
    OBVIOUS
  <1>4. 0 .. n \subseteq S
    <2> HIDE DEF S
    <2>1. QED
      BY <1>1, <1>2, <1>3, SetInduction
  <1>5. n \in S
    BY <1>4
  <1>6. QED
    BY <1>5

\* What the connection has sent is on the wire, and all of it
LEMMA OwnIs ==
  ASSUME Wire
  PROVE  /\ IsList(Own)
         /\ \A j \in 1 .. Len(Own) : \E i \in 1 .. Len(out) : Own[j] = out[i] /\ out[i].port = kern.port
         /\ Own = <<>> => \A i \in 1 .. Len(out) : out[i].port # kern.port
  <1>0. PICK n \in Nat : n = Len(out)
    BY ListIs DEF Wire
  <1>1. PICK s, port : n = Len(out) /\ s = out /\ port = kern.port
    BY <1>0
  <1>2. PICK f : f = OwnUpTo
    OBVIOUS
  <1>3. f = CHOOSE g : Picks(g, s, port, n)
    BY <1>1, <1>2 DEF OwnUpTo, Picks
  <1>4. Picks(f, s, port, n)
    BY <1>3, PicksExist
  <1> DEFINE OK(l, m) == /\ IsList(l)
                         /\ \A j \in 1 .. Len(l) : \E i \in 1 .. m : l[j] = s[i] /\ s[i].port = port
                         /\ l = <<>> => \A i \in 1 .. m : s[i].port # port
             S == {m \in Nat : m <= n => OK(f[m], m)}
  <1>5. 0 \in S
    <2>1. f[0] = <<>>
      BY <1>4 DEF Picks
    <2>2. OK(<<>>, 0)
      BY ShortLists
    <2>3. QED
      BY <2>1, <2>2
  <1>6. ASSUME NEW k \in 0 .. n, k \in S, k + 1 <= n
        PROVE  k + 1 \in S
    <2>1. PICK l, m : l = f[k] /\ m = f[k + 1] /\ OK(l, k)
      BY <1>6
    <2>2. m = IF s[k + 1].port = port THEN Append(l, s[k + 1]) ELSE l
      <3>1. k + 1 \in 0 .. n /\ k + 1 # 0 /\ (k + 1) - 1 = k
        BY <1>6
      <3>2. QED
        BY <1>4, <2>1, <3>1 DEF Picks
    <2>3. CASE s[k + 1].port = port
      <3>1. PICK len \in Nat : len = Len(l)
        BY <2>1, ListIs
      <3>2. /\ IsList(m) /\ Len(m) = len + 1 /\ m[len + 1] = s[k + 1]
            /\ \A i \in 1 .. len : m[i] = l[i]
        BY <2>1, <2>2, <2>3, <3>1, ListAppended
      <3>3. m # <<>>
        BY <3>2, ShortLists
      <3>4. ASSUME NEW j \in 1 .. len + 1
            PROVE  \E i \in 1 .. k + 1 : m[j] = s[i] /\ s[i].port = port
        <4>1. CASE j \in 1 .. len
          BY <2>1, <3>1, <3>2, <4>1
        <4>2. CASE j = len + 1
          BY <2>3, <3>2, <4>2
        <4>3. QED
          BY <4>1, <4>2
      <3>5. QED
        BY <2>1, <3>2, <3>3, <3>4
    <2>4. CASE s[k + 1].port # port
      <3>1. m = l
        BY <2>2, <2>4
      <3>2. \A i \in 1 .. k + 1 : i \in 1 .. k \/ i = k + 1
        OBVIOUS
      <3>3. \A i \in 1 .. k : i \in 1 .. k + 1
        OBVIOUS
      <3>4. OK(l, k + 1)
        BY <2>1, <2>4, <3>2, <3>3
      <3>5. f[k + 1] = l
        BY <2>1, <3>1
      <3> HIDE DEF OK
      <3>6. OK(f[k + 1], k + 1)
        BY <3>4, <3>5
      <3>7. QED
        BY <1>6, <3>6
    <2>5. QED
      BY <2>3, <2>4
  <1>7. n \in S
    <2>1. S \in SUBSET Nat
      OBVIOUS
    <2>2. 0 .. n \subseteq S
      <3> HIDE DEF S
      <3>1. QED
        BY <1>5, <1>6, <2>1, SetInduction
    <2>3. QED
      BY <2>2
  <1>8. OK(f[n], n)
    BY <1>7
  <1>9. Own = f[n]
    BY <1>1, <1>2 DEF Own
  <1>10. QED
    BY <1>1, <1>8, <1>9

LEMMA DisconnectStep == IInv /\ Disconnect => IInv'
  <1> SUFFICES ASSUME IInv, Disconnect PROVE IInv'
    OBVIOUS
  <1>1. /\ phase = "idle" /\ ~config.passive /\ ~config.is_wire_server
        /\ kern.st = "established" /\ config.proto = "tcp" /\ Own = <<>>
        /\ kern' = [kern EXCEPT !.st = "closed"] /\ sock' = [sock EXCEPT !.state = "NEW"]
        /\ author' = [author EXCEPT !.reconnected = TRUE, !.isn = NoIsn, !.seen = FALSE]
        /\ verdict' = NoVerdict /\ injected' = NoInjection
        /\ UNCHANGED <<config, phase, ev, out>>
    BY DEF Disconnect
  <1>2. Shapes /\ Linked
    BY DEF IInv
  <1>3. KernOK(kern') /\ kern'.st = "closed" /\ kern'.port = kern.port
    BY <1>1, <1>2 DEF Shapes, KernOK, KernFields
  <1>4. Wire'
    <2>1. \A i \in 1 .. Len(out) : out[i].port # kern.port
      BY <1>1, <1>2, OwnIs DEF Shapes
    <2>2. ASSUME NEW i \in 1 .. Len(out)
          PROVE  OnWire(config, kern', out[i])
      <3>1. OnWire(config, kern, out[i]) /\ out[i].port # kern.port
        BY <1>2, <2>1 DEF Shapes, Wire
      <3>2. QED
        BY <3>1 DEF OnWire
    <2>3. QED
      BY <1>1, <1>2, <2>2 DEF Shapes, Wire
  <1>5. /\ SockOK(sock') /\ sock'.state = "NEW" /\ sock'.proto = sock.proto
        /\ sock'.live.port = sock.live.port
    <2>1. "NEW" \in States
      BY DEF States
    <2>2. QED
      BY <1>1, <1>2, <2>1 DEF Shapes, SockOK, SockFields
  <1>6. /\ DOMAIN author' = AuthorFields /\ author'.isn = NoIsn /\ author'.seen = FALSE
        /\ author'.reconnected = TRUE
    BY <1>1, <1>2 DEF Shapes, AuthorFields
  <1>7. Shapes'
    BY <1>1, <1>2, <1>3, <1>4, <1>5, <1>6 DEF Shapes, Event
  <1>8. Linked'
    <2>1. Tracked(config, sock, kern, author)
      BY <1>1, <1>2 DEF Linked, Waiting
    <2>2. sock.proto = "tcp" /\ sock.live.port = kern.port
      BY <1>1, <2>1 DEF Tracked, Connected
    <2>3. Waiting(config, sock', kern', author')
      BY <1>1, <1>3, <1>5, <1>6, <2>2 DEF Waiting
    <2>4. QED
      BY <1>1, <2>3 DEF Linked
  <1>9. (KernelAccepts /\ OneFlow /\ ResetObeyed)'
    BY <1>1 DEF KernelAccepts, OneFlow, ResetObeyed, NoVerdict
  <1>10. QED
    BY <1>7, <1>8, <1>9 DEF IInv

\* A packet of a script that describes one of the connection
Described(p, fs) ==
    /\ IsPacket(p) /\ p.proto = config.proto /\ p.port = 0 /\ p.seq \in Numbers
    /\ fs \subseteq p.flags /\ p.flags \subseteq fs \cup {"psh"}

LEMMA DescribeIs ==
  ASSUME NEW qs, NEW q, q = Head(qs), NEW isn \in Numbers, KernOK(kern), config \in Configs,
         IsPacket(q), q.proto = config.proto, q.seq \in Numbers
  PROVE  /\ Described(Describe(qs, isn), q.flags)
         /\ config.proto = "tcp" /\ "syn" \in q.flags => Describe(qs, isn).seq = isn
  <1>1. PICK x : x = CASE ~IsTcp(q) -> 0
                       [] IsTcp(q) /\ Has(q, "syn") -> isn
                       [] OTHER -> Rel(q.seq, kern.iss)
    OBVIOUS
  <1>2. x \in Numbers /\ (config.proto = "tcp" /\ "syn" \in q.flags => x = isn)
    <2>1. Rel(q.seq, kern.iss) \in Numbers
      BY ZeroAndOne, NumbersAreClosed DEF KernOK, Rel
    <2>2. QED
      BY <1>1, <2>1, ZeroAndOne DEF IsTcp, Has
  <1>3. PICK p : p = Describe(qs, isn)
    OBVIOUS
  <1>4. IsPacket(p)
    BY <1>3 DEF Describe, IsPacket
  <1>5. p.seq = x
    BY <1>1, <1>3 DEF Describe, IsPacket, PacketFields
  <1>6. p.port = 0
    BY <1>3 DEF Describe, IsPacket, PacketFields
  <1>7. p.proto = q.proto /\ p.flags = q.flags
    BY <1>3 DEF Describe, IsPacket, PacketFields
  <1>8. QED
    BY <1>2, <1>3, <1>4, <1>5, <1>6, <1>7 DEF Described

LEMMA MistakeIs ==
  ASSUME NEW p, NEW fs, Described(p, fs), NEW m \in Slips \cup {"none"}
  PROVE  /\ Described(Mistake(p, m), fs)
         /\ "syn" \in fs => Mistake(p, m).seq = p.seq
  <1>1. Plus(p.seq, 1) \in Numbers
    BY ZeroAndOne, NumbersAreClosed DEF Described
  <1>2. PICK r : r = Mistake(p, m)
    OBVIOUS
  <1>3. CASE m = "seq"
    <2>1. r = IF "syn" \in p.flags THEN p ELSE [p EXCEPT !.seq = Plus(p.seq, 1)]
      BY <1>2, <1>3 DEF Mistake, Has
    <2>2. QED
      BY <1>1, <1>2, <2>1 DEF Described, IsPacket, PacketFields
  <1>4. CASE m = "psh"
    <2>1. r = [p EXCEPT !.flags = p.flags \cup {"psh"}]
      BY <1>2, <1>4 DEF Mistake
    <2>2. QED
      BY <1>2, <2>1 DEF Described, IsPacket, PacketFields
  <1>5. CASE m \in {"ack", "len", "label", "none"}
    <2>1. \E x, y : \/ r = p \/ r = [p EXCEPT !.ack_seq = x] \/ r = [p EXCEPT !.label = x]
                    \/ r = [p EXCEPT !.len = x, !.udp_len = y]
      BY <1>2, <1>5 DEF Mistake
    <2>2. QED
      BY <1>2, <2>1 DEF Described, IsPacket, PacketFields
  <1>6. QED
    BY <1>3, <1>4, <1>5 DEF Slips

\* An outbound packet of the script
Expected(p) ==
    /\ IsPacket(p) /\ p.proto = config.proto /\ p.port = 0 /\ p.seq \in Numbers
    /\ kern.st \in {"syn_sent", "syn_rcvd", "established"}
    /\ config.proto = "udp" => "syn" \notin p.flags
    /\ config.proto = "tcp" =>
          /\ kern.st = "syn_sent" => "syn" \in p.flags /\ "ack" \notin p.flags
          /\ kern.st = "syn_rcvd" => {"syn", "ack"} \subseteq p.flags
          /\ "syn" \in p.flags => p.seq \in Isns /\ (author.isn # NoIsn => p.seq = author.isn)

LEMMA ExpectedIs ==
  ASSUME Shapes, NEW p \in ExpectedPackets
  PROVE  Expected(p)
  <1>1. KernOK(kern) /\ Wire /\ config \in Configs /\ config.mistakes \subseteq Slips
    BY ConfigIs DEF Shapes
  <1>2. CASE kern.st = "established" /\ \E n \in 1 .. MaxLen :
                p = Describe(<<LivePacket(kern, {"ack"}, kern.nxt, n)>>, 0)
    <2>1. PICK n, q, qs : /\ q = LivePacket(kern, {"ack"}, kern.nxt, n) /\ qs = <<q>>
                          /\ p = Describe(qs, 0) /\ Made(kern, {"ack"}, kern.nxt, q)
      BY <1>2, LivePacketIs
    <2>2. Head(qs) = q
      BY <2>1
    <2>3. OnWire(config, kern, q)
      BY <1>1, <1>2, <2>1, MadeIsOnWire DEF KernOK
    <2>4. Described(p, q.flags)
      BY <1>1, <2>1, <2>2, <2>3, ZeroAndOne, DescribeIs DEF OnWire
    <2>5. "syn" \notin q.flags
      BY <1>1, <2>1 DEF Made
    <2>6. QED
      BY <1>2, <2>4, <2>5 DEF Expected, Described
  <1>3. CASE \E j \in DOMAIN Own, m \in config.mistakes \cup {"none"},
                isn \in IF author.isn = NoIsn THEN Isns ELSE {author.isn} :
                p = Mistake(Describe(SubSeq(Own, 1, j), isn), m)
    <2>1. PICK j \in DOMAIN Own, m \in config.mistakes \cup {"none"},
               isn \in IF author.isn = NoIsn THEN Isns ELSE {author.isn} :
                p = Mistake(Describe(SubSeq(Own, 1, j), isn), m)
      BY <1>3
    <2>2. PICK n \in Nat : n = Len(Own) /\ DOMAIN Own = 1 .. n /\ j \in 1 .. n /\ 1 \in 1 .. n
      <3>1. PICK n \in Nat : n = Len(Own) /\ DOMAIN Own = 1 .. n
        BY <1>1, OwnIs, ListIs
      <3>2. j \in 1 .. n
        BY <3>1
      <3>3. 1 \in 1 .. n
        BY <3>2
      <3>4. QED
        BY <3>1, <3>2, <3>3
    <2>3. PICK i \in 1 .. Len(out) : Own[1] = out[i] /\ out[i].port = kern.port
      BY <1>1, <2>2, OwnIs
    <2>4. PICK q : q = Own[1] /\ OnWire(config, kern, q) /\ q.port = kern.port
      BY <1>1, <2>3 DEF Wire
    <2>5. PICK qs : qs = SubSeq(Own, 1, j) /\ Head(qs) = q
      <3>1. PICK S : Own \in Seq(S)
        BY <1>1, OwnIs DEF IsList
      <3>2. \A h \in 1 .. j : Own[h] \in S
        BY <2>2, <3>1
      <3>3. /\ SubSeq(Own, 1, j) \in Seq(S) /\ Len(SubSeq(Own, 1, j)) = j
            /\ SubSeq(Own, 1, j)[1] = Own[1]
        BY <2>2, <3>2, SubSeqProperties
      <3>4. Head(SubSeq(Own, 1, j)) = Own[1]
        BY <2>2, <3>3, HeadTailProperties, EmptySeq
      <3>5. QED
        BY <2>4, <3>4
    <2>6. isn \in Isns /\ isn \in Numbers /\ (author.isn # NoIsn => isn = author.isn)
      BY <2>1, IsnAssumption DEF Shapes
    <2>7. PICK d : /\ d = Describe(qs, isn) /\ Described(d, q.flags)
                   /\ config.proto = "tcp" /\ "syn" \in q.flags => d.seq = isn
      BY <1>1, <2>4, <2>5, <2>6, DescribeIs DEF OnWire
    <2>8. Described(p, q.flags) /\ ("syn" \in q.flags => p.seq = d.seq)
      BY <1>1, <2>1, <2>5, <2>7, MistakeIs
    <2>9. /\ kern.st \in {"syn_sent", "syn_rcvd", "established"}
          /\ config.proto = "udp" => q.flags = {}
          /\ config.proto = "tcp" =>
                /\ kern.st = "syn_sent" => q.flags = {"syn"}
                /\ kern.st = "syn_rcvd" => q.flags = {"syn", "ack"}
      <3>1. kern.port # StrayPort
        BY <1>1 DEF KernOK, StrayPort
      <3>2. QED
        BY <2>4, <3>1 DEF OnWire
    <2>10. "syn" \in p.flags => "syn" \in q.flags
      BY <2>8 DEF Described
    <2>11. QED
      BY <2>6, <2>7, <2>8, <2>9, <2>10 DEF Expected, Described
  <1> DEFINE A == {Mistake(Describe(SubSeq(Own, 1, j), isn), m) :
                     j \in {i \in DOMAIN Own : i = 1 \/ \A h \in 1..i : Own[h].len > 0},
                     m \in config.mistakes \union {"none"},
                     isn \in IF author.isn = NoIsn THEN Isns ELSE {author.isn}}
             B == {Describe(<<LivePacket(kern, {"ack"}, kern.nxt, n)>>, 0) : n \in 1..MaxLen}
  <1>4. ExpectedPackets = A \cup (IF kern.st = "established" /\ Own = <<>> THEN B ELSE {})
    BY DEF ExpectedPackets
  <1>5. p \in A => Expected(p)
    BY <1>3
  <1>6. p \in B /\ kern.st = "established" => Expected(p)
    BY <1>2
  <1>7. QED
    <2> HIDE DEF A, B
    <2>1. QED
      BY <1>4, <1>5, <1>6

-----------------------------------------------------------------------------
(* run_packet_event() for outbound packets.                                *)

LEMMA ConnectForIs ==
  ASSUME NEW p, p.seq \in Numbers, p.proto = "tcp", SockOK(sock)
  PROVE  LET s == ConnectFor(p) IN
         /\ SockOK(s) /\ s.state = "ACTIVE_SYN_SENT" /\ s.script.local_isn = p.seq
         /\ s.live.port = sock.live.port
         /\ s.proto = IF sock = NoSock THEN "tcp" ELSE sock.proto
         /\ "ack" \in s.last_injected.flags => "ack" \in sock.last_injected.flags
  <1>1. {"INIT", "ACTIVE_SYN_SENT"} \subseteq States
    BY DEF States
  <1>2. PICK b : b = IF sock = NoSock THEN NewSock("INIT", p.proto) ELSE sock
    OBVIOUS
  <1>3. /\ SockOK(b) /\ b.live.port = sock.live.port
        /\ b.proto = IF sock = NoSock THEN "tcp" ELSE sock.proto
        /\ "ack" \in b.last_injected.flags => "ack" \in sock.last_injected.flags
    <2>1. CASE sock = NoSock
      BY <1>1, <1>2, <2>1, NewSockIs, NoSockIs
    <2>2. CASE sock # NoSock
      BY <1>2, <2>2
    <2>3. QED
      BY <2>1, <2>2
  <1>4. PICK s : s = ConnectFor(p) /\ s = [b EXCEPT !.state = "ACTIVE_SYN_SENT", !.script.local_isn = p.seq]
    BY <1>2 DEF ConnectFor
  <1>5. s.live = b.live /\ s.proto = b.proto /\ s.last_injected = b.last_injected
    BY <1>3, <1>4 DEF SockOK, SockFields
  <1>6. s.state = "ACTIVE_SYN_SENT" /\ s.script = [b.script EXCEPT !.local_isn = p.seq]
    BY <1>3, <1>4 DEF SockOK, SockFields
  <1>7. DOMAIN s = SockFields
    BY <1>3, <1>4 DEF SockOK
  <1>8. s.script.local_isn = p.seq /\ DOMAIN s.script = DOMAIN b.script
    BY <1>3, <1>6 DEF SockOK
  <1>9. SockOK(s)
    BY <1>1, <1>3, <1>5, <1>6, <1>7, <1>8 DEF SockOK
  <1>10. QED
    BY <1>3, <1>4, <1>5, <1>6, <1>8, <1>9

LEMMA NoteSynAckIs ==
  ASSUME NEW s, NEW p, SockOK(s), p.seq \in Numbers
  PROVE  LET t == NoteSynAck(s, p) IN
         /\ SockOK(t) /\ t.state = s.state /\ t.live = s.live /\ t.proto = s.proto
         /\ t.last_injected = s.last_injected /\ t.last_outbound = s.last_outbound
         /\ s.state # "PASSIVE_PACKET_RECEIVED" => t = s
  <1>1. CASE s.state = "PASSIVE_PACKET_RECEIVED" /\ SynAck(p)
    <2>1. PICK t : t = NoteSynAck(s, p) /\ t = [s EXCEPT !.script.local_isn = p.seq]
      BY <1>1 DEF NoteSynAck
    <2>2. /\ t.state = s.state /\ t.live = s.live /\ t.proto = s.proto
          /\ t.last_injected = s.last_injected /\ t.last_outbound = s.last_outbound
      BY <2>1 DEF SockOK, SockFields
    <2>3. DOMAIN t = SockFields /\ t.script = [s.script EXCEPT !.local_isn = p.seq]
      BY <2>1 DEF SockOK, SockFields
    <2>4. t.script.local_isn = p.seq /\ DOMAIN t.script = DOMAIN s.script
      BY <2>3 DEF SockOK
    <2>5. SockOK(t)
      BY <2>2, <2>3, <2>4 DEF SockOK
    <2>6. QED
      BY <1>1, <2>1, <2>2, <2>5
  <1>2. CASE ~(s.state = "PASSIVE_PACKET_RECEIVED" /\ SynAck(p))
    BY <1>2 DEF NoteSynAck
  <1>3. QED
    BY <1>1, <1>2

\* Whether there was a socket for the packet or not, the one that it gets is of
\* the connection.
LEMMA SocketForOutbound ==
  ASSUME Shapes, Linked, phase = "idle", NEW p, Expected(p), NEW s, s = SocketFor(p, "out"), s # NoSock,
         NEW t, t = NoteSynAck(s, p), NEW a, a.seen = author.seen, a.reconnected = author.reconnected,
         a.isn = IF "syn" \in p.flags THEN p.seq ELSE author.isn
  PROVE  SockOK(t) /\ Tracked(config, t, kern, a)
  <1>1. SockOK(sock) /\ KernOK(kern) /\ config \in Configs
    BY DEF Shapes
  <1>2. p.seq \in Numbers /\ p.proto = config.proto /\ p.port = 0
    BY DEF Expected
  <1>3. ~ListenMatch(p, "out")
    BY DEF ListenMatch
  <1>4. CASE config.proto = "udp"
    <2>1. ~ConnectMatch(p, "out") /\ ~IsIcmp(p)
      BY <1>2, <1>4 DEF ConnectMatch, IsTcp, IsIcmp
    <2>2. s = sock
      BY <1>2, <1>3, <2>1 DEF SocketFor
    <2>3. Tracked(config, sock, kern, author)
      BY <1>4 DEF Linked, Waiting
    <2>4. SockOK(t) /\ t.live = s.live /\ t.proto = s.proto
      BY <1>1, <1>2, <2>2, NoteSynAckIs
    <2>5. QED
      BY <1>4, <2>2, <2>3, <2>4 DEF Tracked
  <1>5. CASE config.proto = "tcp" /\ Waiting(config, sock, kern, author)
    <2>1. kern.st = "syn_sent" /\ "syn" \in p.flags /\ "ack" \notin p.flags
      BY <1>5 DEF Waiting, Expected
    <2>2. ConnectMatch(p, "out")
      BY <1>2, <1>5, <2>1 DEF ConnectMatch, IsTcp, Has, Waiting
    <2>3. s = ConnectFor(p)
      BY <1>3, <2>2 DEF SocketFor
    <2>4. /\ SockOK(s) /\ s.state = "ACTIVE_SYN_SENT" /\ s.script.local_isn = p.seq
          /\ s.live.port = sock.live.port
          /\ s.proto = IF sock = NoSock THEN "tcp" ELSE sock.proto
          /\ "ack" \in s.last_injected.flags => "ack" \in sock.last_injected.flags
      BY <1>1, <1>2, <1>5, <2>3, ConnectForIs
    <2>5. s.proto = "tcp"
      BY <1>5, <2>1, <2>4 DEF Waiting
    <2>6. t = s
      BY <1>2, <2>4, NoteSynAckIs
    <2>7. a.isn = p.seq /\ a.isn # NoIsn /\ ~a.seen
      <3>1. p.seq \in Isns
        BY <1>5, <2>1 DEF Expected
      <3>2. NoIsn \notin Isns
        BY IsnAssumption DEF NoIsn, Numbers
      <3>3. QED
        BY <1>5, <2>1, <3>1, <3>2 DEF Waiting
    <2>8. s.live.port # kern.port /\ s.live.port # StrayPort
      BY <1>5, <2>1, <2>4 DEF Waiting
    <2>9. ~a.reconnected => "ack" \notin s.last_injected.flags
      BY <1>5, <2>1, <2>4 DEF Waiting
    <2>10. Connecting(s, kern, a)
      BY <2>4, <2>7, <2>8, <2>9 DEF Connecting
    <2>11. QED
      BY <1>5, <2>1, <2>4, <2>5, <2>6, <2>8, <2>10 DEF Tracked
  <1>6. CASE config.proto = "tcp" /\ Tracked(config, sock, kern, author)
    <2>1. /\ sock.proto = "tcp" /\ sock.live.port # StrayPort
          /\ kern.st \in {"syn_sent", "syn_rcvd", "established"}
          /\ kern.st = "syn_sent" => Connecting(sock, kern, author)
          /\ kern.st = "syn_rcvd" => Accepting(sock, kern, author)
          /\ kern.st = "established" => Connected(sock, kern)
      BY <1>6 DEF Tracked
    <2>2. sock.state \notin {"NULL", "ACTIVE_CONNECTING"}
      BY <2>1 DEF Connecting, Accepting, Connected
    <2>3. sock # NoSock
      BY <2>2, NoSockIs
    <2>4. ~ConnectMatch(p, "out")
      BY <2>2, <2>3 DEF ConnectMatch
    <2>5. s = sock
      BY <1>2, <1>3, <1>6, <2>1, <2>3, <2>4 DEF SocketFor, ScriptMatch
    <2>6. /\ SockOK(t) /\ t.state = sock.state /\ t.live = sock.live /\ t.proto = sock.proto
          /\ t.last_injected = sock.last_injected /\ t.last_outbound = sock.last_outbound
          /\ sock.state # "PASSIVE_PACKET_RECEIVED" => t = sock
      BY <1>1, <1>2, <2>5, NoteSynAckIs
    <2>7. CASE kern.st = "syn_sent"
      <3>1. t = sock /\ a.isn = author.isn
        BY <1>6, <2>1, <2>6, <2>7 DEF Connecting, Expected
      <3>2. Connecting(t, kern, a)
        BY <2>1, <2>7, <3>1 DEF Connecting
      <3>3. QED
        BY <1>6, <2>1, <2>6, <2>7, <3>2 DEF Tracked
    <2>8. CASE kern.st = "syn_rcvd"
      <3>1. Accepting(t, kern, a)
        BY <2>1, <2>6, <2>8 DEF Accepting
      <3>2. QED
        BY <1>6, <2>1, <2>6, <2>8, <3>1 DEF Tracked
    <2>9. CASE kern.st = "established"
      <3>1. Connected(t, kern)
        BY <2>1, <2>6, <2>9 DEF Connected
      <3>2. QED
        BY <1>6, <2>1, <2>6, <2>9, <3>1 DEF Tracked
    <2>10. QED
      BY <2>1, <2>7, <2>8, <2>9
  <1>7. QED
    BY <1>1, <1>4, <1>5, <1>6, ConfigIs DEF Linked

LEMMA OutboundEventStep == IInv /\ OutboundEvent => IInv'
  <1> SUFFICES ASSUME IInv, OutboundEvent PROVE IInv'
    OBVIOUS
  <1>1. /\ phase = "idle" /\ verdict' = NoVerdict /\ injected' = NoInjection
        /\ UNCHANGED <<config, out, kern>>
    BY DEF OutboundEvent
  <1>2. PICK p \in ExpectedPackets :
           /\ BeginOutbound(p)
           /\ author' = [author EXCEPT !.isn = IF Has(p, "syn") THEN p.seq ELSE @,
                                       !.val = IF HasTs(p) THEN Ts(p).val ELSE @]
    BY DEF OutboundEvent
  <1>3. Shapes /\ Linked
    BY DEF IInv
  <1>4. Expected(p) /\ IsPacket(p)
    BY <1>3, ExpectedIs DEF Expected
  <1>5. PICK i, v : /\ i = (IF Has(p, "syn") THEN p.seq ELSE author.isn)
                    /\ author' = [author EXCEPT !.isn = i, !.val = v]
    BY <1>2
  <1>6. PICK a : /\ a = author' /\ DOMAIN a = AuthorFields /\ a.seen = author.seen
                 /\ a.reconnected = author.reconnected
                 /\ a.isn = (IF "syn" \in p.flags THEN p.seq ELSE author.isn)
    <2>1. PICK a : a = author' /\ a = [author EXCEPT !.isn = i, !.val = v]
      BY <1>5
    <2>2. DOMAIN author = AuthorFields
      BY <1>3 DEF Shapes
    <2>3. DOMAIN a = AuthorFields /\ a.isn = i
      BY <2>1, <2>2 DEF AuthorFields
    <2>4. a.seen = author.seen /\ a.reconnected = author.reconnected
      BY <2>1, <2>2 DEF AuthorFields
    <2>5. QED
      BY <1>5, <2>1, <2>3, <2>4 DEF Has
  <1>7. a.isn \in Isns \cup {NoIsn}
    BY <1>3, <1>4, <1>6, ConfigIs DEF Shapes, Expected
  <1>8. Wire'
    BY <1>1, <1>3 DEF Shapes, Wire
  <1>9. PICK s, t : s = SocketFor(p, "out") /\ t = NoteSynAck(s, p)
    OBVIOUS
  <1>10. (KernelAccepts /\ OneFlow)'
    BY <1>1 DEF KernelAccepts, OneFlow, NoVerdict
  <1>11. CASE s = NoSock
    <2>1. phase' = "failed" /\ UNCHANGED <<sock, ev>>
      BY <1>2, <1>9, <1>11 DEF BeginOutbound
    <2>2. Shapes'
      BY <1>1, <1>3, <1>6, <1>7, <1>8, <2>1 DEF Shapes, Event
    <2>3. Linked' /\ ResetObeyed'
      BY <2>1 DEF Linked, ResetObeyed
    <2>4. QED
      BY <1>10, <2>2, <2>3 DEF IInv
  <1>12. CASE s # NoSock
    <2>1. /\ phase' = "sniff" /\ sock' = t
          /\ ev' = [script |-> p, sniffed |-> <<>>, raw |-> <<>>]
      BY <1>2, <1>9, <1>12 DEF BeginOutbound
    <2>2. SockOK(t) /\ Tracked(config, t, kern, a)
      BY <1>1, <1>3, <1>4, <1>6, <1>9, <1>12, SocketForOutbound
    <2>3. Event'
      BY <1>4, <2>1, ShortLists DEF Event, Sniffed
    <2>4. Shapes'
      BY <1>1, <1>3, <1>6, <1>7, <1>8, <2>1, <2>2, <2>3 DEF Shapes
    <2>5. Expecting'
      BY <1>1, <1>4, <2>1 DEF Expecting, Expected, SynAck, IsTcp
    <2>6. Linked' /\ ResetObeyed'
      BY <1>1, <1>6, <2>1, <2>2, <2>5 DEF Linked, ResetObeyed
    <2>7. QED
      BY <1>10, <2>4, <2>6 DEF IInv
  <1>13. QED
    BY <1>11, <1>12

-----------------------------------------------------------------------------
(* Sniffing.                                                               *)

\* What of a socket the invariant looks at
SameSock(s, t) ==
    /\ DOMAIN t = DOMAIN s /\ t.state = s.state /\ t.proto = s.proto /\ t.script = s.script
    /\ t.live = s.live /\ t.last_outbound = s.last_outbound /\ t.last_injected = s.last_injected

LEMMA SameSockIs ==
  ASSUME NEW s, NEW t, SameSock(s, t), SockOK(s), NEW c, NEW k, NEW a, Tracked(c, s, k, a)
  PROVE  SockOK(t) /\ Tracked(c, t, k, a)
  <1>1. SockOK(t)
    BY DEF SameSock, SockOK
  <1>2. Tracked(c, t, k, a)
    BY DEF SameSock, Tracked, Connecting, Accepting, Connected
  <1>3. QED
    BY <1>1, <1>2

\* What the socket learns of time stamps and flow labels changes neither its
\* state nor its sequence numbers.
LEMMA LearningKeeps ==
  ASSUME NEW s, SockOK(s), NEW live, NEW script
  PROVE  SameSock(s, LearnTs(s, live, script)) /\ SameSock(s, LearnLabel(s, live, script))
  <1>1. DOMAIN s = SockFields
    BY DEF SockOK
  <1>2. SameSock(s, LearnTs(s, live, script))
    <2>1. CASE LearnTs(s, live, script) = s
      BY <2>1 DEF SameSock
    <2>2. CASE \E m, f : LearnTs(s, live, script) = [s EXCEPT !.ts_val_map = m, !.first_ts = f]
      <3>1. PICK m, f : LearnTs(s, live, script) = [s EXCEPT !.ts_val_map = m, !.first_ts = f]
        BY <2>2
      <3>2. QED
        BY <1>1, <3>1 DEF SameSock, SockFields
    <2>3. QED
      BY <2>1, <2>2 DEF LearnTs
  <1>3. SameSock(s, LearnLabel(s, live, script))
    <2>1. CASE LearnLabel(s, live, script) = s
      BY <2>1 DEF SameSock
    <2>2. CASE \E l : LearnLabel(s, live, script) = [s EXCEPT !.label = l]
      <3>1. PICK l : LearnLabel(s, live, script) = [s EXCEPT !.label = l]
        BY <2>2
      <3>2. QED
        BY <1>1, <3>1 DEF SameSock, SockFields
    <2>3. QED
      BY <2>1, <2>2 DEF LearnLabel
  <1>4. QED
    BY <1>2, <1>3

LEMMA ConvertKeepsPort ==
  ASSUME NEW s, NEW q, IsPacket(q)
  PROVE  ConvertSeq(s, q).port = q.port
  <1>1. CASE ConvertSeq(s, q) = q
    BY <1>1
  <1>2. CASE \E x, y, o : ConvertSeq(s, q) = [q EXCEPT !.seq = x, !.ack_seq = y, !.opts = o]
    <2>1. PICK x, y, o : ConvertSeq(s, q) = [q EXCEPT !.seq = x, !.ack_seq = y, !.opts = o]
      BY <1>2
    <2>2. QED
      BY <2>1 DEF IsPacket, PacketFields
  <1>3. QED
    BY <1>1, <1>2 DEF ConvertSeq

LEMMA FirstOnWire ==
  ASSUME Wire, out # <<>>, out' = Tail(out), UNCHANGED <<config, kern>>
  PROVE  OnWire(config, kern, Head(out)) /\ Wire'
  <1>1. /\ 1 \in 1 .. Len(out) /\ Head(out) = out[1] /\ IsList(out')
        /\ \A i \in 1 .. Len(out') : \E j \in 1 .. Len(out) : out'[i] = out[j]
    BY HeadAndTail DEF Wire
  <1>2. QED
    BY <1>1 DEF Wire

LEMMA LearnFlowIs ==
  ASSUME SockOK(sock), KernOK(kern), NEW q, OnWire(config, kern, q)
  PROVE  LET s == LearnFlow(q) IN
         /\ SockOK(s) /\ s.state = sock.state /\ s.proto = sock.proto /\ s.script = sock.script
         /\ s.last_injected = sock.last_injected /\ s.last_outbound = sock.last_outbound
         /\ s.live.port = q.port
         /\ sock.live.port = q.port => s = sock
         /\ sock.live.port # q.port /\ IsTcp(q) => s.live.local_isn = q.seq
  <1>1. CASE KnownFlow(q)
    BY <1>1 DEF LearnFlow, KnownFlow
  <1>2. CASE ~KnownFlow(q)
    <2>1. PICK n : n = IF IsTcp(q) THEN q.seq ELSE sock.live.local_isn
      OBVIOUS
    <2>2. PICK s : s = LearnFlow(q) /\ s = [sock EXCEPT !.live.port = q.port, !.live.local_isn = n]
      BY <1>2, <2>1 DEF LearnFlow
    <2>3. /\ s.state = sock.state /\ s.proto = sock.proto /\ s.script = sock.script
          /\ s.last_injected = sock.last_injected /\ s.last_outbound = sock.last_outbound
          /\ DOMAIN s = SockFields
      BY <2>2 DEF SockOK, SockFields
    <2>4. PICK l : l = s.live /\ l = [sock.live EXCEPT !.port = q.port, !.local_isn = n]
      BY <2>2 DEF SockOK, SockFields
    <2>5. /\ l.port = q.port /\ l.local_isn = n /\ l.remote_isn = sock.live.remote_isn
          /\ DOMAIN l = DOMAIN sock.live
      BY <2>4 DEF SockOK
    <2>6. n \in Numbers
      BY <2>1 DEF OnWire, SockOK
    <2>7. q.port \in Ports \cup {0}
      BY DEF OnWire, KernOK, Ports, StrayPort
    <2>8. SockOK(s)
      BY <2>3, <2>4, <2>5, <2>6, <2>7 DEF SockOK
    <2>9. QED
      BY <1>2, <2>1, <2>2, <2>3, <2>4, <2>5, <2>8 DEF KnownFlow
  <1>3. QED
    BY <1>1, <1>2

\* The socket after a packet is sniffed for it, by cases of the kernel: the
\* first SYN or SYN-ACK makes known what the invariant asks for.
LEMMA AfterSniffIs ==
  ASSUME Shapes, Tracked(config, sock, kern, author), Expecting, NEW q, OnWire(config, kern, q),
         KnownFlow(q) \/ NewFlow(q), NEW a, a.isn = author.isn, a.reconnected = author.reconnected
  PROVE  SockOK(AfterSniff(q)) /\ Tracked(config, AfterSniff(q), kern, a)
  <1>1. SockOK(sock) /\ KernOK(kern) /\ config \in Configs
    BY DEF Shapes
  <1>2. PICK s : /\ s = LearnFlow(q) /\ SockOK(s) /\ s.state = sock.state /\ s.proto = sock.proto
                 /\ s.script = sock.script /\ s.last_injected = sock.last_injected
                 /\ s.last_outbound = sock.last_outbound /\ s.live.port = q.port
                 /\ sock.live.port = q.port => s = sock
                 /\ sock.live.port # q.port /\ IsTcp(q) => s.live.local_isn = q.seq
    BY <1>1, LearnFlowIs
  <1>3. PICK t : t = IF s.state = "PASSIVE_PACKET_RECEIVED" /\ SynAck(ev.script)
                       THEN [s EXCEPT !.state = "PASSIVE_SYNACK_SENT", !.live.local_isn = q.seq]
                       ELSE s
    OBVIOUS
  <1>4. /\ SockOK(t) /\ t.proto = s.proto /\ t.script = s.script /\ t.last_injected = s.last_injected
        /\ t.last_outbound = s.last_outbound /\ t.live.port = s.live.port
        /\ t.live.remote_isn = s.live.remote_isn
        /\ IF s.state = "PASSIVE_PACKET_RECEIVED" /\ SynAck(ev.script)
             THEN t.state = "PASSIVE_SYNACK_SENT" /\ t.live.local_isn = q.seq
             ELSE t = s
    <2>1. CASE s.state = "PASSIVE_PACKET_RECEIVED" /\ SynAck(ev.script)
      <3>1. t = [s EXCEPT !.state = "PASSIVE_SYNACK_SENT", !.live.local_isn = q.seq]
        BY <1>3, <2>1
      <3>2. /\ DOMAIN t = SockFields /\ t.proto = s.proto /\ t.script = s.script
            /\ t.last_injected = s.last_injected /\ t.last_outbound = s.last_outbound
            /\ t.state = "PASSIVE_SYNACK_SENT"
        BY <1>2, <3>1 DEF SockOK, SockFields
      <3>3. t.live = [s.live EXCEPT !.local_isn = q.seq]
        BY <1>2, <3>1 DEF SockOK, SockFields
      <3>4. /\ t.live.port = s.live.port /\ t.live.remote_isn = s.live.remote_isn
            /\ t.live.local_isn = q.seq /\ DOMAIN t.live = DOMAIN s.live
        BY <1>2, <3>3 DEF SockOK
      <3>5. q.seq \in Numbers /\ "PASSIVE_SYNACK_SENT" \in States
        BY DEF OnWire, States
      <3>6. SockOK(t)
        BY <1>2, <3>2, <3>4, <3>5 DEF SockOK
      <3>7. QED
        BY <2>1, <3>2, <3>4, <3>6
    <2>2. CASE ~(s.state = "PASSIVE_PACKET_RECEIVED" /\ SynAck(ev.script))
      BY <1>2, <1>3, <2>2
    <2>3. QED
      BY <2>1, <2>2
  <1>5. PICK r : r = AfterSniff(q) /\ r = IF IsTcp(q) THEN [t EXCEPT !.last_outbound = Header(q)] ELSE t
    BY <1>2, <1>3 DEF AfterSniff
  <1>6. /\ SockOK(r) /\ r.state = t.state /\ r.proto = t.proto /\ r.script = t.script
        /\ r.live = t.live /\ r.last_injected = t.last_injected
        /\ IsTcp(q) => r.last_outbound = Header(q)
    <2>1. CASE IsTcp(q)
      <3>1. r = [t EXCEPT !.last_outbound = Header(q)]
        BY <1>5, <2>1
      <3>2. /\ DOMAIN r = SockFields /\ r.state = t.state /\ r.proto = t.proto /\ r.script = t.script
            /\ r.live = t.live /\ r.last_injected = t.last_injected /\ r.last_outbound = Header(q)
        BY <1>4, <3>1 DEF SockOK, SockFields
      <3>3. SockOK(r)
        BY <1>4, <3>2 DEF SockOK
      <3>4. QED
        BY <3>2, <3>3
    <2>2. CASE ~IsTcp(q)
      BY <1>4, <1>5, <2>2
    <2>3. QED
      BY <2>1, <2>2
  <1>7. CASE config.proto = "udp"
    <2>1. r.proto = sock.proto /\ r.live.port = q.port /\ sock.proto # "tcp"
      BY <1>2, <1>4, <1>6, <1>7 DEF Tracked
    <2>2. ~config.strays => q.port = kern.port /\ kern.st # "closed"
      BY DEF OnWire
    <2>3. QED
      BY <1>5, <1>6, <1>7, <2>1, <2>2 DEF Tracked
  <1>8. CASE config.proto = "tcp"
    <2>1. /\ sock.proto = "tcp" /\ sock.live.port # StrayPort
          /\ kern.st \in {"syn_sent", "syn_rcvd", "established"}
          /\ kern.st = "syn_sent" => Connecting(sock, kern, author)
          /\ kern.st = "syn_rcvd" => Accepting(sock, kern, author)
          /\ kern.st = "established" => Connected(sock, kern)
      BY <1>8 DEF Tracked
    <2>2. IsTcp(q) /\ q.proto # "udp"
      BY <1>8 DEF OnWire, IsTcp
    <2>3. q.port = kern.port
      <3>1. CASE KnownFlow(q)
        BY <2>1, <3>1 DEF KnownFlow, OnWire
      <3>2. CASE NewFlow(q)
        BY <2>2, <3>2 DEF NewFlow, OnWire, Has
      <3>3. QED
        BY <3>1, <3>2
    <2>4. kern.port # StrayPort
      BY <1>1 DEF KernOK, StrayPort
    <2>5. /\ "syn" \in q.flags => q.seq = kern.iss
          /\ kern.st = "syn_sent" => q.flags = {"syn"}
          /\ kern.st = "syn_rcvd" => q.flags = {"syn", "ack"} /\ q.ack_seq = kern.rcv
      BY <1>8, <2>3, <2>4 DEF OnWire
    <2>6. /\ r.proto = "tcp" /\ r.live.port = kern.port
          /\ r.last_outbound.flags = q.flags /\ r.last_outbound.seq = q.seq
          /\ r.last_outbound.ack_seq = q.ack_seq
      BY <1>2, <1>4, <1>6, <2>1, <2>2, <2>3 DEF Header
    <2>7. CASE kern.st = "syn_sent"
      <3>1. Connecting(sock, kern, author)
        BY <2>1, <2>7
      <3>2. t = s
        BY <1>2, <1>4, <3>1 DEF Connecting
      <3>3. s.live.local_isn = kern.iss
        BY <1>2, <2>2, <2>3, <2>5, <2>7, <3>1 DEF Connecting
      <3>4. Connecting(r, kern, a)
        BY <1>2, <1>6, <2>5, <2>6, <2>7, <3>1, <3>2, <3>3 DEF Connecting
      <3>5. QED
        BY <1>5, <1>6, <1>8, <2>4, <2>6, <2>7, <3>4 DEF Tracked
    <2>8. CASE kern.st = "syn_rcvd"
      <3>1. Accepting(sock, kern, author) /\ SynAck(ev.script)
        BY <1>8, <2>1, <2>8 DEF Expecting
      <3>2. s = sock
        BY <1>2, <2>3, <3>1 DEF Accepting
      <3>3. t.state = "PASSIVE_SYNACK_SENT" /\ t.live.local_isn = kern.iss
        BY <1>4, <2>5, <2>8, <3>1, <3>2 DEF Accepting
      <3>4. t.live.remote_isn = kern.irs /\ "ack" \notin t.last_injected.flags
        BY <1>4, <3>1, <3>2 DEF Accepting
      <3>5. Accepting(r, kern, a)
        BY <1>6, <2>5, <2>6, <2>8, <3>3, <3>4 DEF Accepting
      <3>6. QED
        BY <1>5, <1>6, <1>8, <2>4, <2>6, <2>8, <3>5 DEF Tracked
    <2>9. CASE kern.st = "established"
      <3>1. Connected(sock, kern)
        BY <2>1, <2>9
      <3>2. s = sock /\ t = s
        BY <1>2, <1>4, <2>3, <3>1 DEF Connected
      <3>3. Connected(r, kern)
        BY <1>6, <3>1, <3>2 DEF Connected
      <3>4. QED
        BY <1>5, <1>6, <1>8, <2>4, <2>6, <2>9, <3>3 DEF Tracked
    <2>10. QED
      BY <2>1, <2>7, <2>8, <2>9
  <1>9. QED
    BY <1>1, <1>7, <1>8, ConfigIs

LEMMA JoinedIs ==
  ASSUME Sniffed(ev), NEW q, IsPacket(q)
  PROVE  Sniffed(Joined(q))
  <1>1. PICK p : p = ConvertSeq(AfterSniff(q), q) /\ p.port = q.port
    BY ConvertKeepsPort
  <1>2. PICK m \in Nat : /\ m = Len(ev.raw) /\ m = Len(ev.sniffed) /\ IsList(ev.raw) /\ IsList(ev.sniffed)
                         /\ \A i \in 1 .. m : /\ ev.raw[i].port = ev.raw[1].port
                                              /\ ev.sniffed[i].port = ev.raw[i].port
    BY ListIs DEF Sniffed
  <1>3. CASE ev.sniffed # <<>> /\ Last(ev.sniffed).port # q.port
    <2>1. PICK j : j = Joined(q) /\ j = [sniffed |-> <<p>>, raw |-> <<q>>]
      BY <1>1, <1>3 DEF Joined
    <2>2. j.sniffed = <<p>> /\ j.raw = <<q>>
      BY <2>1
    <2>3. QED
      BY <1>1, <2>1, <2>2, ShortLists DEF Sniffed
  <1>4. CASE ~(ev.sniffed # <<>> /\ Last(ev.sniffed).port # q.port)
    <2>1. PICK j : j = Joined(q) /\ j = [sniffed |-> Append(ev.sniffed, p), raw |-> Append(ev.raw, q)]
      BY <1>1, <1>4 DEF Joined
    <2>2. j.sniffed = Append(ev.sniffed, p) /\ j.raw = Append(ev.raw, q)
      BY <2>1
    <2>3. /\ IsList(j.raw) /\ Len(j.raw) = m + 1 /\ j.raw[m + 1] = q
          /\ \A i \in 1 .. m : j.raw[i] = ev.raw[i]
      <3>1. PICK l : l = ev.raw /\ IsList(l) /\ Len(l) = m
        BY <1>2
      <3>2. QED
        BY <2>2, <3>1, ListAppended
    <2>4. /\ IsList(j.sniffed) /\ Len(j.sniffed) = m + 1 /\ j.sniffed[m + 1] = p
          /\ \A i \in 1 .. m : j.sniffed[i] = ev.sniffed[i]
      <3>1. PICK l : l = ev.sniffed /\ IsList(l) /\ Len(l) = m
        BY <1>2
      <3>2. QED
        BY <2>2, <3>1, ListAppended
    <2>5. CASE m = 0
      <3>1. j.raw[1] = q /\ j.sniffed[1] = p /\ Len(j.raw) = 1 /\ Len(j.sniffed) = 1
        BY <2>3, <2>4, <2>5
      <3>2. QED
        BY <1>1, <2>1, <2>3, <2>4, <3>1 DEF Sniffed
    <2>6. CASE m # 0
      <3>1. ev.sniffed # <<>> /\ 1 \in 1 .. m /\ m \in 1 .. m
        BY <1>2, <2>6, ShortLists
      <3>2. Last(ev.sniffed) = ev.sniffed[m]
        BY <1>2 DEF Last
      <3>3. ev.raw[1].port = q.port
        BY <1>2, <1>4, <3>1, <3>2
      <3>4. ASSUME NEW i \in 1 .. m + 1
            PROVE  j.raw[i].port = q.port /\ j.sniffed[i].port = q.port
        <4>1. CASE i = m + 1
          BY <1>1, <2>3, <2>4, <4>1
        <4>2. CASE i # m + 1
          <5>1. i \in 1 .. m
            BY <4>2
          <5>2. QED
            BY <1>2, <2>3, <2>4, <3>3, <5>1
        <4>3. QED
          BY <4>1, <4>2
      <3>5. j.raw[1].port = q.port
        BY <1>2, <2>3, <3>1, <3>3
      <3>6. QED
        BY <2>1, <2>3, <2>4, <3>4, <3>5 DEF Sniffed
    <2>7. QED
      BY <2>5, <2>6
  <1>5. QED
    BY <1>3, <1>4

LEMMA SniffOtherStep == IInv /\ SniffOther => IInv'
  <1> SUFFICES ASSUME IInv, SniffOther PROVE IInv'
    OBVIOUS
  <1>1. out # <<>> /\ out' = Tail(out) /\ UNCHANGED <<codeVars, kern, author, config>>
    BY DEF SniffOther, codeVars
  <1>2. Wire' /\ KernOK(kern) /\ SameKern(kern, kern)
    BY <1>1, FirstOnWire DEF IInv, Shapes, SameKern
  <1>3. QED
    BY <1>1, <1>2, KernelStepKeeps

\* What every sniffed packet leaves behind
LEMMA SniffIs ==
  ASSUME IInv, NEW q, Sniff(q), UNCHANGED <<config, kern>>
  PROVE  /\ phase = "sniff" /\ Wire' /\ SockOK(AfterSniff(q)) /\ Sniffed(Joined(q))
         /\ \A a : a.isn = author.isn /\ a.reconnected = author.reconnected
                     => Tracked(config, AfterSniff(q), kern, a)
  <1>1. Shapes /\ Linked /\ phase = "sniff" /\ out # <<>> /\ q = Head(out) /\ out' = Tail(out)
        /\ (KnownFlow(q) \/ NewFlow(q))
    BY DEF IInv, Sniff
  <1>2. OnWire(config, kern, q) /\ Wire'
    BY <1>1, FirstOnWire DEF Shapes
  <1>3. Tracked(config, sock, kern, author) /\ Expecting
    BY <1>1 DEF Linked
  <1>4. \A a : a.isn = author.isn /\ a.reconnected = author.reconnected
                 => Tracked(config, AfterSniff(q), kern, a) /\ SockOK(AfterSniff(q))
    BY <1>1, <1>2, <1>3, AfterSniffIs
  <1>5. SockOK(AfterSniff(q))
    BY <1>4
  <1>6. Sniffed(Joined(q))
    BY <1>1, <1>2, JoinedIs DEF Shapes, Event, OnWire
  <1>7. QED
    BY <1>1, <1>2, <1>4, <1>5, <1>6

LEMMA SniffMoreStep == IInv /\ SniffMore => IInv'
  <1> SUFFICES ASSUME IInv, SniffMore PROVE IInv'
    OBVIOUS
  <1>1. UNCHANGED <<config, phase, verdict, injected, kern, author>>
    BY DEF SniffMore
  <1>2. PICK q : /\ Sniff(q) /\ sock' = AfterSniff(q)
                 /\ ev' = [script |-> ev.script, sniffed |-> Joined(q).sniffed, raw |-> Joined(q).raw]
    BY DEF SniffMore
  <1>3. /\ phase = "sniff" /\ Wire' /\ SockOK(AfterSniff(q)) /\ Sniffed(Joined(q))
        /\ Tracked(config, AfterSniff(q), kern, author)
    BY <1>1, <1>2, SniffIs
  <1>4. PICK e : /\ e = ev' /\ e.script = ev.script /\ e.sniffed = Joined(q).sniffed
                 /\ e.raw = Joined(q).raw /\ DOMAIN e = {"script", "sniffed", "raw"}
    BY <1>2
  <1>5. Sniffed(e) /\ IsPacket(e.script)
    BY <1>3, <1>4 DEF Sniffed, IInv, Shapes, Event
  <1>6. Event'
    BY <1>1, <1>3, <1>4, <1>5 DEF Event
  <1>7. Shapes'
    BY <1>1, <1>2, <1>3, <1>6 DEF IInv, Shapes
  <1>8. Expecting'
    BY <1>1, <1>3, <1>4 DEF IInv, Linked, Expecting
  <1>9. Linked'
    BY <1>1, <1>2, <1>3, <1>8 DEF Linked
  <1>10. (KernelAccepts /\ OneFlow /\ ResetObeyed)'
    BY <1>1 DEF IInv, KernelAccepts, OneFlow, ResetObeyed
  <1>11. QED
    BY <1>7, <1>9, <1>10 DEF IInv

\* The end of an event
LEMMA ConcludesKeeps ==
  ASSUME IInv, phase = "sniff", phase' \in {"idle", "failed"}, UNCHANGED <<config, injected, kern>>, Wire',
         NEW result, NEW j, Sniffed(j), Concludes(result, j.raw), NEW s, s = sock', SockOK(s),
         \A a : a.isn = author.isn /\ a.reconnected = author.reconnected => Tracked(config, s, kern, a)
  PROVE  IInv'
  <1>1. PICK a, l : a = author' /\ a = [author EXCEPT !.seen = TRUE, !.label = l]
    BY DEF Concludes
  <1>2. DOMAIN author = AuthorFields
    BY DEF IInv, Shapes
  <1>3. DOMAIN a = AuthorFields /\ a.isn = author.isn /\ a.reconnected = author.reconnected
    BY <1>1, <1>2 DEF AuthorFields
  <1>4. Event'
    BY NothingSniffed DEF Concludes, Event
  <1>5. Shapes'
    BY <1>1, <1>3, <1>4 DEF IInv, Shapes
  <1>6. Linked'
    <2>1. Tracked(config, s, kern, a)
      BY <1>3
    <2>2. QED
      BY <1>1, <2>1 DEF Linked
  <1>7. OneFlow'
    <2>1. PICK v : v = verdict' /\ v.raw = j.raw
      BY DEF Concludes
    <2>2. \A i \in 1 .. Len(j.raw) : j.raw[i].port = j.raw[1].port
      BY DEF Sniffed
    <2>3. DOMAIN j.raw = 1 .. Len(j.raw)
      BY ListIs DEF Sniffed
    <2>4. QED
      BY <2>1, <2>2, <2>3 DEF OneFlow
  <1>8. (KernelAccepts /\ ResetObeyed)'
    BY DEF IInv, KernelAccepts, ResetObeyed
  <1>9. QED
    BY <1>5, <1>6, <1>7, <1>8 DEF IInv

LEMMA SniffMismatchStep == IInv /\ SniffMismatch => IInv'
  <1> SUFFICES ASSUME IInv, SniffMismatch PROVE IInv'
    OBVIOUS
  <1>1. UNCHANGED <<config, injected, kern>> /\ phase' = "failed"
    BY DEF SniffMismatch
  <1>2. PICK q : Sniff(q) /\ sock' = AfterSniff(q) /\ Concludes("error", Joined(q).raw)
    BY DEF SniffMismatch
  <1>3. PICK s, j : s = sock' /\ s = AfterSniff(q) /\ j = Joined(q)
    BY <1>2
  <1>4. /\ phase = "sniff" /\ Wire' /\ SockOK(s) /\ Sniffed(j)
        /\ \A a : a.isn = author.isn /\ a.reconnected = author.reconnected => Tracked(config, s, kern, a)
    BY <1>1, <1>2, <1>3, SniffIs
  <1>5. Concludes("error", j.raw)
    BY <1>2, <1>3
  <1>6. QED
    BY <1>1, <1>3, <1>4, <1>5, ConcludesKeeps

LEMMA SniffLastStep == IInv /\ SniffLast => IInv'
  <1> SUFFICES ASSUME IInv, SniffLast PROVE IInv'
    OBVIOUS
  <1>1. UNCHANGED <<config, injected, kern>>
    BY DEF SniffLast
  <1>2. PICK q, check, live, s, j, r :
           /\ Sniff(q) /\ j = Joined(q) /\ r = AfterSniff(q) /\ s = sock'
           /\ s = IF check = "checksum" THEN r
                  ELSE LET t == LearnTs(r, live, ev.script) IN
                       IF check = "headers" THEN t ELSE LearnLabel(t, live, ev.script)
           /\ \/ phase' = "failed" /\ Concludes("error", j.raw)
              \/ phase' = "idle" /\ Concludes(IF check = "ok" THEN "ok" ELSE "warn", j.raw)
    BY DEF SniffLast
  <1>3. /\ phase = "sniff" /\ Wire' /\ SockOK(r) /\ Sniffed(j)
        /\ \A a : a.isn = author.isn /\ a.reconnected = author.reconnected => Tracked(config, r, kern, a)
    BY <1>1, <1>2, SniffIs
  <1>4. PICK t : t = LearnTs(r, live, ev.script) /\ SameSock(r, t)
    BY <1>3, LearningKeeps
  <1>5. \A a : Tracked(config, r, kern, a) => SockOK(t) /\ Tracked(config, t, kern, a)
    BY <1>3, <1>4, SameSockIs
  <1>6. SockOK(t) /\ \A a : a.isn = author.isn /\ a.reconnected = author.reconnected => Tracked(config, t, kern, a)
    BY <1>3, <1>5
  <1>7. PICK u : u = LearnLabel(t, live, ev.script) /\ SameSock(t, u)
    BY <1>6, LearningKeeps
  <1>8. \A a : Tracked(config, t, kern, a) => SockOK(u) /\ Tracked(config, u, kern, a)
    BY <1>6, <1>7, SameSockIs
  <1>9. SockOK(u) /\ \A a : a.isn = author.isn /\ a.reconnected = author.reconnected => Tracked(config, u, kern, a)
    BY <1>6, <1>8
  <1>10. s \in {r, t, u}
    BY <1>2, <1>4, <1>7
  <1>11. SockOK(s) /\ \A a : a.isn = author.isn /\ a.reconnected = author.reconnected => Tracked(config, s, kern, a)
    BY <1>3, <1>6, <1>9, <1>10
  <1>12. PICK result : Concludes(result, j.raw) /\ phase' \in {"idle", "failed"}
    BY <1>2
  <1>13. QED
    BY <1>1, <1>2, <1>3, <1>11, <1>12, ConcludesKeeps

-----------------------------------------------------------------------------
(* Mapping of inbound packets.                                             *)

\* An option of a packet of the script
Stamp(o) == \E v, e : o = TsOption(v, e)
Block(o) == \E l, r : o = SackOption(l, r)
Echoing(opts, i, x) == [opts EXCEPT ![i].ecr = x]

\* offset_sack_blocks(), and the echo that is put in its place afterwards
LEMMA OptionsAreMapped ==
  ASSUME NEW opts, NEW offset, NEW r, \A i \in DOMAIN opts : Stamp(opts[i]) \/ Block(opts[i]),
         \/ r = OffsetSack(opts, offset)
         \/ \E t, x : r = Echoing(OffsetSack(opts, offset), t, x)
  PROVE  /\ DOMAIN r = DOMAIN opts
         /\ \A i \in DOMAIN opts : r[i].kind = "sack" =>
              /\ opts[i].kind = "sack" /\ r[i].left = Plus(opts[i].left, offset)
              /\ r[i].right = Plus(opts[i].right, offset)
  <1>1. PICK m : /\ m = OffsetSack(opts, offset) /\ DOMAIN m = DOMAIN opts
                 /\ \A i \in DOMAIN opts : m[i] = IF opts[i].kind = "sack"
                      THEN [opts[i] EXCEPT !.left = Plus(@, offset), !.right = Plus(@, offset)]
                      ELSE opts[i]
    <2>1. PICK m : m = OffsetSack(opts, offset)
      OBVIOUS
    <2>2. m = [i \in DOMAIN opts |-> IF opts[i].kind = "sack"
                 THEN [opts[i] EXCEPT !.left = Plus(@, offset), !.right = Plus(@, offset)]
                 ELSE opts[i]]
      BY <2>1 DEF OffsetSack
    <2>3. QED
      BY <2>1, <2>2
  <1>2. ASSUME NEW i \in DOMAIN opts
        PROVE  \/ DOMAIN m[i] = {"kind", "length", "val", "ecr"} /\ m[i].kind = "ts"
               \/ /\ DOMAIN m[i] = {"kind", "length", "left", "right"} /\ m[i].kind = "sack"
                  /\ opts[i].kind = "sack" /\ m[i].left = Plus(opts[i].left, offset)
                  /\ m[i].right = Plus(opts[i].right, offset)
    <2>1. CASE Stamp(opts[i])
      <3>1. PICK v, e : opts[i] = TsOption(v, e)
        BY <2>1 DEF Stamp
      <3>2. opts[i] = [kind |-> "ts", length |-> 3, val |-> v, ecr |-> e]
        BY <3>1 DEF TsOption
      <3>3. opts[i].kind = "ts" /\ DOMAIN opts[i] = {"kind", "length", "val", "ecr"}
        BY <3>2
      <3>4. m[i] = opts[i]
        BY <1>1, <1>2, <3>3
      <3>5. QED
        BY <3>3, <3>4
    <2>2. CASE Block(opts[i])
      <3>1. PICK x, y : opts[i] = SackOption(x, y)
        BY <2>2 DEF Block
      <3>2. opts[i] = [kind |-> "sack", length |-> 3, left |-> x, right |-> y]
        BY <3>1 DEF SackOption
      <3>3. /\ opts[i].kind = "sack" /\ opts[i].left = x /\ opts[i].right = y
            /\ DOMAIN opts[i] = {"kind", "length", "left", "right"}
        BY <3>2
      <3>4. m[i] = [opts[i] EXCEPT !.left = Plus(@, offset), !.right = Plus(@, offset)]
        BY <1>1, <1>2, <3>3
      <3>5. /\ DOMAIN m[i] = DOMAIN opts[i] /\ m[i].kind = "sack"
            /\ m[i].left = Plus(x, offset) /\ m[i].right = Plus(y, offset)
        BY <3>3, <3>4
      <3>6. QED
        BY <3>3, <3>5
    <2>3. QED
      BY <1>2, <2>1, <2>2
  <1>3. CASE r = m
    BY <1>1, <1>2, <1>3
  <1>4. CASE \E t, x : r = Echoing(m, t, x)
    <2>1. PICK t, x : r = [m EXCEPT ![t].ecr = x]
      BY <1>4 DEF Echoing
    <2>2. DOMAIN r = DOMAIN m
      BY <2>1
    <2>3. ASSUME NEW i \in DOMAIN opts
          PROVE  /\ r[i].kind = m[i].kind
                 /\ m[i].kind = "sack" => r[i].left = m[i].left /\ r[i].right = m[i].right
      <3>1. CASE i = t
        <4>1. r[i] = [m[i] EXCEPT !.ecr = x]
          BY <1>1, <2>1, <2>3, <3>1
        <4>2. QED
          BY <1>2, <2>3, <4>1
      <3>2. CASE i # t
        <4>1. r[i] = m[i]
          BY <1>1, <2>1, <2>3, <3>2
        <4>2. QED
          BY <4>1
      <3>3. QED
        BY <3>1, <3>2
    <2>4. QED
      BY <1>1, <1>2, <2>2, <2>3
  <1>5. QED
    BY <1>1, <1>3, <1>4

LEMMA MapInboundIs ==
  ASSUME NEW s, NEW p, IsPacket(p), p.port = 0
  PROVE  LET q == MapInbound(s, p) IN
         /\ p.proto = "icmp" /\ p.echoed = "tcp" =>
              q.proto = "icmp" /\ q.port = s.live.port /\ q.seq = Plus(p.seq, s.live.local_isn)
         /\ p.proto = "udp" => q.proto = "udp" /\ q.port = s.live.port
         /\ p.proto = "tcp" =>
              /\ q.proto = "tcp" /\ q.port = s.live.port /\ q.flags = p.flags /\ q.len = p.len
              /\ q.seq = Plus(p.seq, IF "syn" \in p.flags THEN 0 ELSE s.live.remote_isn)
              /\ "ack" \in p.flags =>
                   q.ack_seq = Plus(p.ack_seq, LocalOffset(s, "syn" \in p.flags))
              /\ \/ q.opts = OffsetSack(p.opts, LocalOffset(s, "syn" \in p.flags))
                 \/ \E t, x : q.opts = Echoing(OffsetSack(p.opts, LocalOffset(s, "syn" \in p.flags)), t, x)
  <1>1. LiveTuple(s, p) = s.live.port
    BY DEF LiveTuple
  <1>2. PICK q : q = [p EXCEPT !.port = LiveTuple(s, p)]
    OBVIOUS
  <1>3. /\ IsPacket(q) /\ q.port = s.live.port /\ q.proto = p.proto /\ q.flags = p.flags
        /\ q.seq = p.seq /\ q.ack_seq = p.ack_seq /\ q.opts = p.opts /\ q.len = p.len
        /\ q.echoed = p.echoed
    BY <1>1, <1>2 DEF IsPacket, PacketFields
  <1>4. CASE p.proto = "icmp"
    <2>1. MapInbound(s, p) = IF p.echoed = "tcp" THEN [q EXCEPT !.seq = Plus(@, LocalOffset(s, FALSE))] ELSE q
      <3>1. MapInbound(s, p) = MapEchoed(s, q)
        BY <1>2, <1>4 DEF MapInbound, IsIcmp, IsTcp
      <3>2. QED
        BY <1>3, <3>1 DEF MapEchoed
    <2>2. LocalOffset(s, FALSE) = s.live.local_isn
      BY DEF LocalOffset
    <2>3. QED
      BY <1>3, <1>4, <2>1, <2>2 DEF IsPacket, PacketFields
  <1>5. CASE p.proto = "udp"
    <2>1. MapInbound(s, p) = q
      BY <1>2, <1>5 DEF MapInbound, IsIcmp, IsTcp
    <2>2. QED
      BY <1>3, <1>5, <2>1
  <1>6. CASE p.proto = "tcp"
    <2>1. PICK x, a, o : /\ x = Plus(p.seq, RemoteOffset(s, Has(p, "syn")))
                         /\ a = IF Has(p, "ack") THEN Plus(p.ack_seq, LocalOffset(s, Has(p, "syn")))
                                ELSE p.ack_seq
                         /\ o = OffsetSack(p.opts, LocalOffset(s, Has(p, "syn")))
      OBVIOUS
    <2>2. PICK m : /\ m = [q EXCEPT
                             !.seq = Plus(@, RemoteOffset(s, Has(p, "syn"))),
                             !.ack_seq = IF Has(p, "ack")
                                           THEN Plus(@, LocalOffset(s, Has(p, "syn"))) ELSE @,
                             !.opts = OffsetSack(@, LocalOffset(s, Has(p, "syn")))]
                   /\ MapInbound(s, p) = IF Has(p, "ack") /\ HasTs(p)
                        THEN [m EXCEPT !.opts[TsIndex(p)].ecr = LiveEcr(s, p)] ELSE m
      <3> DEFINE mapped == [q EXCEPT
                             !.seq = Plus(@, RemoteOffset(s, Has(p, "syn"))),
                             !.ack_seq = IF Has(p, "ack")
                                           THEN Plus(@, LocalOffset(s, Has(p, "syn"))) ELSE @,
                             !.opts = OffsetSack(@, LocalOffset(s, Has(p, "syn")))]
      <3>1. MapInbound(s, p) = IF Has(p, "ack") /\ HasTs(p)
              THEN [mapped EXCEPT !.opts[TsIndex(p)].ecr = LiveEcr(s, p)] ELSE mapped
        BY <1>2, <1>6 DEF MapInbound, IsIcmp, IsTcp
      <3> HIDE DEF mapped
      <3>2. \E m : m = mapped /\ MapInbound(s, p) = IF Has(p, "ack") /\ HasTs(p)
              THEN [m EXCEPT !.opts[TsIndex(p)].ecr = LiveEcr(s, p)] ELSE m
        BY <3>1
      <3>3. QED
        BY <3>2 DEF mapped
    <2>3. /\ IsPacket(m) /\ m.port = s.live.port /\ m.proto = "tcp" /\ m.flags = p.flags
          /\ m.len = p.len /\ m.seq = x /\ m.ack_seq = a /\ m.opts = o
      BY <1>3, <1>6, <2>1, <2>2 DEF IsPacket, PacketFields
    <2>4. RemoteOffset(s, Has(p, "syn")) = IF "syn" \in p.flags THEN 0 ELSE s.live.remote_isn
      BY DEF RemoteOffset, Has
    <2>5. CASE MapInbound(s, p) = m
      BY <1>6, <2>1, <2>3, <2>4, <2>5 DEF Has
    <2>6. CASE MapInbound(s, p) = [m EXCEPT !.opts[TsIndex(p)].ecr = LiveEcr(s, p)]
      <3>1. PICK t, y, r : t = TsIndex(p) /\ y = LiveEcr(s, p) /\ r = [o EXCEPT ![t].ecr = y]
        OBVIOUS
      <3>2. MapInbound(s, p) = [m EXCEPT !.opts = r]
        BY <2>3, <2>6, <3>1
      <3>3. PICK n : n = MapInbound(s, p) /\ n = [m EXCEPT !.opts = r]
        BY <3>2
      <3>4. /\ n.proto = "tcp" /\ n.port = s.live.port /\ n.flags = p.flags /\ n.len = p.len
            /\ n.seq = x /\ n.ack_seq = a /\ n.opts = r
        BY <2>3, <3>3 DEF IsPacket, PacketFields
      <3>5. n.opts = Echoing(o, t, y)
        BY <3>1, <3>4 DEF Echoing
      <3>6. n.opts = Echoing(OffsetSack(p.opts, LocalOffset(s, "syn" \in p.flags)), t, y)
        BY <2>1, <3>5 DEF Has
      <3>7. /\ n.seq = Plus(p.seq, IF "syn" \in p.flags THEN 0 ELSE s.live.remote_isn)
            /\ "ack" \in p.flags => n.ack_seq = Plus(p.ack_seq, LocalOffset(s, "syn" \in p.flags))
        BY <2>1, <2>4, <3>4 DEF Has
      <3>8. QED
        BY <1>6, <3>3, <3>4, <3>6, <3>7
    <2>7. QED
      BY <2>2, <2>5, <2>6
  <1>7. QED
    BY <1>4, <1>5, <1>6

-----------------------------------------------------------------------------
(* Inbound packets of the script.                                          *)

\* In the numbers of the script: part of what the kernel has in flight
Acknowledges(x) ==
    \E i \in Numbers : i <= Minus(kern.nxt, kern.una) /\ x = Plus(Rel(kern.una, kern.iss), i)

Edges(o) == \E l, r : Acknowledges(l) /\ Acknowledges(r) /\ o = SackOption(l, r)

InboundTcp(p) ==
    /\ p.proto = "tcp" /\ p.seq \in Numbers /\ p.len \in Nat
    /\ kern.st \in {"listen", "syn_sent", "syn_rcvd", "established"}
    /\ \A i \in DOMAIN p.opts : Stamp(p.opts[i]) \/ (kern.st = "established" /\ Edges(p.opts[i]))
    /\ kern.st = "listen" => p.flags = {"syn"}
    /\ kern.st = "syn_sent" =>
         author.seen /\ p.flags = {"syn", "ack"} /\ p.ack_seq = Plus(author.isn, 1) /\ p.len = 0
    /\ kern.st = "syn_rcvd" =>
         /\ author.seen /\ p.flags = {"ack"} /\ p.seq = Rel(kern.rcv, kern.irs)
         /\ p.ack_seq = Rel(kern.nxt, kern.iss)
    /\ kern.st = "established" =>
         /\ p.flags \in {{"ack"}, {"ack", "fin"}} /\ p.seq = Rel(kern.rcv, kern.irs)
         /\ Acknowledges(p.ack_seq)

Inbound(p) ==
    /\ IsPacket(p) /\ p.port = 0
    /\ config.proto = "udp" => p.proto = "udp" /\ kern.st = "established" /\ author.seen
    /\ config.proto = "tcp" =>
         \/ p.proto = "icmp" /\ p.echoed = "tcp" /\ kern.st = "established" /\ Acknowledges(p.seq)
         \/ InboundTcp(p)

LEMMA WithTsIs ==
  ASSUME NEW flags, NEW seq, NEW ack_seq, NEW len, NEW i, NEW p,
         p = WithTs(Packet("tcp", flags, seq, ack_seq, len), i)
  PROVE  /\ IsPacket(p) /\ p.proto = "tcp" /\ p.flags = flags /\ p.seq = seq /\ p.ack_seq = ack_seq
         /\ p.len = len /\ p.port = 0 /\ \A j \in DOMAIN p.opts : Stamp(p.opts[j])
  <1>1. PICK b : /\ b = Packet("tcp", flags, seq, ack_seq, len) /\ IsPacket(b) /\ b.proto = "tcp"
                 /\ b.flags = flags /\ b.seq = seq /\ b.ack_seq = ack_seq /\ b.len = len
                 /\ b.opts = <<>> /\ b.port = 0
    BY PacketIs
  <1>2. PICK o : o = TsOption(1, Plus(author.val, i)) /\ Stamp(o)
    BY DEF Stamp
  <1>3. p = IF config.ts THEN [b EXCEPT !.opts = <<o>> \o @] ELSE b
    BY <1>1, <1>2 DEF WithTs
  <1>4. CASE config.ts
    <2>1. p = [b EXCEPT !.opts = <<o>> \o <<>>]
      BY <1>1, <1>3, <1>4
    <2>2. PICK l : l = <<o>> /\ IsList(l) /\ Len(l) = 1 /\ l[1] = o
      BY ShortLists
    <2>3. PICK r : r = l \o <<>>
      OBVIOUS
    <2>4. IsList(r) /\ \A j \in 1 .. Len(r) : (j \in 1 .. 1 /\ r[j] = l[j])
      BY <2>2, <2>3, ListsJoined, ShortLists
    <2>5. \A j \in DOMAIN r : r[j] = o
      BY <2>2, <2>4, ListIs
    <2>6. /\ IsPacket(p) /\ p.proto = "tcp" /\ p.flags = flags /\ p.seq = seq /\ p.ack_seq = ack_seq
          /\ p.len = len /\ p.port = 0 /\ p.opts = r
      BY <1>1, <2>1, <2>2, <2>3 DEF IsPacket, PacketFields
    <2>7. QED
      BY <1>2, <2>5, <2>6
  <1>5. CASE ~config.ts
    BY <1>1, <1>3, <1>5
  <1>6. QED
    BY <1>4, <1>5

LEMMA InboundIs ==
  ASSUME Shapes, NEW p \in InboundPackets
  PROVE  Inbound(p)
  <1>1. KernOK(kern) /\ config \in Configs /\ MaxLen \in Nat
    BY BoundAssumption DEF Shapes
  <1>2. PICK seq : seq = Rel(kern.rcv, kern.irs) /\ seq \in Numbers
    <2>1. kern.rcv \in Int /\ kern.irs \in Int
      BY <1>1, ZeroAndOne DEF KernOK
    <2>2. QED
      BY <2>1, NumbersAreClosed DEF Rel
  <1>3. PICK acks : acks = {Plus(Rel(kern.una, kern.iss), i) : i \in 0 .. Minus(kern.nxt, kern.una)}
    OBVIOUS
  <1>4. \A a \in acks : Acknowledges(a)
    <2>1. PICK w : w = Minus(kern.nxt, kern.una) /\ w \in Numbers
      <3>1. kern.nxt \in Int /\ kern.una \in Int
        BY <1>1, ZeroAndOne DEF KernOK
      <3>2. QED
        BY <3>1, NumbersAreClosed
    <2>2. \A i \in 0 .. w : i \in Numbers /\ i <= w
      BY <2>1, SeqSpaceAssumption DEF Numbers
    <2>3. QED
      BY <1>3, <2>1, <2>2 DEF Acknowledges
  <1>5. CASE config.proto = "udp"
    <2>1. kern.st = "established" /\ author.seen /\ \E n : p = Packet("udp", {}, 0, 0, n)
      BY <1>5 DEF InboundPackets
    <2>2. QED
      BY <1>5, <2>1, PacketIs DEF Inbound
  <1>6. CASE config.proto = "tcp" /\ kern.st = "listen"
    <2>1. PICK i \in Isns : p = Packet("tcp", {"syn"}, i, 0, 0)
      BY <1>6 DEF InboundPackets
    <2>2. i \in Numbers
      BY IsnAssumption
    <2>3. /\ IsPacket(p) /\ p.proto = "tcp" /\ p.flags = {"syn"} /\ p.seq = i /\ p.len = 0
          /\ p.opts = <<>> /\ p.port = 0
      BY <2>1, PacketIs
    <2>4. DOMAIN p.opts = {}
      BY <2>3
    <2>5. QED
      BY <1>6, <2>2, <2>3, <2>4 DEF Inbound, InboundTcp
  <1>7. CASE config.proto = "tcp" /\ kern.st = "syn_sent"
    <2>1. author.seen /\ \E i \in Isns : p = WithTs(Packet("tcp", {"syn", "ack"}, i, Plus(author.isn, 1), 0), 0)
      BY <1>7 DEF InboundPackets
    <2>2. PICK i \in Isns : p = WithTs(Packet("tcp", {"syn", "ack"}, i, Plus(author.isn, 1), 0), 0)
      BY <2>1
    <2>3. i \in Numbers
      BY IsnAssumption
    <2>4. /\ IsPacket(p) /\ p.proto = "tcp" /\ p.flags = {"syn", "ack"} /\ p.seq = i
          /\ p.ack_seq = Plus(author.isn, 1)
          /\ p.len = 0 /\ p.port = 0 /\ \A j \in DOMAIN p.opts : Stamp(p.opts[j])
      BY <2>2, WithTsIs
    <2>5. QED
      BY <1>7, <2>1, <2>3, <2>4 DEF Inbound, InboundTcp
  <1>8. CASE config.proto = "tcp" /\ kern.st = "syn_rcvd"
    <2>1. /\ author.seen
          /\ \E n \in 0 .. 1 : p = WithTs(Packet("tcp", {"ack"}, seq, Rel(kern.nxt, kern.iss), n), 0)
      BY <1>2, <1>8 DEF InboundPackets
    <2>2. PICK n \in 0 .. 1 : p = WithTs(Packet("tcp", {"ack"}, seq, Rel(kern.nxt, kern.iss), n), 0)
      BY <2>1
    <2>3. /\ IsPacket(p) /\ p.proto = "tcp" /\ p.flags = {"ack"} /\ p.seq = seq
          /\ p.ack_seq = Rel(kern.nxt, kern.iss)
          /\ p.len = n /\ p.port = 0 /\ \A j \in DOMAIN p.opts : Stamp(p.opts[j])
      BY <2>2, WithTsIs
    <2>4. n \in Nat
      OBVIOUS
    <2>5. QED
      BY <1>2, <1>8, <2>1, <2>3, <2>4 DEF Inbound, InboundTcp
  <1>9. CASE config.proto = "tcp" /\ kern.st = "established"
    <2> DEFINE A == {WithTs(Packet("tcp", {"ack"} \union f, seq, a, n), 0) :
                       a \in acks, n \in 0..MaxLen, f \in {{}, {"fin"}}}
               B == {WithTs(Packet("tcp", {"ack"}, seq, a, 0), 1) : a \in acks}
               C == {[Packet("tcp", {"ack"}, seq, a, 0) EXCEPT
                        !.opts = <<SackOption(a, b)>>] : a \in acks, b \in acks}
               D == {[Packet("icmp", {}, a, 0, 0) EXCEPT !.echoed = "tcp"] : a \in acks}
    <2>1. InboundPackets = A \union (IF config.ts THEN B ELSE {})
                             \union (IF ~config.sack THEN {} ELSE C \union D)
      BY <1>2, <1>3, <1>9 DEF InboundPackets
    <2>2. p \in A \/ p \in B \/ p \in C \/ p \in D
      <3> HIDE DEF A, B, C, D
      <3>1. QED
        BY <2>1
    <2>3. CASE p \in A
      <3>1. PICK a \in acks, n \in 0 .. MaxLen, f \in {{}, {"fin"}} :
                   p = WithTs(Packet("tcp", {"ack"} \union f, seq, a, n), 0)
        BY <2>3
      <3>2. /\ IsPacket(p) /\ p.proto = "tcp" /\ p.flags = {"ack"} \union f /\ p.seq = seq
            /\ p.ack_seq = a /\ p.len = n /\ p.port = 0 /\ \A j \in DOMAIN p.opts : Stamp(p.opts[j])
        BY <3>1, WithTsIs
      <3>3. n \in Nat
        OBVIOUS
      <3>4. {"ack"} \union f \in {{"ack"}, {"ack", "fin"}}
        OBVIOUS
      <3>5. Acknowledges(a)
        BY <1>4
      <3>6. QED
        <4> HIDE DEF A, B, C, D
        <4>1. QED
          BY <1>2, <1>9, <3>2, <3>3, <3>4, <3>5 DEF Inbound, InboundTcp
    <2>4. CASE p \in B
      <3>1. PICK a \in acks : p = WithTs(Packet("tcp", {"ack"}, seq, a, 0), 1)
        BY <2>4
      <3>2. /\ IsPacket(p) /\ p.proto = "tcp" /\ p.flags = {"ack"} /\ p.seq = seq
            /\ p.ack_seq = a /\ p.len = 0 /\ p.port = 0 /\ \A j \in DOMAIN p.opts : Stamp(p.opts[j])
        BY <3>1, WithTsIs
      <3>3. Acknowledges(a)
        BY <1>4
      <3>4. QED
        <4> HIDE DEF A, B, C, D
        <4>1. QED
          BY <1>2, <1>9, <3>2, <3>3 DEF Inbound, InboundTcp
    <2>5. CASE p \in C
      <3>1. PICK a \in acks, b \in acks :
              p = [Packet("tcp", {"ack"}, seq, a, 0) EXCEPT !.opts = <<SackOption(a, b)>>]
        BY <2>5
      <3>2. PICK o, h : o = SackOption(a, b) /\ h = Packet("tcp", {"ack"}, seq, a, 0)
        OBVIOUS
      <3>3. /\ IsPacket(h) /\ h.proto = "tcp" /\ h.flags = {"ack"} /\ h.seq = seq /\ h.ack_seq = a
            /\ h.len = 0 /\ h.port = 0
        BY <3>2, PacketIs
      <3>4. p = [h EXCEPT !.opts = <<o>>]
        BY <3>1, <3>2
      <3>5. /\ IsPacket(p) /\ p.proto = "tcp" /\ p.flags = {"ack"} /\ p.seq = seq
            /\ p.ack_seq = a /\ p.len = 0 /\ p.port = 0 /\ p.opts = <<o>>
        BY <3>3, <3>4 DEF IsPacket, PacketFields
      <3>6. \A j \in DOMAIN p.opts : p.opts[j] = o
        BY <3>5
      <3>7. Acknowledges(a) /\ Acknowledges(b)
        BY <1>4
      <3>8. Edges(o)
        BY <3>2, <3>7 DEF Edges
      <3>9. QED
        <4> HIDE DEF A, B, C, D
        <4>1. QED
          BY <1>2, <1>9, <3>5, <3>6, <3>7, <3>8 DEF Inbound, InboundTcp
    <2>6. CASE p \in D
      <3>1. PICK a \in acks : p = [Packet("icmp", {}, a, 0, 0) EXCEPT !.echoed = "tcp"]
        BY <2>6
      <3>2. PICK h : h = Packet("icmp", {}, a, 0, 0) /\ IsPacket(h) /\ h.proto = "icmp" /\ h.seq = a /\ h.port = 0
        BY PacketIs
      <3>3. p = [h EXCEPT !.echoed = "tcp"]
        BY <3>1, <3>2
      <3>4. IsPacket(p) /\ p.proto = "icmp" /\ p.seq = a /\ p.port = 0 /\ p.echoed = "tcp"
        BY <3>2, <3>3 DEF IsPacket, PacketFields
      <3>5. Acknowledges(a)
        BY <1>4
      <3>6. QED
        <4> HIDE DEF A, B, C, D
        <4>1. QED
          BY <1>9, <3>4, <3>5 DEF Inbound
    <2>7. QED
      <3> HIDE DEF A, B, C, D
      <3>1. QED
        BY <2>2, <2>3, <2>4, <2>5, <2>6
  <1>10. CASE config.proto = "tcp" /\ kern.st = "closed"
    BY <1>10 DEF InboundPackets
  <1>11. QED
    BY <1>1, <1>5, <1>6, <1>7, <1>8, <1>9, <1>10, ConfigIs DEF KernOK

LEMMA AfterInboundIs ==
  ASSUME NEW s, SockOK(s), NEW p, NEW t, t = AfterInbound(s, p)
  PROVE  /\ p.proto # "tcp" => t = s
         /\ p.proto = "tcp" /\ p.seq \in Numbers =>
              /\ SockOK(t) /\ t.proto = s.proto /\ t.script.local_isn = s.script.local_isn
              /\ t.live.port = s.live.port /\ t.live.local_isn = s.live.local_isn
              /\ IF s.state = "PASSIVE_SYNACK_SENT" /\ "ack" \in p.flags
                 THEN t.state = "PASSIVE_SYNACK_ACKED" /\ t.live.remote_isn = s.live.remote_isn
                 ELSE IF s.state = "ACTIVE_SYN_SENT" /\ {"syn", "ack"} \subseteq p.flags
                 THEN t.state = "ACTIVE_SYN_ACKED" /\ t.live.remote_isn = p.seq
                 ELSE t = s
  <1>1. CASE p.proto # "tcp"
    BY <1>1 DEF AfterInbound, IsTcp, SynAck
  <1>2. CASE p.proto = "tcp" /\ p.seq \in Numbers /\ s.state = "PASSIVE_SYNACK_SENT" /\ "ack" \in p.flags
    <2>1. t = [s EXCEPT !.state = "PASSIVE_SYNACK_ACKED"]
      BY <1>2 DEF AfterInbound, IsTcp, SynAck, Has
    <2>2. /\ DOMAIN t = SockFields /\ t.state = "PASSIVE_SYNACK_ACKED" /\ t.proto = s.proto
          /\ t.script = s.script /\ t.live = s.live
      BY <2>1 DEF SockOK, SockFields
    <2>3. "PASSIVE_SYNACK_ACKED" \in States
      BY DEF States
    <2>4. SockOK(t)
      BY <2>2, <2>3 DEF SockOK
    <2>5. QED
      BY <1>2, <2>2, <2>4
  <1>3. CASE /\ p.proto = "tcp" /\ p.seq \in Numbers /\ s.state = "ACTIVE_SYN_SENT"
             /\ {"syn", "ack"} \subseteq p.flags
    <2>1. t = [s EXCEPT !.state = "ACTIVE_SYN_ACKED",
                        !.script.remote_isn = p.seq, !.live.remote_isn = p.seq]
      BY <1>3 DEF AfterInbound, IsTcp, SynAck
    <2>2. /\ DOMAIN t = SockFields /\ t.state = "ACTIVE_SYN_ACKED" /\ t.proto = s.proto
      BY <2>1 DEF SockOK, SockFields
    <2>3. t.script = [s.script EXCEPT !.remote_isn = p.seq]
      BY <2>1 DEF SockOK, SockFields
    <2>4. t.live = [s.live EXCEPT !.remote_isn = p.seq]
      BY <2>1 DEF SockOK, SockFields
    <2>5. t.script.local_isn = s.script.local_isn /\ DOMAIN t.script = DOMAIN s.script
      BY <2>3 DEF SockOK
    <2>6. /\ t.live.port = s.live.port /\ t.live.local_isn = s.live.local_isn
          /\ t.live.remote_isn = p.seq /\ DOMAIN t.live = DOMAIN s.live
      BY <2>4 DEF SockOK
    <2>7. "ACTIVE_SYN_ACKED" \in States
      BY DEF States
    <2>8. SockOK(t)
      BY <1>3, <2>2, <2>5, <2>6, <2>7 DEF SockOK
    <2>9. QED
      BY <1>3, <2>2, <2>5, <2>6, <2>8
  <1>4. CASE /\ p.proto = "tcp" /\ ~(s.state = "PASSIVE_SYNACK_SENT" /\ "ack" \in p.flags)
             /\ ~(s.state = "ACTIVE_SYN_SENT" /\ {"syn", "ack"} \subseteq p.flags)
    BY <1>4 DEF AfterInbound, IsTcp, SynAck, Has
  <1>5. QED
    BY <1>1, <1>2, <1>3, <1>4

\* The socket that an inbound TCP packet finds, or makes for a connection that
\* the kernel does not have yet
LEMMA SocketForInbound ==
  ASSUME Shapes, Linked, phase = "idle", config.proto = "tcp", NEW p, InboundTcp(p), p.port = 0,
         NEW found, found = SocketFor(p, "in"), NEW s, s = AfterInbound(found, p)
  PROVE  /\ found # NoSock /\ SockOK(s) /\ s.proto = "tcp" /\ s.live.port # StrayPort
         /\ kern.st = "listen" =>
              /\ s.state = "PASSIVE_PACKET_RECEIVED" /\ s.live.port = ListenPort
              /\ s.live.remote_isn = p.seq /\ ~author.seen
         /\ kern.st # "listen" => s.live.port = kern.port /\ s.live.local_isn = kern.iss
         /\ kern.st = "syn_sent" =>
              /\ s.state = "ACTIVE_SYN_ACKED" /\ s.live.remote_isn = p.seq
              /\ s.script.local_isn = author.isn
         /\ kern.st = "syn_rcvd" => s.state = "PASSIVE_SYNACK_ACKED" /\ s.live.remote_isn = kern.irs
         /\ kern.st = "established" =>
              /\ s.state \in {"PASSIVE_SYNACK_ACKED", "ACTIVE_SYN_ACKED"}
              /\ s.live.remote_isn = kern.irs
  <1>1. SockOK(sock) /\ KernOK(kern)
    BY DEF Shapes
  <1>2. p.proto = "tcp" /\ p.seq \in Numbers
    BY DEF InboundTcp
  <1>3. CASE kern.st = "listen"
    <2>1. Waiting(config, sock, kern, author) /\ p.flags = {"syn"}
      BY <1>3 DEF Linked, Tracked, InboundTcp
    <2>2. ListenMatch(p, "in")
      BY <1>2, <1>3, <2>1 DEF Waiting, ListenMatch, IsTcp
    <2>3. found = ChildFor(p)
      BY <2>2 DEF SocketFor
    <2>4. "PASSIVE_PACKET_RECEIVED" \in States
      BY DEF States
    <2>5. PICK b : /\ b = NewSock("PASSIVE_PACKET_RECEIVED", p.proto) /\ SockOK(b)
                   /\ b.state = "PASSIVE_PACKET_RECEIVED" /\ b.proto = p.proto
      BY <2>4, NewSockIs
    <2>6. found = [b EXCEPT !.script.remote_isn = p.seq, !.live.remote_isn = p.seq,
                            !.live.port = ListenPort]
      BY <2>3, <2>5 DEF ChildFor
    <2>7. /\ DOMAIN found = SockFields /\ found.state = "PASSIVE_PACKET_RECEIVED"
          /\ found.proto = "tcp"
      BY <1>2, <2>5, <2>6 DEF SockOK, SockFields
    <2>8. found.script = [b.script EXCEPT !.remote_isn = p.seq]
      BY <2>5, <2>6 DEF SockOK, SockFields
    <2>9. found.live = [b.live EXCEPT !.remote_isn = p.seq, !.port = ListenPort]
      BY <2>5, <2>6 DEF SockOK, SockFields
    <2>10. found.script.local_isn = b.script.local_isn /\ DOMAIN found.script = DOMAIN b.script
      BY <2>5, <2>8 DEF SockOK
    <2>11. /\ found.live.remote_isn = p.seq /\ found.live.port = ListenPort
           /\ found.live.local_isn = b.live.local_isn /\ DOMAIN found.live = DOMAIN b.live
      BY <2>5, <2>9 DEF SockOK
    <2>12. ListenPort \in Ports /\ ListenPort # StrayPort
      BY DEF ListenPort, StrayPort, Ports
    <2>13. SockOK(found)
      BY <1>2, <2>4, <2>5, <2>7, <2>10, <2>11, <2>12 DEF SockOK
    <2>14. s = found
      BY <1>2, <2>1, <2>7, <2>13, AfterInboundIs
    <2>15. found # NoSock
      BY <2>7, NoSockIs
    <2>16. QED
      BY <1>3, <2>1, <2>7, <2>11, <2>12, <2>13, <2>14, <2>15 DEF Waiting
  <1>4. CASE kern.st # "listen"
    <2>1. Tracked(config, sock, kern, author)
      BY <1>4 DEF Linked, Waiting, InboundTcp
    <2>2. /\ sock.proto = "tcp" /\ sock.live.port # StrayPort
          /\ kern.st \in {"syn_sent", "syn_rcvd", "established"}
          /\ kern.st = "syn_sent" => Connecting(sock, kern, author)
          /\ kern.st = "syn_rcvd" => Accepting(sock, kern, author)
          /\ kern.st = "established" => Connected(sock, kern)
      BY <2>1 DEF Tracked
    <2>3. sock.state \notin {"NULL", "PASSIVE_LISTENING"}
      BY <2>2 DEF Connecting, Accepting, Connected
    <2>4. sock # NoSock
      BY <2>3, NoSockIs
    <2>5. found = sock
      BY <1>2, <2>2, <2>3, <2>4 DEF SocketFor, ListenMatch, ConnectMatch, ScriptMatch
    <2>6. /\ SockOK(s) /\ s.proto = sock.proto /\ s.script.local_isn = sock.script.local_isn
          /\ s.live.port = sock.live.port /\ s.live.local_isn = sock.live.local_isn
          /\ IF sock.state = "PASSIVE_SYNACK_SENT" /\ "ack" \in p.flags
             THEN s.state = "PASSIVE_SYNACK_ACKED" /\ s.live.remote_isn = sock.live.remote_isn
             ELSE IF sock.state = "ACTIVE_SYN_SENT" /\ {"syn", "ack"} \subseteq p.flags
             THEN s.state = "ACTIVE_SYN_ACKED" /\ s.live.remote_isn = p.seq
             ELSE s = sock
      BY <1>1, <1>2, <2>5, AfterInboundIs
    <2>7. CASE kern.st = "syn_sent"
      <3>1. author.seen /\ p.flags = {"syn", "ack"}
        BY <2>7 DEF InboundTcp
      <3>2. /\ sock.state = "ACTIVE_SYN_SENT" /\ sock.script.local_isn = author.isn
            /\ sock.live.port = kern.port /\ sock.live.local_isn = kern.iss
        BY <2>2, <2>7, <3>1 DEF Connecting
      <3>3. QED
        BY <2>2, <2>4, <2>5, <2>6, <2>7, <3>1, <3>2
    <2>8. CASE kern.st = "syn_rcvd"
      <3>1. author.seen /\ p.flags = {"ack"}
        BY <2>8 DEF InboundTcp
      <3>2. /\ sock.state = "PASSIVE_SYNACK_SENT" /\ sock.live.remote_isn = kern.irs
            /\ sock.live.port = kern.port /\ sock.live.local_isn = kern.iss
        BY <2>2, <2>8, <3>1 DEF Accepting
      <3>3. QED
        BY <2>2, <2>4, <2>5, <2>6, <2>8, <3>1, <3>2
    <2>9. CASE kern.st = "established"
      <3>1. /\ sock.state \in {"PASSIVE_SYNACK_ACKED", "ACTIVE_SYN_ACKED"}
            /\ sock.live.remote_isn = kern.irs
            /\ sock.live.port = kern.port /\ sock.live.local_isn = kern.iss
        BY <2>2, <2>9 DEF Connected
      <3>2. s = sock
        BY <2>6, <3>1
      <3>3. QED
        BY <2>2, <2>4, <2>5, <2>6, <2>9, <3>1, <3>2
    <2>10. QED
      BY <2>2, <2>7, <2>8, <2>9
  <1>5. QED
    BY <1>3, <1>4

\* What KernelAccepts asks of a packet
Accepted(q, k) ==
    /\ q.port = IF k.st = "listen" THEN ListenPort ELSE k.port
    /\ IsTcp(q) =>
         /\ Synchronized(k) => q.seq = k.rcv
         /\ Has(q, "ack") => InWindow(k, q.ack_seq)
         /\ \A i \in DOMAIN q.opts : q.opts[i].kind = "sack" =>
              InWindow(k, q.opts[i].left) /\ InWindow(k, q.opts[i].right)
    /\ IsIcmp(q) => InWindow(k, q.seq)

\* What the kernel has in flight is in its window once it is mapped back.
LEMMA InFlightIsInWindow ==
  ASSUME KernOK(kern), NEW x, Acknowledges(x)
  PROVE  InWindow(kern, Plus(x, kern.iss)) /\ Plus(x, kern.iss) \in Numbers
  <1>1. PICK i \in Numbers : i <= Minus(kern.nxt, kern.una) /\ x = Plus(Rel(kern.una, kern.iss), i)
    BY DEF Acknowledges
  <1>2. kern.una \in Numbers /\ kern.iss \in Numbers
    BY DEF KernOK
  <1>3. Plus(x, kern.iss) = Plus(kern.una, i) /\ Minus(Plus(kern.una, i), kern.una) = i
    BY <1>1, <1>2, AcksAreMapped DEF Rel
  <1>4. Plus(kern.una, i) \in Numbers
    BY <1>2, ZeroAndOne, NumbersAreClosed
  <1>5. QED
    BY <1>1, <1>3, <1>4 DEF InWindow

LEMMA MappedIsAccepted ==
  ASSUME Shapes, NEW p, IsPacket(p), p.port = 0, InboundTcp(p), NEW s, NEW q, q = MapInbound(s, p),
         SockOK(s),
         kern.st = "listen" => s.live.port = ListenPort,
         kern.st # "listen" => s.live.port = kern.port /\ s.live.local_isn = kern.iss,
         kern.st = "syn_sent" => s.script.local_isn = author.isn,
         Synchronized(kern) => s.live.remote_isn = kern.irs
  PROVE  /\ Accepted(q, kern) /\ q.proto = "tcp" /\ q.flags = p.flags /\ q.len = p.len
         /\ q.port = s.live.port
         /\ kern.st \in {"listen", "syn_sent"} => q.seq = p.seq
         /\ kern.st \in {"syn_sent", "syn_rcvd"} => q.ack_seq = kern.nxt
         /\ Synchronized(kern) =>
              q.seq = kern.rcv /\ InWindow(kern, q.ack_seq) /\ q.ack_seq \in Numbers
  <1>1. KernOK(kern) /\ p.proto = "tcp" /\ p.seq \in Numbers
    BY DEF Shapes, InboundTcp
  <1>2. PICK off : off = LocalOffset(s, "syn" \in p.flags)
    OBVIOUS
  <1>3. /\ q.proto = "tcp" /\ q.port = s.live.port /\ q.flags = p.flags /\ q.len = p.len
        /\ q.seq = Plus(p.seq, IF "syn" \in p.flags THEN 0 ELSE s.live.remote_isn)
        /\ "ack" \in p.flags => q.ack_seq = Plus(p.ack_seq, off)
        /\ \/ q.opts = OffsetSack(p.opts, off)
           \/ \E t, x : q.opts = Echoing(OffsetSack(p.opts, off), t, x)
    BY <1>1, <1>2, MapInboundIs
  <1>4. \A i \in DOMAIN p.opts : Stamp(p.opts[i]) \/ Block(p.opts[i])
    BY DEF InboundTcp, Edges, Block
  <1>5. PICK o : /\ o = q.opts /\ DOMAIN o = DOMAIN p.opts
                 /\ \A i \in DOMAIN p.opts : o[i].kind = "sack" =>
                      /\ p.opts[i].kind = "sack" /\ o[i].left = Plus(p.opts[i].left, off)
                      /\ o[i].right = Plus(p.opts[i].right, off)
    BY <1>3, <1>4, OptionsAreMapped
  <1>6. kern.st \in {"listen", "syn_sent"} => q.seq = p.seq
    BY <1>1, <1>3, PlusZero DEF InboundTcp
  <1>7. Synchronized(kern) => q.seq = kern.rcv /\ off = kern.iss /\ "syn" \notin p.flags
    <2>1. SUFFICES ASSUME Synchronized(kern) PROVE q.seq = kern.rcv /\ off = kern.iss /\ "syn" \notin p.flags
      OBVIOUS
    <2>2. "syn" \notin p.flags /\ p.seq = Rel(kern.rcv, kern.irs)
      BY <2>1 DEF Synchronized, InboundTcp
    <2>3. off = kern.iss
      BY <1>2, <2>1, <2>2 DEF LocalOffset, Synchronized
    <2>4. Plus(Minus(kern.rcv, kern.irs), kern.irs) = kern.rcv
      BY <1>1, ThereAndBack DEF KernOK
    <2>5. QED
      BY <1>3, <2>1, <2>2, <2>3, <2>4 DEF Rel
  <1>8. kern.st = "syn_sent" => q.ack_seq = kern.nxt
    <2>1. SUFFICES ASSUME kern.st = "syn_sent" PROVE q.ack_seq = kern.nxt
      OBVIOUS
    <2>2. p.flags = {"syn", "ack"} /\ p.ack_seq = Plus(author.isn, 1)
      BY <2>1 DEF InboundTcp
    <2>3. off = Minus(kern.iss, author.isn)
      BY <1>2, <2>1, <2>2 DEF LocalOffset
    <2>4. author.isn \in Numbers /\ kern.iss \in Numbers /\ kern.nxt = Plus(kern.iss, 1)
      BY <1>1, <2>1 DEF KernOK, SockOK
    <2>5. QED
      BY <1>3, <2>2, <2>3, <2>4, SynAckIsMapped
  <1>9. kern.st = "syn_rcvd" => q.ack_seq = kern.nxt
    <2>1. SUFFICES ASSUME kern.st = "syn_rcvd" PROVE q.ack_seq = kern.nxt
      OBVIOUS
    <2>2. p.flags = {"ack"} /\ p.ack_seq = Minus(kern.nxt, kern.iss) /\ off = kern.iss
      BY <1>7, <2>1 DEF InboundTcp, Rel, Synchronized
    <2>3. QED
      BY <1>1, <1>3, <2>2, ThereAndBack DEF KernOK
  <1>10. kern.st = "established" => InWindow(kern, q.ack_seq) /\ q.ack_seq \in Numbers
    <2>1. SUFFICES ASSUME kern.st = "established" PROVE InWindow(kern, q.ack_seq) /\ q.ack_seq \in Numbers
      OBVIOUS
    <2>2. "ack" \in p.flags /\ Acknowledges(p.ack_seq) /\ off = kern.iss
      BY <1>7, <2>1 DEF InboundTcp, Synchronized
    <2>3. QED
      BY <1>1, <1>3, <2>2, InFlightIsInWindow
  <1>11. InWindow(kern, kern.nxt)
    <2>1. kern.nxt \in Int /\ kern.una \in Int
      BY <1>1, ZeroAndOne DEF KernOK
    <2>2. Minus(kern.nxt, kern.una) \in Int
      BY <2>1, NumbersAreClosed, ZeroAndOne
    <2>3. QED
      BY <2>2 DEF InWindow
  <1>12. Has(q, "ack") => InWindow(kern, q.ack_seq)
    BY <1>3, <1>8, <1>9, <1>10, <1>11 DEF Has, InboundTcp
  <1>13. ASSUME NEW i \in DOMAIN o, o[i].kind = "sack"
         PROVE  InWindow(kern, o[i].left) /\ InWindow(kern, o[i].right)
    <2>1. /\ i \in DOMAIN p.opts /\ p.opts[i].kind = "sack"
          /\ o[i].left = Plus(p.opts[i].left, off) /\ o[i].right = Plus(p.opts[i].right, off)
      BY <1>5, <1>13
    <2>2. ~Stamp(p.opts[i])
      <3>1. ASSUME NEW v, NEW e, p.opts[i] = TsOption(v, e) PROVE FALSE
        <4>1. TsOption(v, e).kind = "ts"
          BY DEF TsOption
        <4>2. QED
          BY <2>1, <3>1, <4>1
      <3>2. QED
        BY <3>1 DEF Stamp
    <2>3. kern.st = "established" /\ Edges(p.opts[i])
      BY <2>1, <2>2 DEF InboundTcp
    <2>4. PICK l, r : Acknowledges(l) /\ Acknowledges(r) /\ p.opts[i] = SackOption(l, r)
      BY <2>3 DEF Edges
    <2>5. p.opts[i].left = l /\ p.opts[i].right = r
      BY <2>4 DEF SackOption
    <2>6. off = kern.iss
      BY <1>7, <2>3 DEF Synchronized
    <2>7. InWindow(kern, Plus(l, kern.iss)) /\ InWindow(kern, Plus(r, kern.iss))
      BY <1>1, <2>4, InFlightIsInWindow
    <2>8. QED
      BY <2>1, <2>5, <2>6, <2>7
  <1>14. q.port = IF kern.st = "listen" THEN ListenPort ELSE kern.port
    BY <1>3
  <1>15. Accepted(q, kern)
    BY <1>3, <1>5, <1>7, <1>12, <1>13, <1>14 DEF Accepted, IsIcmp
  <1>16. Synchronized(kern) => InWindow(kern, q.ack_seq) /\ q.ack_seq \in Numbers
    BY <1>1, <1>9, <1>10, <1>11 DEF Synchronized, KernOK
  <1>17. QED
    BY <1>3, <1>6, <1>7, <1>8, <1>9, <1>15, <1>16

\* Time stamps aside, the kernel that has taken in packet q
Took(c, q) ==
    /\ KernOK(c) /\ c.iss = kern.iss /\ c.port = kern.port /\ c.st = "established"
    /\ c.irs = IF kern.st = "syn_sent" THEN q.seq ELSE kern.irs
    /\ c.rcv = IF kern.st = "syn_sent" THEN Plus(q.seq, 1)
               ELSE Plus(kern.rcv, q.len + IF "fin" \in q.flags THEN 1 ELSE 0)

\* The segment and its acknowledgment, if it takes one
LEMMA AckedIsOnWire ==
  ASSUME Shapes, NEW c, NEW q, Took(c, q), kern.st \in {"syn_sent", "syn_rcvd", "established"},
         NEW ps, ps = <<>> \/ ps = <<LivePacket(c, {"ack"}, c.nxt, 0)>>, Sends(c, ps),
         UNCHANGED config
  PROVE  Wire' /\ KernOK(kern') /\ SameKern(c, kern')
  <1>1. IsList(ps) /\ \A i \in 1 .. Len(ps) : OnWire(config, c, ps[i])
    <2>1. CASE ps = <<>>
      BY <2>1, ShortLists
    <2>2. CASE ps = <<LivePacket(c, {"ack"}, c.nxt, 0)>>
      <3>1. PICK l, n : /\ n = c.nxt /\ n \in Numbers /\ l = LivePacket(c, {"ack"}, n, 0) /\ ps = <<l>>
        BY <2>2 DEF Took, KernOK
      <3>2. Made(c, {"ack"}, n, l)
        BY <3>1, LivePacketIs
      <3>3. OnWire(config, c, l)
        BY <3>1, <3>2, MadeIsOnWire DEF Took, Shapes
      <3>4. QED
        BY <3>1, <3>3, ShortLists
    <2>3. QED
      BY <2>1, <2>2
  <1>2. \A r : OnWire(config, kern, r) => OnWire(config, c, r)
    BY DEF OnWire, Took
  <1>3. QED
    BY <1>1, <1>2, SendsKeepsWire DEF Took, Shapes

LEMMA SynIsTaken ==
  ASSUME Shapes, UNCHANGED config, NEW q, Receives(q), kern.st = "listen", q.proto = "tcp",
         q.flags = {"syn"}, q.port = ListenPort, q.seq \in Numbers
  PROVE  /\ Wire' /\ KernOK(kern') /\ kern'.st = "syn_rcvd" /\ kern'.port = ListenPort
         /\ kern'.irs = q.seq
  <1>1. KernOK(kern) /\ Wire /\ config \in Configs
    BY DEF Shapes
  <1> DEFINE k == [kern EXCEPT !.ts_recent = IF HasTs(q) THEN Ts(q).val ELSE @]
  <1>2. k = [kern EXCEPT !.ts_recent = IF HasTs(q) THEN Ts(q).val ELSE @]
    OBVIOUS
  <1>3. \E iss \in Isns :
          LET c == [k EXCEPT !.st = "syn_rcvd", !.port = ListenPort,
                             !.iss = iss, !.irs = q.seq, !.rcv = Plus(q.seq, 1),
                             !.una = iss, !.nxt = Plus(iss, 1)] IN
          Sends(c, Unacked(c))
    BY DEF Receives, IsTcp, Synchronized
  <1> HIDE DEF k
  <1>4. PICK iss \in Isns :
          LET c == [k EXCEPT !.st = "syn_rcvd", !.port = ListenPort,
                             !.iss = iss, !.irs = q.seq, !.rcv = Plus(q.seq, 1),
                             !.una = iss, !.nxt = Plus(iss, 1)] IN
          Sends(c, Unacked(c))
    BY <1>3
  <1>5. PICK c : /\ c = [k EXCEPT !.st = "syn_rcvd", !.port = ListenPort,
                                  !.iss = iss, !.irs = q.seq, !.rcv = Plus(q.seq, 1),
                                  !.una = iss, !.nxt = Plus(iss, 1)]
                 /\ Sends(c, Unacked(c))
    BY <1>4
  <1>6. iss \in Numbers /\ Plus(iss, 1) \in Numbers /\ Plus(q.seq, 1) \in Numbers
    <2>1. iss \in Numbers
      BY IsnAssumption
    <2>2. iss \in Int /\ q.seq \in Int
      BY <2>1, ZeroAndOne
    <2>3. QED
      BY <2>1, <2>2, NumbersAreClosed
  <1>7. DOMAIN k = KernFields
    BY <1>1, <1>2 DEF KernOK
  <1>8. /\ c.st = "syn_rcvd" /\ c.port = ListenPort /\ c.iss = iss /\ c.irs = q.seq
        /\ c.rcv = Plus(q.seq, 1) /\ c.una = iss /\ c.nxt = Plus(iss, 1) /\ DOMAIN c = KernFields
    BY <1>5, <1>7 DEF KernFields
  <1>9. KernOK(c)
    BY <1>6, <1>8 DEF KernOK, ListenPort
  <1>10. IsList(Unacked(c)) /\ \A i \in 1 .. Len(Unacked(c)) : OnWire(config, c, Unacked(c)[i])
    BY <1>1, <1>9, UnackedIsOnWire
  <1>11. \A r : OnWire(config, kern, r) => OnWire(config, c, r)
    BY OnlyStrays
  <1>12. Wire' /\ KernOK(kern') /\ SameKern(c, kern')
    BY <1>1, <1>5, <1>9, <1>10, <1>11, SendsKeepsWire
  <1>13. QED
    BY <1>8, <1>12 DEF SameKern

LEMMA SynAckIsTaken ==
  ASSUME Shapes, UNCHANGED config, NEW q, Receives(q), kern.st = "syn_sent", q.proto = "tcp",
         q.flags = {"syn", "ack"}, q.port = kern.port, q.seq \in Numbers, q.ack_seq = kern.nxt
  PROVE  Wire' /\ Took(kern', q)
  <1>1. KernOK(kern) /\ Wire /\ config \in Configs
    BY DEF Shapes
  <1> DEFINE k == [kern EXCEPT !.ts_recent = IF HasTs(q) THEN Ts(q).val ELSE @]
             a == [k EXCEPT !.una = q.ack_seq]
             d == [a EXCEPT !.st = "established", !.irs = q.seq, !.rcv = Plus(q.seq, 1)]
  <1>2. Sends(d, <<LivePacket(d, {"ack"}, d.nxt, 0)>>)
    BY DEF Receives, IsTcp, Synchronized
  <1>3. /\ k = [kern EXCEPT !.ts_recent = IF HasTs(q) THEN Ts(q).val ELSE @]
        /\ a = [k EXCEPT !.una = q.ack_seq]
    OBVIOUS
  <1> HIDE DEF k, a
  <1>4. PICK c : /\ c = [a EXCEPT !.st = "established", !.irs = q.seq, !.rcv = Plus(q.seq, 1)]
                 /\ Sends(c, <<LivePacket(c, {"ack"}, c.nxt, 0)>>)
    BY <1>2
  <1> HIDE DEF d
  <1>5. DOMAIN k = KernFields /\ k.nxt = kern.nxt /\ k.iss = kern.iss /\ k.port = kern.port
    BY <1>1, <1>3 DEF KernOK, KernFields
  <1>6. /\ DOMAIN a = KernFields /\ a.nxt = kern.nxt /\ a.iss = kern.iss /\ a.port = kern.port
        /\ a.una = kern.nxt
    BY <1>3, <1>5 DEF KernFields
  <1>7. /\ DOMAIN c = KernFields /\ c.nxt = kern.nxt /\ c.iss = kern.iss /\ c.port = kern.port
        /\ c.una = kern.nxt /\ c.st = "established" /\ c.irs = q.seq /\ c.rcv = Plus(q.seq, 1)
    BY <1>4, <1>6 DEF KernFields
  <1>8. Plus(q.seq, 1) \in Numbers
    <2>1. q.seq \in Int
      BY ZeroAndOne
    <2>2. QED
      BY <2>1, NumbersAreClosed
  <1>9. KernOK(c)
    BY <1>1, <1>7, <1>8 DEF KernOK
  <1>10. Took(c, q)
    BY <1>7, <1>9 DEF Took
  <1>11. Wire' /\ KernOK(kern') /\ SameKern(c, kern')
    BY <1>4, <1>10, AckedIsOnWire
  <1>12. QED
    BY <1>10, <1>11 DEF Took, SameKern

LEMMA SegmentIsTaken ==
  ASSUME Shapes, UNCHANGED config, NEW q, Receives(q), Synchronized(kern), q.proto = "tcp",
         q.flags \in {{"ack"}, {"ack", "fin"}}, q.port = kern.port, q.seq = kern.rcv, q.len \in Nat,
         InWindow(kern, q.ack_seq), kern.st = "syn_rcvd" => q.ack_seq = kern.nxt,
         q.ack_seq \in Numbers
  PROVE  Wire' /\ Took(kern', q)
  <1>1. KernOK(kern) /\ Wire /\ config \in Configs
    BY DEF Shapes
  <1> DEFINE k == [kern EXCEPT !.ts_recent = IF HasTs(q) THEN Ts(q).val ELSE @]
             a == [k EXCEPT !.una = q.ack_seq]
             n == q.len + IF Has(q, "fin") THEN 1 ELSE 0
             d == [a EXCEPT !.st = "established", !.rcv = Plus(@, n)]
  <1>2. Sends(d, IF n = 0 THEN <<>> ELSE <<LivePacket(d, {"ack"}, d.nxt, 0)>>)
    BY DEF Receives, IsTcp, Has, Synchronized
  <1>3. /\ k = [kern EXCEPT !.ts_recent = IF HasTs(q) THEN Ts(q).val ELSE @]
        /\ a = [k EXCEPT !.una = q.ack_seq]
    OBVIOUS
  <1>4. n = q.len + IF Has(q, "fin") THEN 1 ELSE 0
    OBVIOUS
  <1> HIDE DEF k, a, n
  <1>5. PICK c : /\ c = [a EXCEPT !.st = "established", !.rcv = Plus(@, n)]
                 /\ Sends(c, IF n = 0 THEN <<>> ELSE <<LivePacket(c, {"ack"}, c.nxt, 0)>>)
    BY <1>2
  <1> HIDE DEF d
  <1>6. /\ DOMAIN k = KernFields /\ k.nxt = kern.nxt /\ k.iss = kern.iss /\ k.port = kern.port
        /\ k.rcv = kern.rcv /\ k.irs = kern.irs
    BY <1>1, <1>3 DEF KernOK, KernFields
  <1>7. /\ DOMAIN a = KernFields /\ a.nxt = kern.nxt /\ a.iss = kern.iss /\ a.port = kern.port
        /\ a.rcv = kern.rcv /\ a.irs = kern.irs /\ a.una = q.ack_seq
    BY <1>3, <1>6 DEF KernFields
  <1>8. /\ DOMAIN c = KernFields /\ c.nxt = kern.nxt /\ c.iss = kern.iss /\ c.port = kern.port
        /\ c.una = q.ack_seq /\ c.st = "established" /\ c.irs = kern.irs /\ c.rcv = Plus(kern.rcv, n)
    BY <1>5, <1>7 DEF KernFields
  <1>9. Plus(kern.rcv, n) \in Numbers
    <2>1. kern.rcv \in Int /\ n \in Int
      BY <1>1, <1>4, ZeroAndOne DEF KernOK
    <2>2. QED
      BY <2>1, NumbersAreClosed
  <1>10. KernOK(c)
    BY <1>1, <1>8, <1>9 DEF KernOK
  <1>11. Took(c, q)
    BY <1>4, <1>8, <1>10 DEF Took, Has, Synchronized
  <1>12. PICK ps : /\ ps = IF n = 0 THEN <<>> ELSE <<LivePacket(c, {"ack"}, c.nxt, 0)>>
                   /\ Sends(c, ps)
    BY <1>5
  <1>13. kern.st \in {"syn_rcvd", "established"}
    BY DEF Synchronized
  <1>14. Wire' /\ KernOK(kern') /\ SameKern(c, kern')
    BY <1>11, <1>12, <1>13, AckedIsOnWire
  <1>15. QED
    BY <1>11, <1>14 DEF Took, SameKern

-----------------------------------------------------------------------------
(* run_packet_event() for inbound packets.                                 *)

LEMMA AcceptedIsKept ==
  ASSUME NEW q, NEW k, NEW p, injected' = [p |-> q, to |-> k, script |-> p], UNCHANGED config,
         (config.proto = "udp" /\ config.strays) \/ Accepted(q, k)
  PROVE  KernelAccepts'
  <1>1. PICK i : i = injected' /\ i.p = q /\ i.to = k
    OBVIOUS
  <1>2. QED
    BY <1>1 DEF KernelAccepts, Accepted

LEMMA InjectedKeeps ==
  ASSUME IInv, phase = "idle", UNCHANGED <<config, ev, author, phase>>, verdict' = NoVerdict,
         NEW s, s = sock', SockOK(s), Tracked(config, s, kern', author), KernOK(kern'), Wire', KernelAccepts'
  PROVE  IInv'
  <1>1. Shapes'
    BY DEF IInv, Shapes, Event
  <1>2. Linked'
    BY DEF Linked
  <1>3. OneFlow' /\ ResetObeyed'
    BY DEF OneFlow, ResetObeyed, NoVerdict
  <1>4. QED
    BY <1>1, <1>2, <1>3 DEF IInv

LEMMA FailedKeeps ==
  ASSUME IInv, phase = "idle", phase' = "failed", UNCHANGED <<config, ev, author, injected, out, kern>>,
         verdict' = NoVerdict, SockOK(sock')
  PROVE  IInv'
  <1>1. Wire'
    BY DEF IInv, Shapes, Wire
  <1>2. Shapes'
    BY <1>1 DEF IInv, Shapes, Event
  <1>3. (Linked /\ OneFlow /\ ResetObeyed)'
    BY DEF Linked, OneFlow, ResetObeyed, NoVerdict
  <1>4. KernelAccepts'
    BY DEF IInv, KernelAccepts
  <1>5. QED
    BY <1>2, <1>3, <1>4 DEF IInv

\* Packets that are not TCP do not reach the connection in the kernel.
LEMMA OthersPassBy ==
  ASSUME Shapes, UNCHANGED config, NEW q, q.proto # "tcp", Receives(q)
  PROVE  Wire' /\ KernOK(kern') /\ SameKern(kern, kern')
  <1>1. Sends(kern, <<>>)
    BY DEF Receives, IsTcp
  <1>2. IsList(<<>>) /\ \A i \in 1 .. Len(<<>>) : OnWire(config, kern, <<>>[i])
    BY ShortLists
  <1>3. QED
    BY <1>1, <1>2, SendsKeepsWire DEF Shapes

\* The header of the injected packet is kept for the reset.
LEMMA HeaderIsKept ==
  ASSUME NEW s, SockOK(s), NEW q, NEW t, t = [s EXCEPT !.last_injected = Header(q)]
  PROVE  /\ SockOK(t) /\ t.state = s.state /\ t.proto = s.proto /\ t.script = s.script /\ t.live = s.live
         /\ t.last_injected.flags = q.flags /\ t.last_injected.seq = q.seq
         /\ t.last_injected.len = q.len
  <1>1. /\ DOMAIN t = SockFields /\ t.state = s.state /\ t.proto = s.proto /\ t.script = s.script
        /\ t.live = s.live /\ t.last_injected = Header(q)
    BY DEF SockOK, SockFields
  <1>2. SockOK(t)
    BY <1>1 DEF SockOK
  <1>3. QED
    BY <1>1, <1>2 DEF Header

LEMMA SequenceLenIs ==
  ASSUME NEW h, h.len \in Nat
  PROVE  /\ h.flags = {"syn", "ack"} => SequenceLen(h) = h.len + 1
         /\ h.flags = {"ack", "fin"} => SequenceLen(h) = h.len + 1
         /\ h.flags = {"ack"} => SequenceLen(h) = h.len
  <1>1. Cardinality({"syn"}) = 1 /\ Cardinality({"fin"}) = 1 /\ Cardinality({}) = 0
    BY FS_Singleton, FS_EmptySet
  <1>2. /\ {"syn", "ack"} \cap {"syn", "fin"} = {"syn"}
        /\ {"ack", "fin"} \cap {"syn", "fin"} = {"fin"} /\ {"ack"} \cap {"syn", "fin"} = {}
    OBVIOUS
  <1>3. QED
    BY <1>1, <1>2 DEF SequenceLen

LEMMA InboundOther ==
  ASSUME IInv, phase = "idle", UNCHANGED <<config, ev, author>>, verdict' = NoVerdict,
         NEW p, Inbound(p), p.proto # "tcp", RunInbound(p)
  PROVE  IInv'
  <1>1. Shapes /\ Linked /\ SockOK(sock) /\ KernOK(kern) /\ config \in Configs
    BY DEF IInv, Shapes
  <1>2. /\ IsPacket(p) /\ p.port = 0 /\ kern.st = "established"
        /\ \/ config.proto = "udp" /\ p.proto = "udp" /\ author.seen
           \/ /\ config.proto = "tcp" /\ p.proto = "icmp" /\ p.echoed = "tcp"
              /\ Acknowledges(p.seq)
    BY <1>1, ConfigIs DEF Inbound, InboundTcp
  <1>3. Tracked(config, sock, kern, author)
    BY <1>1, <1>2 DEF Linked, Waiting
  <1>4. PICK found, s, q : found = SocketFor(p, "in") /\ s = AfterInbound(found, p) /\ q = MapInbound(s, p)
    OBVIOUS
  <1>5. found \in {sock, NoSock}
    BY <1>2, <1>4 DEF SocketFor, ListenMatch, ConnectMatch, IsTcp
  <1>6. s = found
    BY <1>1, <1>4, <1>5, AfterInboundIs, NoSockIs
  <1>7. CASE found = NoSock
    <2>1. phase' = "failed" /\ UNCHANGED <<sock, injected, out, kern>>
      BY <1>4, <1>7 DEF RunInbound
    <2>2. QED
      BY <1>1, <2>1, FailedKeeps
  <1>8. CASE found # NoSock
    <2>1. s = sock
      BY <1>5, <1>6, <1>8
    <2>2. /\ p.proto = "icmp" /\ p.echoed = "tcp" =>
               q.proto = "icmp" /\ q.port = s.live.port /\ q.seq = Plus(p.seq, s.live.local_isn)
          /\ p.proto = "udp" => q.proto = "udp" /\ q.port = s.live.port
      BY <1>2, <1>4, MapInboundIs
    <2>3. q.proto # "tcp" /\ q.port = sock.live.port
      BY <1>2, <2>1, <2>2
    <2>4. /\ sock' = s /\ injected' = [p |-> q, to |-> kern, script |-> p]
          /\ Receives(q) /\ UNCHANGED phase
      BY <1>4, <1>8, <2>3 DEF RunInbound, IsTcp
    <2>5. Wire' /\ KernOK(kern') /\ SameKern(kern, kern')
      BY <1>1, <2>3, <2>4, OthersPassBy
    <2>6. (config.proto = "udp" /\ config.strays) \/ Accepted(q, kern)
      <3>1. CASE config.proto = "udp" /\ ~config.strays
        <4>1. p.proto = "udp" /\ author.seen
          BY <1>2, <3>1
        <4>2. sock.live.port = kern.port
          BY <1>3, <3>1, <4>1 DEF Tracked
        <4>3. QED
          BY <1>2, <2>2, <2>3, <4>1, <4>2 DEF Accepted, IsTcp, IsIcmp
      <3>2. CASE config.proto = "tcp"
        <4>1. p.proto = "icmp" /\ p.echoed = "tcp" /\ Acknowledges(p.seq)
          BY <1>2, <3>2
        <4>2. sock.live.port = kern.port /\ sock.live.local_isn = kern.iss
          BY <1>2, <1>3, <3>2 DEF Tracked, Connected
        <4>3. InWindow(kern, q.seq)
          BY <1>1, <2>1, <2>2, <4>1, <4>2, InFlightIsInWindow
        <4>4. QED
          BY <1>2, <2>3, <4>2, <4>3 DEF Accepted, IsTcp
      <3>3. QED
        BY <1>2, <3>1, <3>2
    <2>7. KernelAccepts'
      BY <2>4, <2>6, AcceptedIsKept
    <2>8. Tracked(config, s, kern', author)
      BY <1>3, <2>1, <2>5, TrackedOfSame
    <2>9. QED
      BY <1>1, <2>1, <2>4, <2>5, <2>7, <2>8, InjectedKeeps
  <1>9. QED
    BY <1>7, <1>8

LEMMA InboundOfTcp ==
  ASSUME IInv, phase = "idle", UNCHANGED <<config, ev, author>>, verdict' = NoVerdict,
         config.proto = "tcp", NEW p, IsPacket(p), p.port = 0, InboundTcp(p), RunInbound(p)
  PROVE  IInv'
  <1>1. Shapes /\ Linked /\ KernOK(kern) /\ p.proto = "tcp" /\ p.seq \in Numbers /\ p.len \in Nat
    BY DEF IInv, Shapes, InboundTcp
  <1>2. PICK found, s, q : found = SocketFor(p, "in") /\ s = AfterInbound(found, p) /\ q = MapInbound(s, p)
    OBVIOUS
  <1>3. /\ found # NoSock /\ SockOK(s) /\ s.proto = "tcp" /\ s.live.port # StrayPort
        /\ kern.st = "listen" =>
             /\ s.state = "PASSIVE_PACKET_RECEIVED" /\ s.live.port = ListenPort
             /\ s.live.remote_isn = p.seq /\ ~author.seen
        /\ kern.st # "listen" => s.live.port = kern.port /\ s.live.local_isn = kern.iss
        /\ kern.st = "syn_sent" =>
             /\ s.state = "ACTIVE_SYN_ACKED" /\ s.live.remote_isn = p.seq
             /\ s.script.local_isn = author.isn
        /\ kern.st = "syn_rcvd" => s.state = "PASSIVE_SYNACK_ACKED" /\ s.live.remote_isn = kern.irs
        /\ kern.st = "established" =>
             /\ s.state \in {"PASSIVE_SYNACK_ACKED", "ACTIVE_SYN_ACKED"}
             /\ s.live.remote_isn = kern.irs
    BY <1>1, <1>2, SocketForInbound
  <1>4. CASE ~EcrKnown(s, p, config.tcp_ts_ecr_scaled)
    <2>1. phase' = "failed" /\ sock' = s /\ UNCHANGED <<injected, out, kern>>
      BY <1>1, <1>2, <1>3, <1>4 DEF RunInbound, IsTcp
    <2>2. QED
      BY <1>3, <2>1, FailedKeeps
  <1>5. CASE EcrKnown(s, p, config.tcp_ts_ecr_scaled)
    <2>1. /\ Accepted(q, kern) /\ q.proto = "tcp" /\ q.flags = p.flags /\ q.len = p.len
          /\ q.port = s.live.port
          /\ kern.st \in {"listen", "syn_sent"} => q.seq = p.seq
          /\ kern.st \in {"syn_sent", "syn_rcvd"} => q.ack_seq = kern.nxt
          /\ Synchronized(kern) =>
               q.seq = kern.rcv /\ InWindow(kern, q.ack_seq) /\ q.ack_seq \in Numbers
      BY <1>1, <1>2, <1>3, MappedIsAccepted DEF Synchronized
    <2>2. PICK t : t = [s EXCEPT !.last_injected = Header(q)]
      OBVIOUS
    <2>3. /\ sock' = t /\ injected' = [p |-> q, to |-> kern, script |-> p]
          /\ Receives(q) /\ UNCHANGED phase
      BY <1>2, <1>3, <1>5, <2>1, <2>2 DEF RunInbound, IsTcp
    <2>4. KernelAccepts'
      BY <2>1, <2>3, AcceptedIsKept
    <2>5. /\ SockOK(t) /\ t.state = s.state /\ t.proto = "tcp" /\ t.script = s.script /\ t.live = s.live
          /\ t.last_injected.flags = q.flags /\ t.last_injected.seq = q.seq
          /\ t.last_injected.len = q.len
      BY <1>3, <2>2, HeaderIsKept
    <2>6. PICK n : n = SequenceLen(t.last_injected)
      OBVIOUS
    <2>7. /\ q.flags = {"syn", "ack"} => n = p.len + 1
          /\ q.flags = {"ack", "fin"} => n = p.len + 1
          /\ q.flags = {"ack"} => n = p.len
      BY <1>1, <2>1, <2>5, <2>6, SequenceLenIs
    <2>8. CASE kern.st = "listen"
      <3>1. q.flags = {"syn"} /\ q.seq = p.seq /\ q.port = ListenPort
        BY <1>3, <2>1, <2>8 DEF InboundTcp
      <3>2. PICK l : /\ l = kern' /\ Wire' /\ KernOK(l) /\ l.st = "syn_rcvd" /\ l.port = ListenPort
                     /\ l.irs = q.seq
        BY <1>1, <2>1, <2>3, <2>8, <3>1, SynIsTaken
      <3>3. Accepting(t, l, author)
        BY <1>3, <2>5, <2>8, <3>1, <3>2 DEF Accepting
      <3>4. Tracked(config, t, l, author)
        BY <1>3, <2>5, <3>2, <3>3 DEF Tracked
      <3>5. QED
        BY <2>3, <2>4, <2>5, <3>2, <3>4, InjectedKeeps
    <2>9. CASE kern.st \in {"syn_sent", "syn_rcvd", "established"}
      <3>1. Wire' /\ Took(kern', q)
        <4>1. CASE kern.st = "syn_sent"
          <5>1. q.flags = {"syn", "ack"} /\ q.port = kern.port /\ q.seq \in Numbers
            BY <1>1, <1>3, <2>1, <4>1 DEF InboundTcp
          <5>2. QED
            BY <1>1, <2>1, <2>3, <4>1, <5>1, SynAckIsTaken
        <4>2. CASE kern.st \in {"syn_rcvd", "established"}
          <5>1. q.flags \in {{"ack"}, {"ack", "fin"}} /\ q.port = kern.port /\ Synchronized(kern)
            BY <1>3, <2>1, <4>2 DEF InboundTcp, Synchronized
          <5>2. QED
            BY <1>1, <2>1, <2>3, <4>2, <5>1, SegmentIsTaken
        <4>3. QED
          BY <2>9, <4>1, <4>2
      <3>2. PICK l : l = kern' /\ Took(l, q)
        BY <3>1
      <3>3. /\ KernOK(l) /\ l.iss = kern.iss /\ l.port = kern.port /\ l.st = "established"
            /\ l.irs = IF kern.st = "syn_sent" THEN q.seq ELSE kern.irs
            /\ l.rcv = IF kern.st = "syn_sent" THEN Plus(q.seq, 1)
                       ELSE Plus(kern.rcv, q.len + IF "fin" \in q.flags THEN 1 ELSE 0)
        BY <3>2 DEF Took
      <3>4. "ack" \in q.flags /\ Plus(q.seq, n) = l.rcv
        <4>1. CASE kern.st = "syn_sent"
          <5>1. q.flags = {"syn", "ack"} /\ p.len = 0
            BY <2>1, <4>1 DEF InboundTcp
          <5>2. n = 1
            BY <2>7, <5>1
          <5>3. QED
            BY <3>3, <4>1, <5>1, <5>2
        <4>2. CASE kern.st \in {"syn_rcvd", "established"}
          <5>1. q.flags \in {{"ack"}, {"ack", "fin"}} /\ q.seq = kern.rcv
            BY <2>1, <4>2 DEF InboundTcp, Synchronized
          <5>2. n = q.len + IF "fin" \in q.flags THEN 1 ELSE 0
            BY <1>1, <2>1, <2>7, <5>1
          <5>3. QED
            BY <3>3, <4>2, <5>1, <5>2
        <4>3. QED
          BY <2>9, <4>1, <4>2
      <3>5. t.live.remote_isn = l.irs
        BY <1>3, <2>1, <2>5, <2>9, <3>3
      <3>6. Connected(t, l)
        BY <1>3, <2>5, <2>6, <2>9, <3>3, <3>4, <3>5 DEF Connected
      <3>7. Tracked(config, t, l, author)
        BY <1>3, <2>5, <3>3, <3>6 DEF Tracked
      <3>8. QED
        BY <2>3, <2>4, <2>5, <3>1, <3>2, <3>3, <3>7, InjectedKeeps
    <2>10. QED
      BY <2>8, <2>9 DEF InboundTcp
  <1>6. QED
    BY <1>4, <1>5

LEMMA InboundEventStep == IInv /\ InboundEvent => IInv'
  <1> SUFFICES ASSUME IInv, InboundEvent PROVE IInv'
    OBVIOUS
  <1>1. phase = "idle" /\ UNCHANGED <<config, ev, author>> /\ verdict' = NoVerdict /\ Shapes
    BY DEF InboundEvent, IInv
  <1>2. PICK p \in InboundPackets : RunInbound(p)
    BY DEF InboundEvent
  <1>3. Inbound(p)
    BY <1>1, InboundIs
  <1>4. CASE p.proto # "tcp"
    BY <1>1, <1>2, <1>3, <1>4, InboundOther
  <1>5. CASE p.proto = "tcp"
    <2>1. config.proto = "tcp" /\ IsPacket(p) /\ p.port = 0 /\ InboundTcp(p)
      BY <1>1, <1>3, <1>5, ConfigIs DEF Inbound, Shapes
    <2>2. QED
      BY <1>1, <1>2, <2>1, InboundOfTcp
  <1>6. QED
    BY <1>4, <1>5

-----------------------------------------------------------------------------
(* socket_close() and reset_connection().                                  *)

LEMMA ResetPacketIs ==
  ASSUME NEW s
  PROVE  LET p == ResetPacket(s)
             i == s.last_injected
             o == s.last_outbound IN
         /\ p.port = s.live.port
         /\ "ack" \in i.flags => p.seq = Plus(i.seq, SequenceLen(i))
         /\ "ack" \notin i.flags /\ "ack" \in o.flags => p.seq = o.ack_seq
         /\ "ack" \notin i.flags /\ "ack" \notin o.flags => p.ack_seq = Plus(o.seq, 1)
  <1> DEFINE rst(seq, ack) == [Packet("tcp", {"rst", "ack"}, seq, ack, 0) EXCEPT !.port = s.live.port]
             i == s.last_injected
             o == s.last_outbound
  <1>1. /\ "ack" \in i.flags => ResetPacket(s) = rst(Plus(i.seq, SequenceLen(i)), i.ack_seq)
        /\ "ack" \notin i.flags /\ "ack" \in o.flags => ResetPacket(s) = rst(o.ack_seq, o.seq)
        /\ "ack" \notin i.flags /\ "ack" \notin o.flags => ResetPacket(s) = rst(0, Plus(o.seq, 1))
    BY DEF ResetPacket
  <1>2. ASSUME NEW seq, NEW ack
        PROVE  /\ rst(seq, ack).port = s.live.port /\ rst(seq, ack).seq = seq
               /\ rst(seq, ack).ack_seq = ack
    <2>1. PICK b : /\ b = Packet("tcp", {"rst", "ack"}, seq, ack, 0)
                   /\ IsPacket(b) /\ b.seq = seq /\ b.ack_seq = ack
      BY PacketIs
    <2>2. rst(seq, ack) = [b EXCEPT !.port = s.live.port]
      BY <2>1
    <2>3. QED
      BY <2>1, <2>2 DEF IsPacket, PacketFields
  <1> HIDE DEF rst
  <1>3. CASE "ack" \in i.flags
    BY <1>1, <1>2, <1>3
  <1>4. CASE "ack" \notin i.flags /\ "ack" \in o.flags
    BY <1>1, <1>2, <1>4
  <1>5. CASE "ack" \notin i.flags /\ "ack" \notin o.flags
    BY <1>1, <1>2, <1>5
  <1>6. QED
    BY <1>3, <1>4, <1>5

LEMMA SocketCloseStep == IInv /\ SocketClose => IInv'
  <1> SUFFICES ASSUME IInv, SocketClose PROVE IInv'
    OBVIOUS
  <1>1. /\ phase = "idle" /\ phase' = "closed" /\ sock' = NoSock
        /\ injected' = IF sock.proto = "tcp" /\ sock.live.port # 0
                         THEN [p |-> ResetPacket(sock), to |-> kern, script |-> <<>>] ELSE NoInjection
        /\ UNCHANGED <<config, ev, verdict, out, kern, author>>
    BY DEF SocketClose
  <1>2. Shapes /\ Linked /\ KernOK(kern) /\ config \in Configs
    BY DEF IInv, Shapes
  <1>3. Wire'
    BY <1>1, <1>2 DEF Shapes, Wire
  <1>4. Shapes'
    BY <1>1, <1>2, <1>3, NoSockIs DEF Shapes, Event
  <1>5. Linked' /\ KernelAccepts'
    BY <1>1 DEF Linked, KernelAccepts
  <1>6. OneFlow'
    BY <1>1 DEF IInv, OneFlow
  <1>7. ResetObeyed'
    <2>1. PICK i : i = injected'
      OBVIOUS
    <2>2. SUFFICES ASSUME i # NoInjection, author.seen, ~author.reconnected
                   PROVE  /\ i.p.port = i.to.port
                          /\ Synchronized(i.to) => i.p.seq = i.to.rcv
                          /\ i.to.st = "syn_sent" => i.p.ack_seq = i.to.nxt
      BY <1>1, <2>1 DEF ResetObeyed
    <2>3. sock.proto = "tcp" /\ i = [p |-> ResetPacket(sock), to |-> kern, script |-> <<>>]
      BY <1>1, <2>1, <2>2
    <2>4. PICK p : p = ResetPacket(sock) /\ i.p = p /\ i.to = kern
      BY <2>3
    <2>5. Tracked(config, sock, kern, author) /\ config.proto = "tcp"
      BY <1>1, <1>2, <2>2, <2>3, ConfigIs DEF Linked, Waiting, Tracked
    <2>6. /\ kern.st \in {"syn_sent", "syn_rcvd", "established"}
          /\ kern.st = "syn_sent" => Connecting(sock, kern, author)
          /\ kern.st = "syn_rcvd" => Accepting(sock, kern, author)
          /\ kern.st = "established" => Connected(sock, kern)
      BY <2>5 DEF Tracked
    <2>7. LET h == sock.last_injected
              o == sock.last_outbound IN
          /\ p.port = sock.live.port
          /\ "ack" \in h.flags => p.seq = Plus(h.seq, SequenceLen(h))
          /\ "ack" \notin h.flags /\ "ack" \in o.flags => p.seq = o.ack_seq
          /\ "ack" \notin h.flags /\ "ack" \notin o.flags => p.ack_seq = Plus(o.seq, 1)
      BY <2>4, ResetPacketIs
    <2>8. CASE kern.st = "syn_sent"
      <3>1. kern.nxt = Plus(kern.iss, 1)
        BY <1>2, <2>8 DEF KernOK
      <3>2. /\ "ack" \notin sock.last_injected.flags /\ sock.live.port = kern.port
            /\ sock.last_outbound.flags = {"syn"} /\ sock.last_outbound.seq = kern.iss
        BY <2>2, <2>6, <2>8 DEF Connecting
      <3>3. QED
        BY <2>4, <2>7, <2>8, <3>1, <3>2 DEF Synchronized
    <2>9. CASE kern.st = "syn_rcvd"
      <3>1. /\ "ack" \notin sock.last_injected.flags /\ sock.live.port = kern.port
            /\ "ack" \in sock.last_outbound.flags /\ sock.last_outbound.ack_seq = kern.rcv
        BY <2>2, <2>6, <2>9 DEF Accepting
      <3>2. QED
        BY <2>4, <2>7, <2>9, <3>1
    <2>10. CASE kern.st = "established"
      <3>1. /\ "ack" \in sock.last_injected.flags /\ sock.live.port = kern.port
            /\ Plus(sock.last_injected.seq, SequenceLen(sock.last_injected)) = kern.rcv
        BY <2>6, <2>10 DEF Connected
      <3>2. QED
        BY <2>4, <2>7, <2>10, <3>1
    <2>11. QED
      BY <2>6, <2>8, <2>9, <2>10
  <1>8. QED
    BY <1>4, <1>5, <1>6, <1>7 DEF IInv

-----------------------------------------------------------------------------
(* The theorems.                                                           *)

LEMMA NextKeepsIInv == IInv /\ [Next]_vars => IInv'
  <1> SUFFICES ASSUME IInv, [Next]_vars PROVE IInv'
    OBVIOUS
  <1>1. CASE Kernel
    BY <1>1, AppWritesStep, RetransmitsStep, StrayPacketStep DEF Kernel
  <1>2. CASE Calls
    BY <1>2, ListenStep, ConnectStep, DisconnectStep DEF Calls
  <1>3. CASE Events
    BY <1>3, OutboundEventStep, InboundEventStep DEF Events
  <1>4. CASE Sniffs
    BY <1>4, SniffOtherStep, SniffMoreStep, SniffMismatchStep, SniffLastStep DEF Sniffs
  <1>5. CASE SocketClose
    BY <1>5, SocketCloseStep
  <1>6. CASE UNCHANGED vars
    <2>1. UNCHANGED <<codeVars, out, kern, author>> /\ UNCHANGED config
      BY <1>6 DEF vars, codeVars
    <2>2. Wire' /\ KernOK(kern') /\ SameKern(kern, kern')
      BY <2>1 DEF IInv, Shapes, Wire, SameKern
    <2>3. QED
      BY <2>1, <2>2, KernelStepKeeps
  <1>7. QED
    BY <1>1, <1>2, <1>3, <1>4, <1>5, <1>6 DEF Next

LEMMA AlwaysIInv == Spec => []IInv
  <1>1. QED
    BY InitIInv, NextKeepsIInv, PTL DEF Spec

\* The socket under test is in one of the states of socket.h with numbers of
\* sequence space and a port, and there is an event in progress exactly while
\* do_outbound_script_packet() sniffs.
THEOREM PacketEventTypes == Spec => []TypeOK
  <1>1. IInv => TypeOK
    <2> SUFFICES ASSUME IInv PROVE TypeOK
      OBVIOUS
    <2>1. SockOK(sock) /\ Event /\ phase \in {"idle", "sniff", "failed", "closed"}
      BY DEF IInv, Shapes
    <2>2. phase = "sniff" => ev # NoEvent
      <3>1. ~IsPacket(NoEvent.script)
        <4>1. NoEvent.script = <<>> /\ DOMAIN <<>> = {}
          BY DEF NoEvent
        <4>2. QED
          BY <4>1 DEF IsPacket, PacketFields
      <3>2. QED
        BY <2>1, <3>1 DEF Event
    <2>3. QED
      BY <2>1, <2>2 DEF TypeOK, SockOK, Event
  <1>2. QED
    BY <1>1, AlwaysIInv, PTL

\* Whatever the ISNs and the lengths, what map_inbound_packet() makes of a packet
\* that the script means to be the next of the connection is the next for the
\* kernel: the numbers that find_connect_for_live_packet() and
\* do_outbound_script_packet() learnt on the way out lead back to its own.
THEOREM KernelAcceptsInjected == Spec => []KernelAccepts
  <1>1. IInv => KernelAccepts
    BY DEF IInv
  <1>2. QED
    BY <1>1, AlwaysIInv, PTL

\* sniff_outbound_live_packet() never joins packets of two connections, however
\* many get in between.
THEOREM JoinsOneFlow == Spec => []OneFlow
  <1>1. IInv => OneFlow
    BY DEF IInv
  <1>2. QED
    BY <1>1, AlwaysIInv, PTL

\* The RST of reset_connection() hits the sequence number that the kernel waits
\* for, or acknowledges its SYN, at whatever point of its first connection the
\* script ends.
THEOREM ResetIsObeyed == Spec => []ResetObeyed
  <1>1. IInv => ResetObeyed
    BY DEF IInv
  <1>2. QED
    BY <1>1, AlwaysIInv, PTL
=============================================================================
