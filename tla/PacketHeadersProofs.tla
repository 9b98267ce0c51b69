------------------------ MODULE PacketHeadersProofs ------------------------
(***************************************************************************)
(* Proofs about PacketHeaders, for any descriptions of packets, any number *)
(* of headers in front of them and any number of frames.                   *)
(***************************************************************************)
EXTENDS PacketHeaders, TLAPS, SequenceTheorems, FiniteSetTheorems,
        WellFoundedInduction

\* Time for each leaf of a proof, in seconds
USE SMTT(20), ZenonT(40)

-----------------------------------------------------------------------------
(* The packets that wait in the tun device.                                *)

IsList(s) == Len(s) \in Nat /\ DOMAIN s = 1 .. Len(s)

KernelFrames(frames) == {i \in DOMAIN frames : frames[i].src = "kernel"}
Waiting == Cardinality(KernelFrames(capture))

\* What netdev_receive_loop() has counted is what it has taken from the capture
Queues ==
    /\ IsList(capture)
    /\ tun \in Nat /\ num_packets \in Nat /\ passed \in 0 .. MaxFrames
    /\ num_packets + Waiting <= passed
    /\ onWire => tun = 0 /\ pc # "drain"
    /\ ~onWire => tun = Waiting + (IF pc = "returned" THEN 0 ELSE num_packets)

LEMMA FramesAreFinite ==
  ASSUME NEW s, IsList(s)
  PROVE  IsFiniteSet(KernelFrames(s)) /\ Cardinality(KernelFrames(s)) \in Nat
  <1>1. IsFiniteSet(1 .. Len(s))
    BY FS_Interval DEF IsList
  <1>2. KernelFrames(s) \in SUBSET (1 .. Len(s))
    BY DEF KernelFrames, IsList
  <1>3. IsFiniteSet(KernelFrames(s))
    BY <1>1, <1>2, FS_Subset
  <1>4. QED
    BY <1>3, FS_CardinalityType

\* A frame that arrives counts if it is the kernel's
LEMMA OneMoreFrame ==
  ASSUME NEW s, NEW f, IsList(s)
  PROVE  /\ IsList(Append(s, f))
         /\ Cardinality(KernelFrames(Append(s, f))) =
              Cardinality(KernelFrames(s)) + (IF f.src = "kernel" THEN 1 ELSE 0)
  <1>1. PICK n \in Nat : n = Len(s)
    BY DEF IsList
  <1>2. /\ Len(Append(s, f)) = n + 1 /\ DOMAIN Append(s, f) = 1 .. n + 1
        /\ \A i \in 1 .. n : Append(s, f)[i] = s[i]
        /\ Append(s, f)[n + 1] = f
    BY <1>1 DEF IsList
  <1>3. IsList(Append(s, f))
    BY <1>2 DEF IsList
  <1>4. n + 1 \notin KernelFrames(s)
    BY <1>1 DEF KernelFrames, IsList
  <1>5. KernelFrames(Append(s, f)) =
          IF f.src = "kernel" THEN KernelFrames(s) \cup {n + 1} ELSE KernelFrames(s)
    <2>1. \A i \in 1 .. n : i # n + 1
      OBVIOUS
    <2>2. DOMAIN s = 1 .. n
      BY <1>1 DEF IsList
    <2>3. 1 .. n + 1 = (1 .. n) \cup {n + 1}
      OBVIOUS
    <2>4. QED
      BY <1>2, <2>1, <2>2, <2>3, ZenonT(40) DEF KernelFrames
  <1>6. IsFiniteSet(KernelFrames(s)) /\ Cardinality(KernelFrames(s)) \in Nat
    BY FramesAreFinite
  <1>7. Cardinality(KernelFrames(s) \cup {n + 1}) = Cardinality(KernelFrames(s)) + 1
    BY <1>4, <1>6, FS_AddElement, ZenonT(40)
  <1>8. QED
    BY <1>3, <1>5, <1>6, <1>7

\* A frame that is read counts no longer
LEMMA OneFrameLess ==
  ASSUME NEW s, IsList(s), s # <<>>
  PROVE  /\ IsList(Tail(s))
         /\ Cardinality(KernelFrames(s)) =
              Cardinality(KernelFrames(Tail(s))) + (IF Head(s).src = "kernel" THEN 1 ELSE 0)
  <1>1. PICK n \in Nat : n = Len(s)
    BY DEF IsList
  <1>2. n > 0 /\ Head(s) = s[1]
    BY <1>1 DEF IsList
  <1>3. /\ Len(Tail(s)) = n - 1 /\ DOMAIN Tail(s) = 1 .. n - 1
        /\ \A i \in 1 .. n - 1 : Tail(s)[i] = s[i + 1]
    BY <1>1, <1>2 DEF IsList
  <1>4. IsList(Tail(s))
    <2>1. n - 1 \in Nat
      BY <1>2
    <2>2. QED
      BY <1>3, <2>1, ZenonT(40) DEF IsList
  <1> DEFINE Later == KernelFrames(s) \ {1}
             next == [i \in KernelFrames(Tail(s)) |-> i + 1]
  <1>5. Cardinality(Later) = Cardinality(KernelFrames(Tail(s)))
    <2>1. \A i \in KernelFrames(Tail(s)) : i \in Nat /\ i + 1 \in Later
      BY <1>1, <1>3 DEF KernelFrames, IsList
    <2>2. \A j \in Later : j - 1 \in KernelFrames(Tail(s)) /\ (j - 1) + 1 = j
      BY <1>1, <1>3 DEF KernelFrames, IsList
    <2>3. next \in Bijection(KernelFrames(Tail(s)), Later)
      <3>1. next \in [KernelFrames(Tail(s)) -> Later]
        BY <2>1
      <3>2. \A a, b \in KernelFrames(Tail(s)) : next[a] = next[b] => a = b
        BY <2>1
      <3>3. \A j \in Later : \E a \in KernelFrames(Tail(s)) : next[a] = j
        BY <2>2
      <3>4. QED
        BY <3>1, <3>2, <3>3 DEF Bijection, Injection, Surjection, IsInjective
    <2>4. QED
      BY <1>4, <2>3, FramesAreFinite, FS_Bijection DEF ExistsBijection
  <1>6. Cardinality(KernelFrames(s)) =
          IF 1 \in KernelFrames(s) THEN Cardinality(Later) + 1 ELSE Cardinality(Later)
    <2>1. /\ IsFiniteSet(KernelFrames(s)) /\ Cardinality(KernelFrames(s)) \in Nat
      BY FramesAreFinite
    <2>2. Cardinality(Later) = IF 1 \in KernelFrames(s) THEN Cardinality(KernelFrames(s)) - 1
                                                       ELSE Cardinality(KernelFrames(s))
      BY <2>1, FS_RemoveElement, ZenonT(40)
    <2>3. QED
      BY <2>1, <2>2
  <1>7. 1 \in KernelFrames(s) <=> Head(s).src = "kernel"
    BY <1>1, <1>2 DEF KernelFrames, IsList
  <1>8. QED
    BY <1>4, <1>5, <1>6, <1>7, FramesAreFinite

\* What the tool does itself leaves both queues alone
LEMMA QueuesKeep ==
  ASSUME Queues, UNCHANGED <<onWire, capture, tun, passed, num_packets>>,
         pc' # "returned" \/ onWire, pc # "returned", pc' = "drain" => ~onWire
  PROVE  Queues'
  BY DEF Queues, Waiting

LEMMA ConcludesKeeps ==
  ASSUME Queues, pc = "parsing", NEW r \in {"OK", "BAD", "UNKNOWN_L4"}, Concludes(r),
         UNCHANGED <<onWire, script, device>>
  PROVE  Queues'
  <1>1. /\ UNCHANGED <<onWire, capture, tun, passed, num_packets>>
        /\ pc' = "returned" => onWire
        /\ pc' = "drain" => ~onWire
    BY DEF Concludes, device
  <1>2. QED
    BY <1>1, QueuesKeep

LEMMA FrameArrivesKeeps ==
  ASSUME Queues, NEW f, FrameArrives(f), Listening
  PROVE  Queues'
  <1>1. /\ IsList(capture')
        /\ Waiting' = Waiting + (IF f.src = "kernel" THEN 1 ELSE 0)
    BY OneMoreFrame DEF Queues, FrameArrives, Waiting
  <1>2. Waiting \in Nat
    BY FramesAreFinite DEF Queues, Waiting
  <1>3. /\ passed' = passed + 1 /\ passed' \in 0 .. MaxFrames
        /\ tun' = IF f.src = "kernel" /\ ~onWire THEN tun + 1 ELSE tun
        /\ UNCHANGED <<pc, onWire, num_packets>>
    BY HeadersAssumption DEF Queues, FrameArrives, Listening, parser
  <1>4. pc # "returned"
    BY DEF Listening
  <1> HIDE DEF Waiting
  <1>5. QED
    BY <1>1, <1>2, <1>3, <1>4 DEF Queues

LEMMA PacketSocketReceiveKeeps ==
  ASSUME Queues, PacketSocketReceive
  PROVE  Queues'
  <1>1. /\ IsList(capture')
        /\ Waiting = Waiting' + (IF Head(capture).src = "kernel" THEN 1 ELSE 0)
    BY OneFrameLess DEF Queues, PacketSocketReceive, Waiting
  <1>2. Waiting' \in Nat
    BY <1>1, FramesAreFinite DEF Waiting
  <1>3. /\ num_packets' = num_packets + (IF Head(capture).src = "kernel" THEN 1 ELSE 0)
        /\ pc = "receiving" /\ pc' \in {"receiving", "parsing"}
        /\ UNCHANGED <<onWire, tun, passed>>
    BY DEF Queues, PacketSocketReceive, Ours, parser
  <1>4. num_packets' \in Nat /\ num_packets' + Waiting' = num_packets + Waiting
    <2> HIDE DEF Waiting
    <2>1. QED
      BY <1>1, <1>2, <1>3 DEF Queues
  <1> HIDE DEF Waiting
  <1>5. pc' # "drain" /\ pc # "returned" /\ pc' # "returned"
    BY <1>3
  <1>6. ~onWire' => tun' = Waiting' + num_packets'
    <2>1. ~onWire => tun = Waiting + num_packets
      BY <1>3 DEF Queues
    <2>2. tun' = tun /\ onWire' = onWire
      BY <1>3
    <2>3. Waiting + num_packets = Waiting' + num_packets'
      BY <1>1, <1>2, <1>4 DEF Queues
    <2>4. QED
      BY <2>1, <2>2, <2>3, ZenonT(40)
  <1>7. onWire' => tun' = 0
    BY <1>3 DEF Queues
  <1>8. QED
    BY <1>1, <1>2, <1>3, <1>4, <1>5, <1>6, <1>7 DEF Queues

LEMMA ReadQueueKeeps ==
  ASSUME Queues, ReadQueue
  PROVE  Queues'
  <1>1. Waiting \in Nat /\ Waiting' = Waiting
    BY FramesAreFinite DEF Queues, Waiting, ReadQueue
  <1>2. /\ ~onWire /\ tun' = tun - num_packets /\ pc = "drain" /\ pc' = "returned"
        /\ UNCHANGED <<onWire, capture, passed, num_packets>>
    BY DEF Queues, ReadQueue, parser
  <1> HIDE DEF Waiting
  <1>3. QED
    BY <1>1, <1>2 DEF Queues

LEMMA NextKeepsQueues == Queues /\ [Next]_vars => Queues'
  <1> SUFFICES ASSUME Queues, [Next]_vars PROVE Queues'
    OBVIOUS
  <1>1. CASE Build \/ Inject \/ Receive
    <2>1. /\ UNCHANGED <<onWire, capture, tun, passed, num_packets>>
          /\ pc \in {"script", "prefix", "built"} /\ pc' \notin {"drain", "returned"}
      <3>1. CASE Build
        BY <3>1 DEF Build, Begin, NewPacket, NewTcpPacket, NewUdpPacket, NewIcmpPacket,
           Refused, Built, Prefix, Ipv4HeaderAppend, Ipv6HeaderAppend, GreHeaderAppend,
           MplsHeaderAppend, HeaderAppend, Encapsulate, device, parser
      <3>2. CASE Inject \/ Receive
        BY <3>2 DEF Inject, Receive, device, parser
      <3>3. QED
        BY <1>1, <3>1, <3>2
    <2>2. QED
      BY <2>1, QueuesKeep
  <1>2. CASE KernelSends \/ OthersSend
    BY <1>2, FrameArrivesKeeps DEF KernelSends, OthersSend
  <1>3. CASE PacketSocketReceive
    BY <1>3, PacketSocketReceiveKeeps
  <1>4. CASE ReadQueue
    BY <1>4, ReadQueueKeeps
  <1>5. CASE ParsePacket
    <2>1. /\ pc = "parsing" /\ UNCHANGED <<onWire, script, device>>
          /\ \/ \E r \in {"OK", "BAD", "UNKNOWN_L4"} : Concludes(r)
             \/ UNCHANGED <<pc, num_packets>>
      BY <1>5 DEF ParsePacket, ParseLayer2, ParseLayer3, ParseLayer3ByProto, ParseLayer4,
         ParseIpv4, ParseIpv6, ParseGre, ParseMpls, ParseTcp, ParseUdp, ParseIcmp, ParseDone,
         Parsing, GoesOn, Advances, Ends
    <2>2. QED
      <3>1. CASE \E r \in {"OK", "BAD", "UNKNOWN_L4"} : Concludes(r)
        BY <2>1, <3>1, ConcludesKeeps
      <3>2. CASE UNCHANGED <<pc, num_packets>>
        BY <2>1, <3>2, QueuesKeep DEF device
      <3>3. QED
        BY <2>1, <3>1, <3>2
  <1>6. CASE UNCHANGED vars
    BY <1>6 DEF vars, device, parser, Queues, Waiting
  <1>7. QED
    BY <1>1, <1>2, <1>3, <1>4, <1>5, <1>6 DEF Next

LEMMA SpecQueues == Spec => []Queues
  <1>1. Init => Queues
    <2> SUFFICES ASSUME Init PROVE Queues
      OBVIOUS
    <2>1. KernelFrames(capture) = {}
      BY DEF Init, KernelFrames
    <2>2. Waiting = 0
      BY <2>1, FS_EmptySet DEF Waiting
    <2>3. IsList(capture)
      BY DEF Init, IsList
    <2> HIDE DEF Waiting
    <2>4. QED
      BY <2>2, <2>3, HeadersAssumption DEF Init, Queues
  <1>2. QED
    BY <1>1, NextKeepsQueues, PTL DEF Spec

-----------------------------------------------------------------------------
\* Once a receive is over, as many packets wait in the tun device as frames
\* of the kernel wait to be sniffed: local_netdev_read_queue() takes as many
\* as netdev_receive_loop() has counted, those that were skipped included.
THEOREM TunIsInStep == Spec => []TunFollowsCapture
  <1>1. Queues => TunFollowsCapture
    <2> SUFFICES ASSUME Queues, pc = "returned", ~onWire
                 PROVE  tun = Cardinality(KernelFrames(capture))
      BY DEF TunFollowsCapture, KernelFrames
    <2>1. Waiting \in Nat
      BY FramesAreFinite DEF Queues, Waiting
    <2>2. tun = Waiting + 0
      BY DEF Queues
    <2>3. QED
      BY <2>1, <2>2 DEF Waiting
  <1>2. QED
    BY SpecQueues, <1>1, PTL

-----------------------------------------------------------------------------
(* Induction over a set of numbers.  The library states induction for an   *)
(* operator; that the order of the numbers is well-founded gives it for a  *)
(* set, which the provers can instantiate.                                 *)

LEMMA LeastNumber ==
  ASSUME NEW S \in SUBSET Nat, S # {}
  PROVE  \E m \in S : \A k \in S : m <= k
  <1>1. \E m \in S : \A k \in S : <<k, m>> \notin OpToRel(<, Nat)
    BY NatLessThanWellFounded, WFMin, ZenonT(40)
  <1>2. PICK m \in S : \A k \in S : <<k, m>> \notin OpToRel(<, Nat)
    BY <1>1
  <1>3. \A k \in S : ~(k < m)
    BY <1>2 DEF OpToRel
  <1>4. QED
    BY <1>3

LEMMA SetInduction ==
  ASSUME NEW n \in Nat, NEW S \in SUBSET Nat, 0 \in S,
         \A k \in 0 .. n : k \in S /\ k + 1 <= n => k + 1 \in S
  PROVE  0 .. n \subseteq S
  <1> SUFFICES ASSUME (0 .. n) \ S # {} PROVE FALSE
    OBVIOUS
  <1>1. PICK m \in (0 .. n) \ S : \A k \in (0 .. n) \ S : m <= k
    <2>1. (0 .. n) \ S \in SUBSET Nat
      OBVIOUS
    <2>2. QED
      BY <2>1, LeastNumber
  <1>2. m - 1 \in 0 .. n /\ m - 1 \in S
    BY <1>1
  <1>3. QED
    BY <1>1, <1>2

-----------------------------------------------------------------------------
(* Offsets and lengths, which are sums over the headers.                   *)

SumsBefore(s, i, g) ==
    /\ i \in Nat \ {0} /\ g[1] = 0
    /\ \A j \in 2 .. i : g[j] = g[j - 1] + s[j - 1].bytes

LEMMA OffsetIs ==
  ASSUME NEW s, NEW i, NEW g, SumsBefore(s, i, g)
  PROVE  Offset(s, i) = g[i]
  <1> USE DEF SumsBefore
  <1> DEFINE Rec(f) == f = [j \in 1 .. i |-> IF j = 1 THEN 0 ELSE f[j - 1] + s[j - 1].bytes]
             Sums0 == [j \in 1 .. i |-> g[j]]
             off == CHOOSE f : Rec(f)
  <1>1. Offset(s, i) = off[i]
    BY DEF Offset
  <1>2. Rec(Sums0)
    <2>1. \A j \in 1 .. i : g[j] = IF j = 1 THEN 0 ELSE Sums0[j - 1] + s[j - 1].bytes
      OBVIOUS
    <2>2. QED
      BY <2>1
  <1>3. Rec(off)
    <2> HIDE DEF Rec, Sums0
    <2>1. QED
      BY <1>2
  <1>4. \A j \in 1 .. i : off[j] = IF j = 1 THEN 0 ELSE off[j - 1] + s[j - 1].bytes
    <2>1. \A f : Rec(f) => \A j \in 1 .. i : f[j] = IF j = 1 THEN 0 ELSE f[j - 1] + s[j - 1].bytes
      OBVIOUS
    <2> HIDE DEF Rec, off
    <2>2. QED
      BY <1>3, <2>1
  <1> HIDE DEF off, Rec, Sums0
  <1> DEFINE S == {m \in Nat : m \in 1 .. i => off[m] = g[m]}
  <1>5. 0 \in S /\ S \in SUBSET Nat
    OBVIOUS
  <1>6. ASSUME NEW k \in 0 .. i, k \in S, k + 1 <= i
        PROVE  k + 1 \in S
    <2>1. CASE k = 0
      BY <1>4, <2>1
    <2>2. CASE k # 0
      <3>1. off[k + 1] = off[k] + s[k].bytes /\ g[k + 1] = g[k] + s[k].bytes
        <4>1. k + 1 \in 2 .. i /\ k + 1 \in 1 .. i /\ k + 1 # 1 /\ (k + 1) - 1 = k
          BY <1>6, <2>2
        <4>2. off[k + 1] = off[(k + 1) - 1] + s[(k + 1) - 1].bytes
          BY <1>4, <4>1, ZenonT(40)
        <4>3. g[k + 1] = g[(k + 1) - 1] + s[(k + 1) - 1].bytes
          BY <4>1, ZenonT(40)
        <4>4. QED
          BY <4>1, <4>2, <4>3
      <3>2. off[k] = g[k]
        BY <1>6, <2>2
      <3>3. QED
        BY <3>1, <3>2
    <2>3. QED
      BY <2>1, <2>2
  <1>7. 0 .. i \subseteq S
    <2> HIDE DEF S
    <2>1. QED
      BY <1>5, <1>6, SetInduction
  <1>8. QED
    BY <1>1, <1>7

SumsBehind(s, n, i, g) ==
    /\ i \in Nat /\ i <= Len(s) /\ Len(s) \in Nat
    /\ g[Len(s)] = s[Len(s)].bytes + n
    /\ \A j \in i .. Len(s) - 1 : g[j] = s[j].bytes + g[j + 1]

LEMMA TotalIs ==
  ASSUME NEW s, NEW n, NEW i, NEW g, SumsBehind(s, n, i, g)
  PROVE  Total(s, n, i) = g[i]
  <1> USE DEF SumsBehind
  <1>0. PICK len \in Nat : len = Len(s)
    OBVIOUS
  <1> DEFINE Rec(f) == f = [j \in i .. len |-> s[j].bytes + (IF j = len THEN n ELSE f[j + 1])]
             Sums0 == [j \in i .. len |-> g[j]]
             tot == CHOOSE f : Rec(f)
  <1>1. Total(s, n, i) = tot[i]
    BY <1>0 DEF Total
  <1>2. Rec(Sums0)
    <2>1. \A j \in i .. len : g[j] = s[j].bytes + (IF j = len THEN n ELSE Sums0[j + 1])
      <3> SUFFICES ASSUME NEW j \in i .. len
                   PROVE  g[j] = s[j].bytes + (IF j = len THEN n ELSE Sums0[j + 1])
        OBVIOUS
      <3>1. CASE j = len
        BY <1>0, <3>1
      <3>2. CASE j # len
        <4>1. j \in i .. len - 1 /\ j + 1 \in i .. len
          BY <3>2
        <4>2. g[j] = s[j].bytes + g[j + 1]
          BY <1>0, <4>1
        <4>3. QED
          BY <3>2, <4>1, <4>2
      <3>3. QED
        BY <3>1, <3>2
    <2>2. QED
      BY <2>1
  <1>3. Rec(tot)
    <2> HIDE DEF Rec, Sums0
    <2>1. QED
      BY <1>2
  <1>4. \A j \in i .. len : tot[j] = s[j].bytes + (IF j = len THEN n ELSE tot[j + 1])
    <2>1. \A f : Rec(f) => \A j \in i .. len : f[j] = s[j].bytes + (IF j = len THEN n ELSE f[j + 1])
      OBVIOUS
    <2> HIDE DEF Rec, tot
    <2>2. QED
      BY <1>3, <2>1
  <1> HIDE DEF tot, Rec, Sums0
  <1> DEFINE S == {m \in Nat : m <= len - i => tot[len - m] = g[len - m]}
  <1>5. 0 \in S /\ S \in SUBSET Nat
    BY <1>0, <1>4
  <1>6. ASSUME NEW k \in 0 .. len - i, k \in S, k + 1 <= len - i
        PROVE  k + 1 \in S
    <2>1. PICK j \in i .. len - 1 : j = len - (k + 1) /\ j + 1 = len - k
      BY <1>6
    <2>2. tot[j + 1] = g[j + 1]
      BY <1>6, <2>1
    <2>3. tot[j] = s[j].bytes + tot[j + 1]
      BY <1>4, <2>1
    <2>4. g[j] = s[j].bytes + g[j + 1]
      BY <1>0, <2>1
    <2>5. QED
      BY <1>6, <2>1, <2>2, <2>3, <2>4
  <1>7. 0 .. len - i \subseteq S
    <2>1. len - i \in Nat
      BY <1>0
    <2> HIDE DEF S
    <2>2. QED
      BY <1>5, <1>6, <2>1, SetInduction
  <1>8. tot[i] = g[i]
    <2>1. len - i \in Nat /\ len - (len - i) = i
      BY <1>0
    <2>2. len - i \in 0 .. len - i
      BY <2>1
    <2>3. len - i \in S
      <3> HIDE DEF S
      <3>1. QED
        BY <1>7, <2>2, ZenonT(40)
    <2>4. tot[len - (len - i)] = g[len - (len - i)]
      BY <2>1, <2>3
    <2>5. QED
      BY <2>1, <2>4, ZenonT(40)
  <1>9. QED
    BY <1>1, <1>8

AllFinished(p, g) ==
    /\ Len(p.headers) \in Nat \ {0}
    /\ g[Len(p.headers)] = [header |-> p.headers[Len(p.headers)], field |-> p.bits[Len(p.headers)]]
    /\ \A i \in 1 .. Len(p.headers) - 1 :
          g[i] = Finish(p.headers[i], p.bits[i], g[i + 1].header)

LEMMA FinishedIs ==
  ASSUME NEW p, NEW g, AllFinished(p, g)
  PROVE  FinishHeaders(p) =
           [p EXCEPT !.headers = [i \in 1 .. Len(p.headers) |-> g[i].header],
                     !.bits = [i \in 1 .. Len(p.headers) |-> g[i].field]]
  <1> USE DEF AllFinished
  <1>0. PICK len \in Nat : len = Len(p.headers) /\ len > 0
    OBVIOUS
  <1> DEFINE Rec(f) == f = [i \in 1 .. len |->
                              IF i = len THEN [header |-> p.headers[len], field |-> p.bits[len]]
                              ELSE Finish(p.headers[i], p.bits[i], f[i + 1].header)]
             Last == [i \in 1 .. len |-> g[i]]
             fin == CHOOSE f : Rec(f)
  <1>1. FinishHeaders(p) = [p EXCEPT !.headers = [i \in 1 .. len |-> fin[i].header],
                                     !.bits = [i \in 1 .. len |-> fin[i].field]]
    BY <1>0 DEF FinishHeaders
  <1>2. Rec(Last)
    <2>1. \A i \in 1 .. len :
             g[i] = IF i = len THEN [header |-> p.headers[len], field |-> p.bits[len]]
                    ELSE Finish(p.headers[i], p.bits[i], Last[i + 1].header)
      <3> SUFFICES ASSUME NEW i \in 1 .. len, i # len
                   PROVE  g[i] = Finish(p.headers[i], p.bits[i], Last[i + 1].header)
        BY <1>0
      <3>1. i \in 1 .. len - 1 /\ i + 1 \in 1 .. len
        OBVIOUS
      <3>2. g[i] = Finish(p.headers[i], p.bits[i], g[i + 1].header)
        BY <1>0, <3>1
      <3>3. Last[i + 1] = g[i + 1]
        BY <3>1
      <3> HIDE DEF Last
      <3>4. QED
        BY <3>2, <3>3, ZenonT(40)
    <2>2. QED
      BY <2>1, ZenonT(40)
  <1>3. Rec(fin)
    <2> HIDE DEF Rec, Last
    <2>1. QED
      BY <1>2
  <1>4. \A i \in 1 .. len :
           fin[i] = IF i = len THEN [header |-> p.headers[len], field |-> p.bits[len]]
                    ELSE Finish(p.headers[i], p.bits[i], fin[i + 1].header)
    <2>1. \A f : Rec(f) => \A i \in 1 .. len :
             f[i] = IF i = len THEN [header |-> p.headers[len], field |-> p.bits[len]]
                    ELSE Finish(p.headers[i], p.bits[i], f[i + 1].header)
      BY ZenonT(40)
    <2> HIDE DEF Rec, fin
    <2>2. QED
      BY <1>3, <2>1, ZenonT(40)
  <1> HIDE DEF fin, Rec, Last
  <1> DEFINE S == {m \in Nat : m < len => fin[len - m] = g[len - m]}
  <1>5. 0 \in S /\ S \in SUBSET Nat
    <2>1. fin[len] = g[len]
      BY <1>0, <1>4
    <2>2. QED
      BY <2>1
  <1>6. ASSUME NEW k \in 0 .. len - 1, k \in S, k + 1 <= len - 1
        PROVE  k + 1 \in S
    <2>1. PICK i \in 1 .. len - 1 : i = len - (k + 1) /\ i + 1 = len - k
      BY <1>6
    <2>2. fin[i + 1] = g[i + 1]
      BY <1>6, <2>1
    <2>3. fin[i] = Finish(p.headers[i], p.bits[i], fin[i + 1].header)
      BY <1>4, <2>1
    <2>4. g[i] = Finish(p.headers[i], p.bits[i], g[i + 1].header)
      BY <1>0, <2>1
    <2>5. fin[i] = g[i]
      BY <2>2, <2>3, <2>4, ZenonT(40)
    <2>6. QED
      BY <1>6, <2>1, <2>5
  <1>7. 0 .. len - 1 \subseteq S
    <2>1. len - 1 \in Nat
      BY <1>0
    <2> HIDE DEF S
    <2>2. QED
      BY <1>5, <1>6, <2>1, SetInduction
  <1>8. \A i \in 1 .. len : fin[i] = g[i]
    <2> SUFFICES ASSUME NEW i \in 1 .. len PROVE fin[i] = g[i]
      OBVIOUS
    <2>1. len - i \in 0 .. len - 1 /\ len - (len - i) = i
      BY <1>0
    <2>2. len - i \in S
      <3> HIDE DEF S
      <3>1. QED
        BY <1>7, <2>1, ZenonT(40)
    <2>3. fin[len - (len - i)] = g[len - (len - i)]
      BY <2>1, <2>2
    <2>4. QED
      BY <2>1, <2>3, ZenonT(40)
  <1>9. /\ [i \in 1 .. len |-> fin[i].header] = [i \in 1 .. len |-> g[i].header]
        /\ [i \in 1 .. len |-> fin[i].field] = [i \in 1 .. len |-> g[i].field]
    BY <1>8
  <1>10. QED
    BY <1>0, <1>1, <1>9, ZenonT(40)

-----------------------------------------------------------------------------
(* The table of a packet that is built.                                    *)

HeaderTypes == IpTypes \cup L4Types \cup {"GRE", "MPLS"}
Layers == [type : HeaderTypes, bytes : Nat]

\* The rows stand one behind the other, and each reaches to the end
Laid(h, s, end) ==
    /\ h = [i \in 1 .. Len(s) |-> [type |-> s[i].type, at |-> h[i].at, bytes |-> s[i].bytes,
                                   total |-> end - h[i].at]]
    /\ \A i \in 1 .. Len(s) : h[i].at \in Nat
    /\ h[1].at = 0
    /\ \A i \in 2 .. Len(s) : h[i].at = h[i - 1].at + s[i - 1].bytes

LEMMA LaidIsTable ==
  ASSUME NEW s \in Seq(Layers), s # <<>>, NEW n \in Int, NEW h, NEW end \in Int,
         Laid(h, s, end), h[Len(s)].at + s[Len(s)].bytes + n = end
  PROVE  /\ h = Table(s, n, 0)
         /\ \A i \in 1 .. Len(s) : /\ Offset(s, i) = h[i].at
                                   /\ Total(s, n, i) = end - h[i].at
  <1>0. PICK len \in Nat \ {0} : len = Len(s) /\ DOMAIN s = 1 .. len
    BY EmptySeq, LenProperties
  <1>1. \A i \in 1 .. len : s[i].bytes \in Nat /\ h[i].at \in Nat
    <2>1. \A i \in 1 .. len : s[i] \in Layers
      BY <1>0, ElementOfSeq
    <2>2. QED
      BY <1>0, <2>1 DEF Laid, Layers
  <1>2. ASSUME NEW i \in 1 .. len
        PROVE  Offset(s, i) = h[i].at
    <2> DEFINE g == [j \in 1 .. len |-> h[j].at]
    <2>1. g[1] = 0 /\ g[i] = h[i].at
      BY <1>0 DEF Laid
    <2>2. \A j \in 2 .. i : g[j] = g[j - 1] + s[j - 1].bytes
      BY <1>0 DEF Laid
    <2> HIDE DEF g
    <2>3. SumsBefore(s, i, g)
      BY <2>1, <2>2 DEF SumsBefore
    <2>4. Offset(s, i) = g[i]
      BY <2>3, OffsetIs, ZenonT(40)
    <2>5. QED
      BY <2>1, <2>4
  <1>3. ASSUME NEW i \in 1 .. len
        PROVE  Total(s, n, i) = end - h[i].at
    <2> DEFINE g == [j \in 1 .. len |-> end - h[j].at]
    <2>1. g[len] = s[len].bytes + n /\ g[i] = end - h[i].at
      BY <1>0, <1>1
    <2>2. \A j \in i .. len - 1 : g[j] = s[j].bytes + g[j + 1]
      <3> SUFFICES ASSUME NEW j \in i .. len - 1 PROVE g[j] = s[j].bytes + g[j + 1]
        OBVIOUS
      <3>1. j + 1 \in 2 .. len /\ j \in 1 .. len /\ j + 1 \in 1 .. len /\ (j + 1) - 1 = j
        OBVIOUS
      <3>2. h[j + 1].at = h[(j + 1) - 1].at + s[(j + 1) - 1].bytes
        BY <1>0, <3>1 DEF Laid
      <3>3. h[j + 1].at = h[j].at + s[j].bytes
        BY <3>1, <3>2
      <3>4. PICK x \in Nat, y \in Nat : x = h[j].at /\ y = s[j].bytes
        BY <1>1, <3>1
      <3>5. g[j] = end - x /\ g[j + 1] = end - (x + y)
        BY <3>1, <3>3, <3>4
      <3>6. end - x = y + (end - (x + y))
        BY <3>4, end \in Int
      <3>7. QED
        BY <3>4, <3>5, <3>6
    <2> HIDE DEF g
    <2>3. SumsBehind(s, n, i, g)
      BY <1>0, <2>1, <2>2 DEF SumsBehind
    <2>4. Total(s, n, i) = g[i]
      BY <2>3, TotalIs, ZenonT(40)
    <2>5. QED
      BY <2>1, <2>4
  <1>4. Table(s, n, 0) = [i \in 1 .. len |-> [type |-> s[i].type, at |-> 0 + Offset(s, i),
                                              bytes |-> s[i].bytes, total |-> Total(s, n, i)]]
    BY <1>0 DEF Table
  <1>5. h = [i \in 1 .. len |-> [type |-> s[i].type, at |-> h[i].at, bytes |-> s[i].bytes,
                                total |-> end - h[i].at]]
    BY <1>0 DEF Laid
  <1>6. [i \in 1 .. len |-> [type |-> s[i].type, at |-> h[i].at, bytes |-> s[i].bytes,
                            total |-> end - h[i].at]]
          = [i \in 1 .. len |-> [type |-> s[i].type, at |-> 0 + Offset(s, i),
                                bytes |-> s[i].bytes, total |-> Total(s, n, i)]]
    BY <1>1, <1>2, <1>3
  <1>7. QED
    BY <1>0, <1>2, <1>3, <1>4, <1>5, <1>6, ZenonT(40)

-----------------------------------------------------------------------------
(* What a header learns from the one inside it.                            *)

AField(t, n, tot, proto, sum) ==
    [type |-> t, bytes |-> n, tot |-> tot, proto |-> proto, sum |-> sum, flag |-> "ok"]

\* The field of a header that is reach bytes from the end, before inside
Learned(t, n, reach, inside) ==
    AField(t, n,
           CASE t \in {"IPV4", "UDP"} -> reach [] t = "IPV6" -> reach - 40 [] OTHER -> 0,
           IF t \in IpTypes \cup {"GRE"} THEN inside ELSE None,
           CASE t = "IPV4" -> <<reach, inside>> [] t \in L4Types -> <<reach, t>>
             [] OTHER -> NoSum)

\* A header before it is finished
Unfinished(f, t, n) ==
    /\ f = AField(t, n, f.tot, f.proto, NoSum)
    /\ t \notin IpTypes => f = Fields(t, n)

LEMMA Ipv4Learns ==
  \A n, reach, inside :
     Learned("IPV4", n, reach, inside) = AField("IPV4", n, reach, inside, <<reach, inside>>)
  BY DEF Learned, IpTypes, L4Types

LEMMA Ipv6Learns ==
  \A n, reach, inside :
     Learned("IPV6", n, reach, inside) = AField("IPV6", n, reach - 40, inside, NoSum)
  BY DEF Learned, IpTypes, L4Types

LEMMA GreLearns ==
  \A n, reach, inside : Learned("GRE", n, reach, inside) = AField("GRE", n, 0, inside, NoSum)
  BY DEF Learned, IpTypes, L4Types

LEMMA MplsLearns ==
  \A n, reach, inside : Learned("MPLS", n, reach, inside) = AField("MPLS", n, 0, None, NoSum)
  BY DEF Learned, IpTypes, L4Types

LEMMA TransportLearns ==
  ASSUME NEW t \in L4Types, NEW n, NEW reach, NEW inside
  PROVE  Learned(t, n, reach, inside) =
           AField(t, n, IF t = "UDP" THEN reach ELSE 0, None, <<reach, t>>)
  BY DEF Learned, IpTypes, L4Types

LEMMA FieldsAre == \A t, n : Fields(t, n) = AField(t, n, 0, None, NoSum)
  BY DEF Fields, AField

LEMMA EncodingIs ==
  ASSUME NEW s, NEW n, NEW i \in DOMAIN s
  PROVE  Encoding(s, n)[i] = Learned(s[i].type, s[i].bytes, Total(s, n, i),
                                     IF i = Len(s) THEN None ELSE s[i + 1].type)
  BY DEF Encoding, Learned, AField

LEMMA SmallNumbers == \A x \in Nat : x < U16 => x % U16 = x
  BY DEF U16

Row(t, a, n, total) == [type |-> t, at |-> a, bytes |-> n, total |-> total]

\* A header of type t and n bytes that reaches reach bytes to the end, in
\* front of the header next
InFront(t, n, f, next, reach, inside) ==
    /\ t \in IpTypes \cup {"GRE", "MPLS"} /\ n \in Nat /\ Unfinished(f, t, n)
    /\ t \in IpTypes => n = HeaderBytes[t]
    /\ next.total \in Nat /\ reach \in Nat /\ n + next.total = reach /\ reach < U16
    /\ next.type = inside /\ Follows(t, inside)

\* What ..._header_finish() fills in
LEMMA FinishLearns ==
  ASSUME NEW t, NEW n, NEW a, NEW total, NEW f, NEW next, NEW reach, NEW inside,
         InFront(t, n, f, next, reach, inside)
  PROVE  Finish(Row(t, a, n, total), f, next) =
           [header |-> Row(t, a, n, reach), field |-> Learned(t, n, reach, inside)]
  <1>0. PICK rest \in Nat : rest = next.total /\ n + rest = reach
    BY DEF InFront
  <1>a. /\ t \in IpTypes \cup {"GRE", "MPLS"} /\ n \in Nat /\ Unfinished(f, t, n)
        /\ t \in IpTypes => n = HeaderBytes[t]
        /\ reach \in Nat /\ reach < U16
        /\ next.type = inside /\ Follows(t, inside)
    BY DEF InFront
  <1> USE <1>0, <1>a
  <1> DEFINE h == Row(t, a, n, total)
  <1>1. h.type = t /\ h.bytes = n
    BY DEF Row
  <1>2. reach % U16 = reach /\ rest % U16 = rest
    <2>1. U16 \in Nat
      BY DEF U16
    <2>2. rest < U16
      BY <2>1
    <2>3. QED
      BY <2>2, SmallNumbers
  <1>3. [h EXCEPT !.total = reach] = Row(t, a, n, reach)
    BY DEF Row
  <1> HIDE DEF h
  <1>4. CASE t = "IPV4"
    <2>1. HeaderBytes["IPV4"] = 20 /\ n = 20
      BY <1>4 DEF HeaderBytes, IpTypes, L4Types
    <2>2. IpProto(inside) = inside
      BY <1>4 DEF Follows, IpTypes, IpProto
    <2>3. Finish(h, f, next) = FinishIpv4(h, f, next)
      BY <1>1, <1>4 DEF Finish
    <2>4. FinishIpv4(h, f, next) =
            [header |-> [h EXCEPT !.total = reach],
             field |-> [f EXCEPT !.tot = reach, !.proto = inside, !.sum = <<reach, inside>>]]
      BY <1>2, <2>1, <2>2 DEF FinishIpv4
    <2>5. [f EXCEPT !.tot = reach, !.proto = inside, !.sum = <<reach, inside>>]
            = AField(t, n, reach, inside, <<reach, inside>>)
      <3> USE DEF AField
      <3>1. PICK tot, proto : f = AField(t, n, tot, proto, NoSum)
        BY DEF Unfinished
      <3>2. PICK g1 : g1 = [f EXCEPT !.tot = reach]
        OBVIOUS
      <3>3. g1 = AField(t, n, reach, proto, NoSum)
        BY <3>1, <3>2
      <3>4. PICK g2 : g2 = [g1 EXCEPT !.proto = inside]
        OBVIOUS
      <3>5. g2 = AField(t, n, reach, inside, NoSum)
        BY <3>3, <3>4
      <3>6. [g2 EXCEPT !.sum = <<reach, inside>>] = AField(t, n, reach, inside, <<reach, inside>>)
        BY <3>5
      <3>7. [f EXCEPT !.tot = reach, !.proto = inside, !.sum = <<reach, inside>>]
              = [[[f EXCEPT !.tot = reach] EXCEPT !.proto = inside] EXCEPT !.sum = <<reach, inside>>]
        OBVIOUS
      <3>8. QED
        BY <3>2, <3>4, <3>6, <3>7
    <2>6. Learned(t, n, reach, inside) = AField(t, n, reach, inside, <<reach, inside>>)
      BY <1>4, Ipv4Learns
    <2>7. QED
      BY <1>3, <2>3, <2>4, <2>5, <2>6, ZenonT(40) DEF h
  <1>5. CASE t = "IPV6"
    <2>1. HeaderBytes["IPV6"] = 40 /\ n = 40
      BY <1>5 DEF HeaderBytes, IpTypes, L4Types
    <2>2. IpProto(inside) = inside
      BY <1>5 DEF Follows, IpTypes, IpProto
    <2>3. Finish(h, f, next) = FinishIpv6(h, f, next)
      BY <1>1, <1>5 DEF Finish
    <2>4. FinishIpv6(h, f, next) =
            [header |-> [h EXCEPT !.total = reach],
             field |-> [f EXCEPT !.tot = reach - 40, !.proto = inside]]
      <3>1. 40 + rest = reach /\ rest = reach - 40
        BY <2>1
      <3>2. QED
        BY <1>2, <2>1, <2>2, <3>1 DEF FinishIpv6
    <2>5. [f EXCEPT !.tot = reach - 40, !.proto = inside] = AField(t, n, reach - 40, inside, NoSum)
      <3> USE DEF AField
      <3>1. PICK tot, proto : f = AField(t, n, tot, proto, NoSum)
        BY DEF Unfinished
      <3>2. PICK g1 : g1 = [f EXCEPT !.tot = reach - 40]
        OBVIOUS
      <3>3. g1 = AField(t, n, reach - 40, proto, NoSum)
        BY <3>1, <3>2
      <3>4. [g1 EXCEPT !.proto = inside] = AField(t, n, reach - 40, inside, NoSum)
        BY <3>3
      <3>5. [f EXCEPT !.tot = reach - 40, !.proto = inside]
              = [[f EXCEPT !.tot = reach - 40] EXCEPT !.proto = inside]
        OBVIOUS
      <3>6. QED
        BY <3>2, <3>4, <3>5
    <2>6. Learned(t, n, reach, inside) = AField(t, n, reach - 40, inside, NoSum)
      BY <1>5, Ipv6Learns
    <2>7. QED
      BY <1>3, <2>3, <2>4, <2>5, <2>6, ZenonT(40) DEF h
  <1>6. CASE t = "GRE"
    <2>1. f = Fields(t, n)
      BY <1>6 DEF Unfinished, IpTypes
    <2>2. EthProto(inside) = inside
      BY <1>6 DEF Follows, IpTypes, EthProto
    <2>3. Finish(h, f, next) = FinishGre(h, f, next)
      BY <1>1, <1>6 DEF Finish
    <2>4. FinishGre(h, f, next) =
            [header |-> [h EXCEPT !.total = reach], field |-> [f EXCEPT !.proto = inside]]
      BY <2>1, <2>2 DEF FinishGre, Fields
    <2>5. [f EXCEPT !.proto = inside] = AField(t, n, 0, inside, NoSum)
      BY <2>1 DEF Fields, AField
    <2>6. Learned(t, n, reach, inside) = AField(t, n, 0, inside, NoSum)
      BY <1>6, GreLearns
    <2>7. QED
      BY <1>3, <2>3, <2>4, <2>5, <2>6, ZenonT(40) DEF h
  <1>7. CASE t = "MPLS"
    <2>1. f = Fields(t, n)
      BY <1>7 DEF Unfinished, IpTypes
    <2>3. Finish(h, f, next) = FinishMpls(h, f, next)
      BY <1>1, <1>7 DEF Finish
    <2>4. FinishMpls(h, f, next) = [header |-> [h EXCEPT !.total = reach], field |-> f]
      BY <1>1 DEF FinishMpls
    <2>5. f = Learned(t, n, reach, inside)
      BY <1>7, <2>1, FieldsAre, MplsLearns
    <2>6. QED
      BY <1>3, <2>3, <2>4, <2>5, ZenonT(40) DEF h
  <1>8. QED
    BY <1>4, <1>5, <1>6, <1>7 DEF IpTypes

-----------------------------------------------------------------------------
(* The transport packet and the prefix, while they are built.              *)

StackOf(ls, d) ==
    ls \o << [type |-> d.family, bytes |-> HeaderBytes[d.family]],
             [type |-> L4Type(d), bytes |-> L4Header(d)] >>
PayloadOf(d) == L4Bytes(d) - L4Header(d)

Packet(buf, ip, headers, bits, l3) ==
    [buf |-> buf, l2 |-> 0, ip |-> ip, headers |-> headers, bits |-> bits, l3 |-> l3]

\* The headers in front: one behind the other, with nothing filled in yet
OuterOK(o, ls) ==
    /\ o = Packet(o.buf, o.ip, o.headers, o.bits, o.l3) /\ o.ip \in Nat
    /\ ls \in Seq(Layers)
    /\ \A i \in 1 .. Len(ls) :
          /\ ls[i].type \in IpTypes \cup {"GRE", "MPLS"} /\ ls[i].bytes > 0
          /\ ls[i].type \in IpTypes => ls[i].bytes = HeaderBytes[ls[i].type]
          /\ o.headers[i].at \in Nat
          /\ o.headers[i].at + ls[i].bytes = IF i = Len(ls) THEN o.ip ELSE o.headers[i + 1].at
          /\ o.headers[i].at + ls[i].bytes <= o.ip
    /\ o.headers = [i \in 1 .. Len(ls) |-> Row(ls[i].type, o.headers[i].at, ls[i].bytes, 0)]
    /\ o.bits = [i \in 1 .. Len(ls) |-> Fields(ls[i].type, ls[i].bytes)]
    /\ IF Len(ls) = 0 THEN o.ip = 0 ELSE o.headers[1].at = 0

\* What describes a transport packet that is not refused
Described(d) ==
    /\ d.family \in IpTypes /\ L4Type(d) \in L4Types
    /\ HeaderBytes[d.family] \in Nat \ {0}
    /\ L4Header(d) \in Nat \ {0} /\ L4Bytes(d) \in Nat /\ PayloadOf(d) \in Nat

IpField(d) ==
    AField(d.family, HeaderBytes[d.family],
           IF d.family = "IPV4" THEN IpBytes(d) % U16 ELSE (IpBytes(d) % U16) - 40,
           L4Type(d), NoSum)
L4Field(d) ==
    AField(L4Type(d), L4Header(d), IF L4Type(d) = "UDP" THEN L4Bytes(d) % U16 ELSE 0, None, NoSum)
TransportOK(p, d) ==
    /\ Described(d)
    /\ p = Packet(IpBytes(d), IpBytes(d),
                  << Row(d.family, 0, HeaderBytes[d.family], IpBytes(d) % U16),
                     Row(L4Type(d), HeaderBytes[d.family], L4Header(d), L4Bytes(d)) >>,
                  << IpField(d), L4Field(d) >>, 0)

LEMMA AppendToOne ==
  ASSUME NEW x, NEW y
  PROVE  Append(<<x>>, y) = <<x, y>>
  <1>1. PICK s : s = <<x>>
    OBVIOUS
  <1>2. PICK u : u = Append(s, y)
    OBVIOUS
  <1>3. DOMAIN u = 1 .. 2 /\ u[1] = x /\ u[2] = y
    BY <1>1, <1>2
  <1>4. u = [i \in 1 .. 2 |-> u[i]]
    BY <1>1, <1>2
  <1>5. [i \in 1 .. 2 |-> u[i]] = <<x, y>>
    BY <1>3
  <1>6. QED
    BY <1>1, <1>2, <1>4, <1>5

LEMMA Appended ==
  ASSUME NEW buf, NEW ip \in Nat, NEW headers, NEW bits, NEW l3, NEW t, NEW n \in Nat, NEW total
  PROVE  AppendHeader(Packet(buf, ip, headers, bits, l3), t, n, total) =
           Packet(buf, ip + n, Append(headers, Row(t, ip, n, total)), bits, l3)
  <1> DEFINE p == Packet(buf, ip, headers, bits, l3)
             longer == Append(headers, Row(t, ip, n, total))
  <1>1. p.l2 + p.ip = ip /\ p.headers = headers /\ p.ip = ip
    BY DEF Packet
  <1>2. AppendHeader(p, t, n, total) = [p EXCEPT !.headers = longer, !.ip = ip + n]
    BY <1>1 DEF AppendHeader, Row
  <1>3. PICK q : q = [p EXCEPT !.headers = longer]
    OBVIOUS
  <1>4. q = Packet(buf, ip, longer, bits, l3)
    BY <1>3 DEF Packet
  <1> HIDE DEF longer
  <1>5. [q EXCEPT !.ip = ip + n] = Packet(buf, ip + n, longer, bits, l3)
    BY <1>4 DEF Packet
  <1>6. [p EXCEPT !.headers = longer, !.ip = ip + n] = [[p EXCEPT !.headers = longer] EXCEPT !.ip = ip + n]
    OBVIOUS
  <1>7. QED
    BY <1>2, <1>3, <1>5, <1>6, ZenonT(40) DEF longer

LEMMA BytesOfHeaders ==
  /\ HeaderBytes["IPV4"] = 20 /\ HeaderBytes["IPV6"] = 40 /\ HeaderBytes["TCP"] = 20
  /\ HeaderBytes["UDP"] = 8 /\ HeaderBytes["ICMPV4"] = 8 /\ HeaderBytes["ICMPV6"] = 8
  BY DEF HeaderBytes, IpTypes, L4Types

LEMMA TransportIs ==
  ASSUME NEW d, Described(d), IpBytes(d) \in Nat, NEW f, f = L4Field(d)
  PROVE  TransportOK(Transport(d, f), d)
  <1> DEFINE n == IpBytes(d)
             hb == HeaderBytes[d.family]
             r1 == Row(d.family, 0, hb, n % U16)
             r2 == Row(L4Type(d), hb, L4Header(d), L4Bytes(d))
  <1>0. hb \in Nat /\ L4Header(d) \in Nat
    BY DEF Described
  <1> HIDE DEF hb, n, r1, r2
  <1>1. PICK p1 : p1 = AppendHeader(PacketNew(n), d.family, hb, n % U16)
    OBVIOUS
  <1>2. p1 = Packet(n, hb, <<r1>>, <<>>, None)
    <2>1. PacketNew(n) = Packet(n, 0, <<>>, <<>>, None)
      BY DEF PacketNew, Packet
    <2>2. p1 = Packet(n, 0 + hb, Append(<<>>, r1), <<>>, None)
      <3>1. PICK zero \in Nat : zero = 0
        OBVIOUS
      <3>0. PICK none, total : none = <<>> /\ total = n % U16
        OBVIOUS
      <3>2. p1 = AppendHeader(Packet(n, zero, none, none, None), d.family, hb, total)
        BY <1>1, <2>1, <3>0, <3>1
      <3>3. p1 = Packet(n, zero + hb, Append(none, Row(d.family, zero, hb, total)), none, None)
        BY <1>0, <3>2, Appended
      <3>4. QED
        BY <3>0, <3>1, <3>3 DEF r1
    <2>3. 0 + hb = hb /\ Append(<<>>, r1) = <<r1>>
      BY <1>0
    <2>4. QED
      BY <2>2, <2>3
  <1>3. PICK p2 : p2 = SetIpHeader(PacketNew(n), d.family, n, L4Type(d))
    OBVIOUS
  <1>4. p2 = Packet(n, hb, <<r1>>, <<IpField(d)>>, 0)
    <2> DEFINE total == n % U16
               g == [Fields(d.family, hb) EXCEPT
                       !.tot = IF d.family = "IPV4" THEN total ELSE total - 40, !.proto = L4Type(d)]
    <2>1. p2 = [p1 EXCEPT !.l3 = 0, !.bits = <<g>>]
      BY <1>1, <1>3 DEF SetIpHeader, hb
    <2>2. g = IpField(d)
      <3> USE DEF AField
      <3>1. PICK tot : tot = IF d.family = "IPV4" THEN total ELSE total - 40
        OBVIOUS
      <3>2. PICK f1 : f1 = [Fields(d.family, hb) EXCEPT !.tot = tot]
        OBVIOUS
      <3>3. f1 = AField(d.family, hb, tot, None, NoSum)
        BY <3>2 DEF Fields
      <3>4. [f1 EXCEPT !.proto = L4Type(d)] = AField(d.family, hb, tot, L4Type(d), NoSum)
        BY <3>3
      <3>5. [Fields(d.family, hb) EXCEPT !.tot = tot, !.proto = L4Type(d)]
              = [[Fields(d.family, hb) EXCEPT !.tot = tot] EXCEPT !.proto = L4Type(d)]
        OBVIOUS
      <3>6. g = AField(d.family, hb, tot, L4Type(d), NoSum)
        BY <3>1, <3>2, <3>4, <3>5
      <3>7. QED
        BY <3>1, <3>6 DEF IpField, hb, n
    <2> HIDE DEF g
    <2>3. PICK q : q = [p1 EXCEPT !.l3 = 0]
      OBVIOUS
    <2>4. q = Packet(n, hb, <<r1>>, <<>>, 0)
      BY <1>2, <2>3 DEF Packet
    <2>5. [q EXCEPT !.bits = <<g>>] = Packet(n, hb, <<r1>>, <<g>>, 0)
      BY <2>4 DEF Packet
    <2>6. [p1 EXCEPT !.l3 = 0, !.bits = <<g>>] = [[p1 EXCEPT !.l3 = 0] EXCEPT !.bits = <<g>>]
      OBVIOUS
    <2>7. QED
      BY <2>1, <2>2, <2>3, <2>5, <2>6
  <1>5. PICK p3 : p3 = AppendHeader(p2, L4Type(d), L4Header(d), L4Bytes(d))
    OBVIOUS
  <1>6. p3 = Packet(n, hb + L4Header(d), <<r1, r2>>, <<IpField(d)>>, 0)
    <2>1. p3 = Packet(n, hb + L4Header(d), Append(<<r1>>, r2), <<IpField(d)>>, 0)
      BY <1>0, <1>4, <1>5, Appended DEF r2
    <2>2. Append(<<r1>>, r2) = <<r1, r2>>
      BY AppendToOne, ZenonT(40)
    <2>3. QED
      BY <2>1, <2>2
  <1>7. Transport(d, f) = [p3 EXCEPT !.bits = Append(p3.bits, f), !.ip = n]
    BY <1>3, <1>5 DEF Transport, n
  <1>8. [p3 EXCEPT !.bits = Append(p3.bits, f), !.ip = n]
          = Packet(n, n, <<r1, r2>>, <<IpField(d), L4Field(d)>>, 0)
    <2>1. Append(p3.bits, f) = <<IpField(d), L4Field(d)>>
      <3>1. p3.bits = <<IpField(d)>>
        BY <1>6 DEF Packet
      <3>2. f = L4Field(d)
        OBVIOUS
      <3>3. QED
        BY <3>1, <3>2, AppendToOne, ZenonT(40)
    <2>2. PICK bs : bs = <<IpField(d), L4Field(d)>>
      OBVIOUS
    <2>3. PICK q : q = [p3 EXCEPT !.bits = bs]
      OBVIOUS
    <2>4. q = Packet(n, hb + L4Header(d), <<r1, r2>>, bs, 0)
      BY <1>6, <2>3 DEF Packet
    <2>5. [q EXCEPT !.ip = n] = Packet(n, n, <<r1, r2>>, bs, 0)
      BY <2>4 DEF Packet
    <2>6. [p3 EXCEPT !.bits = bs, !.ip = n] = [[p3 EXCEPT !.bits = bs] EXCEPT !.ip = n]
      OBVIOUS
    <2>7. QED
      BY <2>1, <2>2, <2>3, <2>5, <2>6
  <1>9. QED
    BY <1>7, <1>8 DEF TransportOK, n, hb, r1, r2

\* Whatever new_tcp_packet() and its kin do not refuse is built as described
LEMMA NewPacketBuilds ==
  ASSUME NEW d \in Descriptions, NewPacket(d).pc = "prefix"
  PROVE  TransportOK(NewPacket(d).pkt, d)
  <1>0. /\ d.family \in {"IPV4", "IPV6"} /\ d.type \in {"TCP", "UDP", "ICMP"}
        /\ d.options \in Nat /\ d.payload \in Nat
    BY HeadersAssumption
  <1>1. PICK hb \in Nat \ {0} : hb = HeaderBytes[d.family]
    BY <1>0, BytesOfHeaders
  <1>2. L4Type(d) \in L4Types
    BY <1>0 DEF L4Type, L4Types
  <1>a. d.type = "ICMP" => L4Type(d) \in {"ICMPV4", "ICMPV6"}
    BY DEF L4Type
  <1>b. d.type # "ICMP" => L4Type(d) = d.type
    BY DEF L4Type
  <1>3. (L4Type(d) = "TCP") <=> (d.type = "TCP")
    BY <1>0, <1>a, <1>b
  <1>4. (L4Type(d) = "UDP") <=> (d.type = "UDP")
    BY <1>0, <1>a, <1>b
  <1>5. PICK small \in Nat \ {0} : small = HeaderBytes[L4Type(d)] /\ (d.type = "ICMP" => small = 8)
    BY <1>2, <1>3, <1>4, BytesOfHeaders DEF L4Types
  <1>6. PICK lh \in Nat \ {0} : lh = L4Header(d) /\ (d.type = "ICMP" => lh = small)
    BY <1>0, <1>5 DEF L4Header
  <1>7. d.type = "ICMP" => IcmpBytes(d) \in Nat
    BY <1>0, <1>1, <1>5 DEF IcmpBytes
  <1>8. PICK lb \in Nat : lb = L4Bytes(d) /\ (d.type = "ICMP" => lb = IcmpBytes(d))
                          /\ (d.type # "ICMP" => lb = lh + d.payload)
    BY <1>0, <1>6, <1>7 DEF L4Bytes
  <1>9. IpBytes(d) \in Nat
    BY <1>1, <1>8 DEF IpBytes
  <1>10. ASSUME NEW f, f = L4Field(d), lb - lh \in Nat, Built(d, f).pc = "prefix"
         PROVE  TransportOK(Built(d, f).pkt, d)
    <2>1. Described(d)
      BY <1>0, <1>1, <1>2, <1>6, <1>8, <1>10 DEF Described, PayloadOf, IpTypes
    <2>2. Built(d, f).pkt = Transport(d, f)
      BY <1>10 DEF Built
    <2>3. QED
      BY <1>9, <1>10, <2>1, <2>2, TransportIs, ZenonT(40)
  <1>11. CASE d.type = "TCP"
    <2> DEFINE f == Fields("TCP", L4Header(d))
    <2>1. NewPacket(d) = NewTcpPacket(d)
      BY <1>11 DEF NewPacket
    <2>2. NewPacket(d) = Built(d, f)
      BY <2>1 DEF NewTcpPacket, Refused
    <2>3. f = L4Field(d)
      BY <1>3, <1>4, <1>11 DEF L4Field, Fields, AField
    <2>4. lb - lh \in Nat
      BY <1>0, <1>8, <1>11
    <2> HIDE DEF f
    <2>5. Built(d, f).pc = "prefix"
      BY <2>2
    <2>6. QED
      BY <1>10, <2>2, <2>3, <2>4, <2>5, ZenonT(40)
  <1>12. CASE d.type = "UDP"
    <2> DEFINE f == [Fields("UDP", L4Header(d)) EXCEPT !.tot = L4Bytes(d) % U16]
    <2>1. NewPacket(d) = NewUdpPacket(d)
      BY <1>12 DEF NewPacket
    <2>2. NewPacket(d) = Built(d, f)
      BY <2>1 DEF NewUdpPacket, Refused
    <2>3. f = L4Field(d)
      <3>1. L4Field(d) = AField("UDP", L4Header(d), L4Bytes(d) % U16, None, NoSum)
        BY <1>4, <1>12 DEF L4Field
      <3>2. PICK tot : tot = L4Bytes(d) % U16
        OBVIOUS
      <3>3. [Fields("UDP", L4Header(d)) EXCEPT !.tot = tot] = AField("UDP", L4Header(d), tot, None, NoSum)
        BY DEF Fields, AField
      <3>4. QED
        BY <3>1, <3>2, <3>3
    <2>4. lb - lh \in Nat
      BY <1>0, <1>8, <1>12
    <2> HIDE DEF f
    <2>5. Built(d, f).pc = "prefix"
      BY <2>2
    <2>6. QED
      BY <1>10, <2>2, <2>3, <2>4, <2>5, ZenonT(40)
  <1>13. CASE d.type = "ICMP"
    <2> DEFINE f == Fields(L4Type(d), L4Header(d))
    <2>1. NewPacket(d) = NewIcmpPacket(d)
      BY <1>13 DEF NewPacket
    <2>2. NewPacket(d) = Built(d, f) /\ ~(IcmpBytes(d) < HeaderBytes[L4Type(d)])
      BY <2>1 DEF NewIcmpPacket, Refused
    <2>3. f = L4Field(d)
      BY <1>3, <1>4, <1>13 DEF L4Field, Fields, AField
    <2>4. lb - lh \in Nat
      BY <1>5, <1>6, <1>8, <1>13, <2>2
    <2> HIDE DEF f
    <2>5. Built(d, f).pc = "prefix"
      BY <2>2
    <2>6. QED
      BY <1>10, <2>2, <2>3, <2>4, <2>5, ZenonT(40)
  <1>14. QED
    BY <1>0, <1>11, <1>12, <1>13

-----------------------------------------------------------------------------
(* The datagram as a whole.                                                *)

Longer(s, t) ==
    [i \in 1 .. Len(s) + Len(t) |-> IF i <= Len(s) THEN s[i] ELSE t[i - Len(s)]]

IsTuple(s) == Len(s) \in Nat /\ s = [i \in 1 .. Len(s) |-> s[i]]

LEMMA AppendedIs ==
  ASSUME NEW s, NEW x, IsTuple(s)
  PROVE  /\ Append(s, x) = [i \in 1 .. Len(s) + 1 |-> Append(s, x)[i]]
         /\ \A i \in 1 .. Len(s) : Append(s, x)[i] = s[i]
         /\ Append(s, x)[Len(s) + 1] = x
  <1> DEFINE S == {s[i] : i \in 1 .. Len(s)} \cup {x}
  <1>1. s \in Seq(S) /\ Len(s) \in Nat
    <2>1. s \in [1 .. Len(s) -> S]
      BY DEF IsTuple
    <2>2. QED
      BY <2>1 DEF IsTuple
  <1> HIDE DEF S
  <1>2. x \in S
    BY DEF S
  <1>3. PICK u : u = Append(s, x)
    OBVIOUS
  <1>4. u \in Seq(S) /\ Len(u) = Len(s) + 1 /\ u = [i \in 1 .. Len(u) |-> u[i]]
    <2>1. u \in Seq(S) /\ Len(u) = Len(s) + 1
      BY <1>1, <1>2, <1>3, AppendProperties, ZenonT(40)
    <2>2. QED
      BY <2>1
  <1>5. QED
    <2>1. \A i \in 1 .. Len(s) : u[i] = s[i]
      BY <1>1, <1>2, <1>3
    <2>2. u[Len(s) + 1] = x
      BY <1>1, <1>2, <1>3
    <2>3. QED
      BY <1>3, <1>4, <2>1, <2>2, ZenonT(40)

LEMMA Concatenated ==
  ASSUME NEW s, NEW t, IsTuple(s), IsTuple(t)
  PROVE  s \o t = Longer(s, t)
  <1> DEFINE S == {s[i] : i \in 1 .. Len(s)} \cup {t[i] : i \in 1 .. Len(t)}
  <1>1. s \in Seq(S)
    <2>1. s \in [1 .. Len(s) -> S]
      BY DEF IsTuple
    <2>2. QED
      BY <2>1 DEF IsTuple
  <1>2. t \in Seq(S)
    <2>1. t \in [1 .. Len(t) -> S]
      BY DEF IsTuple
    <2>2. QED
      BY <2>1 DEF IsTuple
  <1>3. PICK u \in Seq(S) : u = s \o t
    <2> HIDE DEF S
    <2>1. s \o t \in Seq(S)
      BY <1>1, <1>2, ConcatProperties, ZenonT(40)
    <2>2. QED
      BY <2>1, ZenonT(40)
  <1> HIDE DEF S
  <1>4. Len(u) = Len(s) + Len(t) /\ \A i \in 1 .. Len(u) : u[i] = Longer(s, t)[i]
    BY <1>1, <1>2, <1>3 DEF Longer
  <1>5. u = [i \in 1 .. Len(u) |-> u[i]]
    OBVIOUS
  <1>6. QED
    BY <1>3, <1>4, <1>5 DEF Longer

StackFacts(s, ls, d, n) ==
    /\ n \in Nat /\ DOMAIN ls = 1 .. n
    /\ s \in Seq(Layers) /\ Len(s) = n + 2 /\ DOMAIN s = 1 .. n + 2
    /\ \A i \in 1 .. n : s[i] = ls[i]
    /\ s[n + 1].type = d.family /\ s[n + 1].bytes = HeaderBytes[d.family]
    /\ s[n + 2].type = L4Type(d) /\ s[n + 2].bytes = L4Header(d)

LEMMA StackIs ==
  ASSUME NEW ls \in Seq(Layers), NEW d, Described(d)
  PROVE  StackFacts(StackOf(ls, d), ls, d, Len(ls))
  <1>0. PICK n, s : n = Len(ls) /\ s = StackOf(ls, d)
    OBVIOUS
  <1>1. PICK x \in Layers : x.type = d.family /\ x.bytes = HeaderBytes[d.family]
                            /\ x = [type |-> d.family, bytes |-> HeaderBytes[d.family]]
    BY DEF Described, Layers, HeaderTypes
  <1>2. PICK y \in Layers : y.type = L4Type(d) /\ y.bytes = L4Header(d)
                            /\ y = [type |-> L4Type(d), bytes |-> L4Header(d)]
    BY DEF Described, Layers, HeaderTypes
  <1>3. s = ls \o <<x, y>>
    BY <1>0, <1>1, <1>2 DEF StackOf
  <1>4. n \in Nat /\ DOMAIN ls = 1 .. n
    BY <1>0
  <1>5. PICK t \in Seq(Layers) : t = <<x, y>> /\ Len(t) = 2 /\ t[1] = x /\ t[2] = y
    <2>1. <<x, y>> \in Seq(Layers)
      OBVIOUS
    <2>2. Len(<<x, y>>) = 2 /\ <<x, y>>[1] = x /\ <<x, y>>[2] = y
      OBVIOUS
    <2>3. QED
      BY <2>1, <2>2
  <1>6. s \in Seq(Layers) /\ Len(s) = n + 2 /\ DOMAIN s = 1 .. n + 2
    <2>1. ls \o t \in Seq(Layers) /\ Len(ls \o t) = Len(ls) + Len(t)
      BY ConcatProperties, ZenonT(40)
    <2>2. s \in Seq(Layers) /\ Len(s) = n + 2
      BY <1>0, <1>3, <1>5, <2>1
    <2>3. QED
      BY <2>2
  <1>7. \A i \in 1 .. n + 2 : s[i] = IF i <= n THEN ls[i] ELSE t[i - n]
    BY <1>0, <1>3, <1>4, <1>5
  <1>8. \A i \in 1 .. n : s[i] = ls[i]
    BY <1>4, <1>7
  <1>9. s[n + 1] = x /\ s[n + 2] = y
    BY <1>4, <1>5, <1>7
  <1>10. QED
    BY <1>0, <1>1, <1>2, <1>4, <1>6, <1>8, <1>9 DEF StackFacts

\* Where the headers of a stack stand, when ip bytes are in front of the last two
Places(o, d, n, i) ==
    IF i <= n THEN o.headers[i].at ELSE IF i = n + 1 THEN o.ip ELSE o.ip + HeaderBytes[d.family]
Rows(o, d, s, n, end) ==
    [i \in 1 .. n + 2 |-> Row(s[i].type, Places(o, d, n, i), s[i].bytes, end - Places(o, d, n, i))]

RowFacts(o, d, s, n, end) ==
    /\ end \in Nat
    /\ Rows(o, d, s, n, end) = Table(s, PayloadOf(d), 0)
    /\ \A i \in 1 .. n + 2 :
          /\ Places(o, d, n, i) \in Nat /\ Places(o, d, n, i) <= end
          /\ Offset(s, i) = Places(o, d, n, i)
          /\ Total(s, PayloadOf(d), i) = end - Places(o, d, n, i)
          /\ s[i].bytes \in Nat \ {0}
    /\ \A i \in 1 .. n + 1 : Places(o, d, n, i + 1) = Places(o, d, n, i) + s[i].bytes
    /\ \A i \in 1 .. n : Places(o, d, n, i) < o.ip
    /\ Places(o, d, n, 1) = 0

EndOf(o, d) == o.ip + HeaderBytes[d.family] + L4Bytes(d)

\* A packet ends behind the outer headers, the IP header, the transport
\* header and the payload.
LEMMA EndBehindParts ==
  ASSUME NEW ip \in Nat, NEW bytes \in Nat, NEW l4 \in Nat, NEW pay \in Nat, NEW end,
         end = ip + bytes + (l4 + pay)
  PROVE  /\ end \in Nat /\ ip <= end /\ ip + bytes \in Nat /\ ip + bytes <= end
         /\ \A x, y \in Nat : x + y <= ip => x <= end
         /\ (ip + bytes) + l4 + pay = end
  OBVIOUS

LEMMA RowsAreTable ==
  ASSUME NEW o, NEW ls, OuterOK(o, ls), NEW d, Described(d)
  PROVE  RowFacts(o, d, StackOf(ls, d), Len(ls), EndOf(o, d))
  <1>0. PICK n, s, end : n = Len(ls) /\ s = StackOf(ls, d) /\ end = EndOf(o, d)
    OBVIOUS
  <1>e. end = o.ip + HeaderBytes[d.family] + L4Bytes(d)
    BY <1>0 DEF EndOf
  <1> USE <1>0, <1>e
  <1> DEFINE a(i) == Places(o, d, n, i)
             h == Rows(o, d, s, n, end)
             hb == HeaderBytes[d.family]
  <1>1. /\ n \in Nat /\ DOMAIN ls = 1 .. n
        /\ s \in Seq(Layers) /\ Len(s) = n + 2 /\ DOMAIN s = 1 .. n + 2
        /\ \A i \in 1 .. n : s[i] = ls[i]
        /\ s[n + 1].type = d.family /\ s[n + 1].bytes = hb
        /\ s[n + 2].type = L4Type(d) /\ s[n + 2].bytes = L4Header(d)
    <2>1. ls \in Seq(Layers)
      BY DEF OuterOK
    <2>2. QED
      BY <2>1, StackIs DEF StackFacts
  <1>2. o.ip \in Nat /\ hb \in Nat \ {0} /\ L4Header(d) \in Nat \ {0} /\ L4Bytes(d) \in Nat
        /\ PayloadOf(d) \in Nat /\ L4Header(d) + PayloadOf(d) = L4Bytes(d)
    BY DEF OuterOK, Described, PayloadOf
  <1>14. PICK ip \in Nat, bytes \in Nat, l4 \in Nat, pay \in Nat :
            /\ ip = o.ip /\ bytes = hb /\ l4 = L4Header(d) /\ pay = PayloadOf(d)
            /\ bytes # 0 /\ l4 # 0 /\ end = ip + bytes + (l4 + pay)
    BY <1>2, <1>e
  <1>15. /\ end \in Nat /\ ip <= end /\ ip + bytes \in Nat /\ ip + bytes <= end
         /\ \A x, y \in Nat : x + y <= ip => x <= end
         /\ (ip + bytes) + l4 + pay = end
    <2> HIDE <1>0, <1>e
    <2>1. end = ip + bytes + (l4 + pay)
      BY <1>14
    <2>2. QED
      BY <2>1, EndBehindParts
  <1>3. end \in Nat
    BY <1>15
  <1>4. \A i \in 1 .. n : /\ a(i) = o.headers[i].at /\ a(i) \in Nat
                          /\ ls[i].bytes > 0 /\ ls[i].bytes \in Nat
                          /\ a(i) + ls[i].bytes <= o.ip
                          /\ a(i) + ls[i].bytes = IF i = n THEN o.ip ELSE o.headers[i + 1].at
    <2>1. \A i \in 1 .. n : ls[i] \in Layers
      BY <1>1 DEF OuterOK
    <2>2. \A i \in 1 .. n : ls[i].bytes \in Nat
      BY <2>1 DEF Layers
    <2>3. QED
      BY <1>1, <2>2 DEF OuterOK, Places
  <1>5. a(n + 1) = o.ip /\ a(n + 2) = o.ip + hb
    BY <1>1, <1>2 DEF Places
  <1>6. a(1) = 0
    <2>1. IF n = 0 THEN o.ip = 0 ELSE o.headers[1].at = 0
      BY <1>1 DEF OuterOK
    <2>2. CASE n = 0
      BY <1>5, <2>1, <2>2
    <2>3. CASE n # 0
      <3>1. 1 \in 1 .. n
        BY <1>1, <2>3
      <3>2. QED
        BY <1>4, <2>1, <2>3, <3>1
    <2>4. QED
      BY <2>2, <2>3
  <1>7. \A i \in 1 .. n + 2 : a(i) \in Nat /\ s[i].bytes \in Nat \ {0} /\ a(i) <= end
    <2> SUFFICES ASSUME NEW i \in 1 .. n + 2
                 PROVE  a(i) \in Nat /\ s[i].bytes \in Nat \ {0} /\ a(i) <= end
      OBVIOUS
    <2>1. CASE i \in 1 .. n
      <3>1. PICK x \in Nat, y \in Nat : x = a(i) /\ y = s[i].bytes /\ y > 0 /\ x + y <= o.ip
        BY <1>1, <1>4, <2>1
      <3>2. x <= end
        BY <3>1, <1>14, <1>15
      <3>3. QED
        BY <3>1, <3>2
    <2>2. CASE i = n + 1
      <3>1. a(i) = ip /\ s[i].bytes = bytes
        BY <1>1, <1>5, <1>14, <2>2
      <3>2. QED
        BY <1>14, <1>15, <3>1
    <2>3. CASE i = n + 2
      <3>1. a(i) = ip + bytes /\ s[i].bytes = l4
        BY <1>1, <1>5, <1>14, <2>3
      <3>2. QED
        BY <1>14, <1>15, <3>1
    <2>4. i \in 1 .. n \/ i = n + 1 \/ i = n + 2
      BY <1>1
    <2>5. QED
      BY <2>1, <2>2, <2>3, <2>4
  <1>8. \A i \in 1 .. n + 1 : a(i + 1) = a(i) + s[i].bytes
    <2> SUFFICES ASSUME NEW i \in 1 .. n + 1 PROVE a(i + 1) = a(i) + s[i].bytes
      OBVIOUS
    <2>1. CASE i \in 1 .. n - 1
      <3>1. i + 1 \in 1 .. n /\ i \in 1 .. n /\ i # n
        BY <1>1, <2>1
      <3>2. QED
        BY <1>1, <1>4, <3>1
    <2>2. CASE i = n
      BY <1>1, <1>4, <1>5, <2>2
    <2>3. CASE i = n + 1
      BY <1>1, <1>5, <2>3
    <2>4. QED
      BY <1>1, <2>1, <2>2, <2>3
  <1>9. Laid(h, s, end) /\ h[Len(s)].at + s[Len(s)].bytes + PayloadOf(d) = end
    <2>1. \A i \in 1 .. n + 2 : h[i].at = a(i)
      BY DEF Rows, Row
    <2>2. h = [i \in 1 .. Len(s) |-> [type |-> s[i].type, at |-> h[i].at, bytes |-> s[i].bytes,
                                      total |-> end - h[i].at]]
      BY <1>1, <2>1 DEF Rows, Row
    <2>3. \A i \in 2 .. Len(s) : h[i].at = h[i - 1].at + s[i - 1].bytes
      <3> SUFFICES ASSUME NEW i \in 2 .. n + 2 PROVE h[i].at = h[i - 1].at + s[i - 1].bytes
        BY <1>1
      <3>1. PICK j \in 1 .. n + 1 : j = i - 1 /\ i = j + 1
        BY <1>1
      <3>2. h[j + 1].at = h[j].at + s[j].bytes
        BY <1>1, <1>8, <2>1, <3>1
      <3>3. QED
        BY <3>1, <3>2
    <2>4. n + 2 \in 1 .. n + 2 /\ 1 \in 1 .. n + 2
      BY <1>1
    <2>5. h[1].at = 0 /\ \A i \in 1 .. Len(s) : h[i].at \in Nat
      BY <1>1, <1>6, <1>7, <2>1, <2>4
    <2>6. h[Len(s)].at + s[Len(s)].bytes + PayloadOf(d) = end
      <3>1. h[n + 2].at = a(n + 2)
        BY <2>1, <2>4
      <3>2. h[Len(s)].at = ip + bytes /\ s[Len(s)].bytes = l4
        BY <1>1, <1>5, <1>14, <3>1
      <3>3. QED
        BY <1>14, <1>15, <3>2
    <2> HIDE DEF h
    <2>7. QED
      BY <2>2, <2>3, <2>5, <2>6 DEF Laid
  <1>10. /\ h = Table(s, PayloadOf(d), 0)
         /\ \A i \in 1 .. n + 2 : /\ Offset(s, i) = h[i].at
                                  /\ Total(s, PayloadOf(d), i) = end - h[i].at
    <2>1. s # <<>>
      BY <1>1
    <2>2. /\ s \in Seq(Layers) /\ PayloadOf(d) \in Int /\ end \in Int
      BY <1>1, <1>2, <1>3
    <2>3. Laid(h, s, end) /\ h[Len(s)].at + s[Len(s)].bytes + PayloadOf(d) = end /\ Len(s) = n + 2
      BY <1>1, <1>9
    <2> HIDE DEF h
    <2>4. QED
      BY ONLY <2>1, <2>2, <2>3, LaidIsTable
  <1>11. \A i \in 1 .. n + 2 : h[i].at = a(i)
    BY DEF Rows, Row
  <1>12. \A i \in 1 .. n : a(i) < o.ip
    <2> SUFFICES ASSUME NEW i \in 1 .. n PROVE a(i) < o.ip
      OBVIOUS
    <2>1. PICK x \in Nat, y \in Nat : x = a(i) /\ y = ls[i].bytes /\ y > 0 /\ x + y <= o.ip
      BY <1>4
    <2>2. QED
      BY <1>2, <2>1
  <1>13. QED
    BY <1>3, <1>6, <1>7, <1>8, <1>10, <1>11, <1>12 DEF RowFacts

Raw(o, d, s, n) ==
    [i \in 1 .. n + 2 |-> Row(s[i].type, Places(o, d, n, i), s[i].bytes,
                              IF i <= n THEN 0 ELSE IF i = n + 1 THEN IpBytes(d) % U16 ELSE L4Bytes(d))]
RawBits(d, s, n) ==
    [i \in 1 .. n + 2 |-> IF i <= n THEN Fields(s[i].type, s[i].bytes)
                          ELSE IF i = n + 1 THEN IpField(d) ELSE L4Field(d)]

LEMMA JoinedIs ==
  ASSUME NEW o, NEW ls, OuterOK(o, ls), NEW p, NEW d, TransportOK(p, d),
         NEW n, n = Len(ls), NEW s, s = StackOf(ls, d)
  PROVE  Joined(o, p) = Packet(o.ip + IpBytes(d), IpBytes(d), Raw(o, d, s, n), RawBits(d, s, n), o.ip)
  <1> DEFINE hb == HeaderBytes[d.family]
             r1 == Row(d.family, 0, hb, IpBytes(d) % U16)
             r2 == Row(L4Type(d), hb, L4Header(d), L4Bytes(d))
  <1>1. /\ n \in Nat
        /\ \A i \in 1 .. n : s[i] = ls[i]
        /\ s[n + 1].type = d.family /\ s[n + 1].bytes = hb
        /\ s[n + 2].type = L4Type(d) /\ s[n + 2].bytes = L4Header(d)
    <2>1. ls \in Seq(Layers) /\ Described(d)
      BY DEF OuterOK, TransportOK
    <2>2. StackFacts(StackOf(ls, d), ls, d, Len(ls))
      BY <2>1, StackIs
    <2>3. QED
      BY <2>2 DEF StackFacts
  <1>2. o.ip \in Nat /\ hb \in Nat
    BY DEF OuterOK, TransportOK, Described
  <1>3. /\ p.ip = IpBytes(d) /\ p.headers = <<r1, r2>>
        /\ p.bits = <<IpField(d), L4Field(d)>> /\ p.l3 = 0
        /\ p = Packet(p.buf, p.ip, p.headers, p.bits, p.l3)
    BY DEF TransportOK, Packet
  <1>4. PICK back : back = Shifted(p.headers, o.ip)
    OBVIOUS
  <1>5. /\ IsTuple(back) /\ Len(back) = 2
        /\ back[1] = Row(d.family, o.ip, hb, IpBytes(d) % U16)
        /\ back[2] = Row(L4Type(d), o.ip + hb, L4Header(d), L4Bytes(d))
    <2>1. DOMAIN p.headers = 1 .. 2 /\ p.headers[1] = r1 /\ p.headers[2] = r2
      BY <1>3
    <2>2. back = [i \in 1 .. 2 |-> [p.headers[i] EXCEPT !.at = p.headers[i].at + o.ip]]
      BY <1>4, <2>1 DEF Shifted
    <2>3. back[1] = [r1 EXCEPT !.at = r1.at + o.ip] /\ back[2] = [r2 EXCEPT !.at = r2.at + o.ip]
      BY <2>1, <2>2
    <2>4. r1.at + o.ip = o.ip /\ r2.at + o.ip = o.ip + hb
      BY <1>2 DEF Row
    <2>5. PICK a1, a2 : a1 = o.ip /\ a2 = o.ip + hb
      OBVIOUS
    <2>6. [r1 EXCEPT !.at = a1] = Row(d.family, a1, hb, IpBytes(d) % U16)
      BY DEF Row
    <2>7. [r2 EXCEPT !.at = a2] = Row(L4Type(d), a2, L4Header(d), L4Bytes(d))
      BY DEF Row
    <2>8. QED
      BY <2>2, <2>3, <2>4, <2>5, <2>6, <2>7 DEF IsTuple
  <1>6. o.headers \o back = Raw(o, d, s, n)
    <2>1. IsTuple(o.headers) /\ Len(o.headers) = n
      BY <1>1 DEF OuterOK, IsTuple
    <2>2. o.headers \o back = Longer(o.headers, back)
      BY <1>5, <2>1, Concatenated
    <2>3. \A i \in 1 .. n + 2 : Longer(o.headers, back)[i] = Raw(o, d, s, n)[i]
      <3> SUFFICES ASSUME NEW i \in 1 .. n + 2
                   PROVE  Longer(o.headers, back)[i] = Raw(o, d, s, n)[i]
        OBVIOUS
      <3>1. CASE i \in 1 .. n
        <4>1. Longer(o.headers, back)[i] = o.headers[i]
          BY <1>1, <1>5, <2>1, <3>1 DEF Longer
        <4>2. o.headers[i] = Row(ls[i].type, o.headers[i].at, ls[i].bytes, 0)
          BY <3>1 DEF OuterOK
        <4>3. Places(o, d, n, i) = o.headers[i].at
          BY <1>1, <3>1 DEF Places
        <4>4. QED
          BY <1>1, <3>1, <4>1, <4>2, <4>3 DEF Raw
      <3>2. CASE i = n + 1
        <4>1. Longer(o.headers, back)[i] = back[1]
          BY <1>1, <1>5, <2>1, <3>2 DEF Longer
        <4>2. Places(o, d, n, i) = o.ip
          BY <1>1, <3>2 DEF Places
        <4>3. QED
          BY <1>1, <1>5, <3>2, <4>1, <4>2 DEF Raw
      <3>3. CASE i = n + 2
        <4>1. Longer(o.headers, back)[i] = back[2]
          BY <1>1, <1>5, <2>1, <3>3 DEF Longer
        <4>2. Places(o, d, n, i) = o.ip + hb
          BY <1>1, <3>3 DEF Places
        <4>3. QED
          BY <1>1, <1>5, <3>3, <4>1, <4>2 DEF Raw
      <3>4. QED
        BY <1>1, <3>1, <3>2, <3>3
    <2>4. QED
      BY <1>5, <2>1, <2>2, <2>3 DEF Longer, Raw
  <1>7. o.bits \o p.bits = RawBits(d, s, n)
    <2>1. IsTuple(o.bits) /\ Len(o.bits) = n
      BY <1>1 DEF OuterOK, IsTuple
    <2>2. PICK bs : bs = p.bits
      OBVIOUS
    <2>3. IsTuple(bs) /\ Len(bs) = 2 /\ bs[1] = IpField(d) /\ bs[2] = L4Field(d)
      BY <1>3, <2>2 DEF IsTuple
    <2>4. o.bits \o bs = Longer(o.bits, bs)
      BY <2>1, <2>3, Concatenated
    <2>5. \A i \in 1 .. n + 2 : Longer(o.bits, bs)[i] = RawBits(d, s, n)[i]
      <3> SUFFICES ASSUME NEW i \in 1 .. n + 2
                   PROVE  Longer(o.bits, bs)[i] = RawBits(d, s, n)[i]
        OBVIOUS
      <3>1. CASE i \in 1 .. n
        <4>1. Longer(o.bits, bs)[i] = o.bits[i]
          BY <1>1, <2>1, <2>3, <3>1 DEF Longer
        <4>2. o.bits[i] = Fields(ls[i].type, ls[i].bytes)
          BY <3>1 DEF OuterOK
        <4>3. QED
          BY <1>1, <3>1, <4>1, <4>2 DEF RawBits
      <3>2. CASE i = n + 1
        BY <1>1, <2>1, <2>3, <3>2 DEF Longer, RawBits
      <3>3. CASE i = n + 2
        BY <1>1, <2>1, <2>3, <3>3 DEF Longer, RawBits
      <3>4. QED
        BY <1>1, <3>1, <3>2, <3>3
    <2>6. QED
      BY <2>1, <2>2, <2>3, <2>4, <2>5 DEF Longer, RawBits
  <1>8. PICK b, hs, fs, l : /\ b = o.ip + IpBytes(d) /\ hs = Raw(o, d, s, n) /\ fs = RawBits(d, s, n)
                            /\ l = o.ip
    OBVIOUS
  <1>9. Joined(o, p) = [p EXCEPT !.buf = b, !.headers = hs, !.bits = fs, !.l3 = l]
    <2>a. o.ip + p.ip = b
      BY <1>3, <1>8
    <2>b. o.headers \o Shifted(p.headers, o.ip) = hs
      BY <1>4, <1>6, <1>8, ZenonT(40)
    <2>c. o.bits \o p.bits = fs
      BY <1>7, <1>8, ZenonT(40)
    <2>d. p.l3 + o.ip = l
      BY <1>2, <1>3, <1>8
    <2>2. Joined(o, p) = [p EXCEPT !.buf = o.ip + p.ip, !.headers = o.headers \o Shifted(p.headers, o.ip),
                                   !.bits = o.bits \o p.bits, !.l3 = p.l3 + o.ip]
      BY ZenonT(40) DEF Joined
    <2>3. QED
      BY <2>a, <2>b, <2>c, <2>d, <2>2, ZenonT(40)
  <1>10. [p EXCEPT !.buf = b, !.headers = hs, !.bits = fs, !.l3 = l] = Packet(b, p.ip, hs, fs, l)
    <2> USE DEF Packet
    <2>1. PICK q1 : q1 = [p EXCEPT !.buf = b]
      OBVIOUS
    <2>2. q1 = Packet(b, p.ip, p.headers, p.bits, p.l3)
      BY <1>3, <2>1
    <2>3. PICK q2 : q2 = [q1 EXCEPT !.headers = hs]
      OBVIOUS
    <2>4. q2 = Packet(b, p.ip, hs, p.bits, p.l3)
      BY <2>2, <2>3
    <2>5. PICK q3 : q3 = [q2 EXCEPT !.bits = fs]
      OBVIOUS
    <2>6. q3 = Packet(b, p.ip, hs, fs, p.l3)
      BY <2>4, <2>5
    <2>7. [q3 EXCEPT !.l3 = l] = Packet(b, p.ip, hs, fs, l)
      BY <2>6
    <2>8. [p EXCEPT !.buf = b, !.headers = hs, !.bits = fs, !.l3 = l]
            = [[[[p EXCEPT !.buf = b] EXCEPT !.headers = hs] EXCEPT !.bits = fs] EXCEPT !.l3 = l]
      OBVIOUS
    <2>9. QED
      BY <2>1, <2>3, <2>5, <2>7, <2>8
  <1>11. QED
    BY <1>3, <1>8, <1>9, <1>10

LEMMA FinishedPacket ==
  ASSUME NEW buf, NEW ip, NEW hs, NEW fs, NEW l3, NEW g, AllFinished(Packet(buf, ip, hs, fs, l3), g)
  PROVE  FinishHeaders(Packet(buf, ip, hs, fs, l3)) =
           Packet(buf, ip, [i \in 1 .. Len(hs) |-> g[i].header], [i \in 1 .. Len(hs) |-> g[i].field], l3)
  <1>1. PICK p, hs2, fs2 : /\ p = Packet(buf, ip, hs, fs, l3)
                           /\ hs2 = [i \in 1 .. Len(hs) |-> g[i].header]
                           /\ fs2 = [i \in 1 .. Len(hs) |-> g[i].field]
    OBVIOUS
  <1>2. p.headers = hs
    BY <1>1 DEF Packet
  <1>3. FinishHeaders(p) = [p EXCEPT !.headers = hs2, !.bits = fs2]
    <2>1. AllFinished(p, g)
      BY <1>1
    <2>2. FinishHeaders(p) = [p EXCEPT !.headers = [i \in 1 .. Len(p.headers) |-> g[i].header],
                                       !.bits = [i \in 1 .. Len(p.headers) |-> g[i].field]]
      BY <2>1, FinishedIs, ZenonT(40)
    <2>3. QED
      BY <1>1, <1>2, <2>2, ZenonT(40)
  <1>4. PICK q : q = [p EXCEPT !.headers = hs2]
    OBVIOUS
  <1>5. q = Packet(buf, ip, hs2, fs, l3)
    BY <1>1, <1>4 DEF Packet
  <1>6. [q EXCEPT !.bits = fs2] = Packet(buf, ip, hs2, fs2, l3)
    BY <1>5 DEF Packet
  <1>7. [p EXCEPT !.headers = hs2, !.bits = fs2] = [[p EXCEPT !.headers = hs2] EXCEPT !.bits = fs2]
    OBVIOUS
  <1>8. QED
    BY <1>1, <1>3, <1>4, <1>6, <1>7, ZenonT(40)

LearnedBits(o, d, s, n, end) ==
    [i \in 1 .. n + 2 |-> IF i <= n + 1
                          THEN Learned(s[i].type, s[i].bytes, end - Places(o, d, n, i), s[i + 1].type)
                          ELSE L4Field(d)]

\* packet_encapsulate(), for a description that makes sense
LEMMA EncapsulatedIs ==
  ASSUME NEW o, NEW ls, OuterOK(o, ls), NEW p, NEW d, TransportOK(p, d),
         NEW n, n = Len(ls), NEW s, s = StackOf(ls, d), Sensible(s, PayloadOf(d)),
         NEW end, end = EndOf(o, d)
  PROVE  Encapsulated(o, p) =
           Packet(end, end, Rows(o, d, s, n, end), LearnedBits(o, d, s, n, end), o.ip)
  <1> DEFINE a(i) == Places(o, d, n, i)
             rows == Rows(o, d, s, n, end)
             raw == Raw(o, d, s, n)
             bits == RawBits(d, s, n)
             full == LearnedBits(o, d, s, n, end)
             hb == HeaderBytes[d.family]
  <1>0. Described(d)
    BY DEF TransportOK
  <1>1. StackFacts(s, ls, d, n)
    <2>1. ls \in Seq(Layers)
      BY DEF OuterOK
    <2>2. QED
      BY <1>0, <2>1, StackIs
  <1>2. /\ n \in Nat /\ end \in Nat
        /\ \A i \in 1 .. n + 2 :
              /\ a(i) \in Nat /\ a(i) <= end /\ s[i].bytes \in Nat \ {0}
              /\ Total(s, PayloadOf(d), i) = end - a(i)
        /\ \A i \in 1 .. n + 1 : a(i + 1) = a(i) + s[i].bytes
        /\ a(1) = 0
    <2>1. RowFacts(o, d, s, n, end)
      BY <1>0, RowsAreTable
    <2>2. QED
      BY <1>1, <2>1 DEF RowFacts, StackFacts
  <1>3. end < U16
    <2>1. Total(s, PayloadOf(d), 1) = end
      BY <1>2
    <2>2. QED
      BY <2>1 DEF Sensible
  <1>4. /\ o.ip + IpBytes(d) = end /\ p.ip = IpBytes(d)
        /\ a(n + 1) = o.ip /\ a(n + 2) = o.ip + hb
        /\ hb \in Nat /\ L4Bytes(d) \in Nat /\ o.ip \in Nat
    <2>1. hb \in Nat /\ L4Bytes(d) \in Nat /\ o.ip \in Nat
      BY <1>0 DEF Described, OuterOK, TransportOK
    <2>2. p.ip = IpBytes(d)
      BY <1>0 DEF TransportOK, Packet
    <2>3. o.ip + IpBytes(d) = end
      BY <1>0, <2>1 DEF IpBytes, EndOf
    <2>4. a(n + 1) = o.ip /\ a(n + 2) = o.ip + hb
      BY <1>0, <1>2 DEF Places
    <2>5. QED
      BY <2>1, <2>2, <2>3, <2>4
  <1>5. PICK joined : joined = Joined(o, p)
    OBVIOUS
  <1>6. joined = Packet(end, IpBytes(d), raw, bits, o.ip)
    BY <1>4, <1>5, JoinedIs
  <1>7. PICK len : len = n + 2
    OBVIOUS
  <1>8. Len(raw) = len
    BY <1>2, <1>7 DEF Raw
  <1> DEFINE g == [i \in 1 .. n + 2 |-> [header |-> rows[i], field |-> full[i]]]
  <1>9. ASSUME NEW i \in 1 .. n + 1
        PROVE  Finish(raw[i], bits[i], rows[i + 1]) = [header |-> rows[i], field |-> full[i]]
    <2>0. i \in 1 .. n + 2 /\ i + 1 \in 1 .. n + 2
      BY <1>2
    <2>m. PICK t, m, inside : t = s[i].type /\ m = s[i].bytes /\ inside = s[i + 1].type
      OBVIOUS
    <2>b. m \in Nat
      BY <1>2, <2>0, <2>m
    <2>1. t = s[i].type /\ m = s[i].bytes /\ inside = s[i + 1].type /\ m \in Nat
      BY <2>m, <2>b
    <2>2. PICK rest \in Nat, reach \in Nat : rest = end - a(i + 1) /\ reach = end - a(i)
      <3>1. end - a(i + 1) \in Nat /\ end - a(i) \in Nat
        <4>1. PICK x \in Nat, y \in Nat : x = a(i) /\ y = a(i + 1) /\ x <= end /\ y <= end
          BY <1>2, <2>0
        <4>2. QED
          BY <1>2, <4>1
      <3>2. QED
        BY <3>1
    <2>3. m + rest = reach /\ reach < U16
      <3>1. a(i + 1) = a(i) + m /\ a(i) \in Nat
        BY <1>2, <2>1
      <3>2. U16 \in Nat
        BY DEF U16
      <3>3. PICK x \in Nat : x = a(i) /\ a(i + 1) = x + m
        BY <3>1
      <3>4. rest = end - (x + m) /\ reach = end - x
        BY <2>2, <3>3
      <3>5. end \in Nat /\ m \in Nat
        BY <1>2, <2>1
      <3>6. m + (end - (x + m)) = end - x /\ end - x < U16
        BY <1>3, <3>2, <3>5
      <3>7. QED
        BY <3>4, <3>6
    <2>4. PICK next, f : next = rows[i + 1] /\ f = bits[i]
      OBVIOUS
    <2>5. next.total = rest /\ next.type = inside
      BY <1>2, <2>1, <2>2, <2>4 DEF Rows, Row
    <2>6. /\ t \in IpTypes \cup {"GRE", "MPLS"}
          /\ t \in IpTypes => m = HeaderBytes[t]
          /\ Unfinished(f, t, m)
      <3>1. CASE i \in 1 .. n
        <4>1. t = ls[i].type /\ m = ls[i].bytes
          BY <1>1, <2>1, <3>1 DEF StackFacts
        <4>2. f = Fields(t, m)
          BY <1>2, <2>1, <2>4, <3>1 DEF RawBits
        <4>3. f = AField(t, m, f.tot, f.proto, NoSum)
          BY <4>2 DEF Fields, AField
        <4>4. QED
          BY <3>1, <4>1, <4>2, <4>3 DEF Unfinished, OuterOK
      <3>2. CASE i = n + 1
        <4>1. t = d.family /\ m = hb
          BY <1>1, <2>1, <3>2 DEF StackFacts
        <4>2. f = IpField(d)
          BY <1>2, <2>4, <3>2 DEF RawBits
        <4>3. f = AField(t, m, f.tot, f.proto, NoSum)
          BY <4>1, <4>2 DEF IpField, AField
        <4>4. QED
          BY <1>0, <4>1, <4>3 DEF Unfinished, Described
      <3>3. QED
        BY <1>2, <3>1, <3>2
    <2>7. Follows(t, inside)
      <3>1. Len(s) - 1 = n + 1
        BY <1>1, <1>2 DEF StackFacts
      <3>2. QED
        BY <2>1, <3>1 DEF Sensible, Expressible
    <2>8. PICK at0, total : raw[i] = Row(t, at0, m, total) /\ at0 = a(i)
      <3>1. raw[i] = Row(s[i].type, a(i), s[i].bytes,
                         IF i <= n THEN 0 ELSE IF i = n + 1 THEN IpBytes(d) % U16 ELSE L4Bytes(d))
        BY <2>0 DEF Raw
      <3>2. QED
        BY <2>1, <3>1
    <2>9. Finish(Row(t, at0, m, total), f, next) =
            [header |-> Row(t, at0, m, reach), field |-> Learned(t, m, reach, inside)]
      <3>1. InFront(t, m, f, next, reach, inside)
        BY <2>1, <2>2, <2>3, <2>5, <2>6, <2>7 DEF InFront
      <3>2. QED
        BY <3>1, FinishLearns
    <2>10. rows[i] = Row(t, at0, m, reach)
      BY <1>2, <2>1, <2>2, <2>8 DEF Rows
    <2>11. full[i] = Learned(t, m, reach, inside)
      BY <1>2, <2>1, <2>2 DEF LearnedBits
    <2>12. QED
      BY <2>4, <2>8, <2>9, <2>10, <2>11, ZenonT(40)
  <1>10. rows[n + 2] = raw[n + 2] /\ full[n + 2] = bits[n + 2]
    <2>1. end - a(n + 2) = L4Bytes(d)
      BY <1>4 DEF EndOf
    <2>2. rows[n + 2] = raw[n + 2]
      BY <1>2, <2>1 DEF Rows, Raw
    <2>3. full[n + 2] = bits[n + 2]
      BY <1>2 DEF LearnedBits, RawBits
    <2>4. QED
      BY <2>2, <2>3
  <1>11. joined.headers = raw /\ joined.bits = bits /\ Len(joined.headers) = n + 2
    BY <1>6, <1>7, <1>8 DEF Packet
  <1> HIDE DEF rows, raw, bits, full
  <1>12. AllFinished(joined, g)
    <2>1. Len(joined.headers) \in Nat \ {0}
      BY <1>2, <1>11
    <2>2. g[n + 2] = [header |-> raw[n + 2], field |-> bits[n + 2]]
      BY <1>2, <1>10
    <2>3. \A i \in 1 .. n + 1 : g[i] = Finish(raw[i], bits[i], g[i + 1].header)
      <3> SUFFICES ASSUME NEW i \in 1 .. n + 1 PROVE g[i] = Finish(raw[i], bits[i], g[i + 1].header)
        OBVIOUS
      <3>1. g[i] = [header |-> rows[i], field |-> full[i]] /\ g[i + 1].header = rows[i + 1]
        BY <1>2
      <3>2. QED
        BY <1>9, <3>1
    <2>4. (n + 2) - 1 = n + 1
      BY <1>2
    <2> HIDE DEF g
    <2>5. QED
      BY <1>11, <2>1, <2>2, <2>3, <2>4 DEF AllFinished
  <1>13. /\ [i \in 1 .. len |-> g[i].header] = rows
         /\ [i \in 1 .. len |-> g[i].field] = full
    <2>1. rows = [i \in 1 .. n + 2 |-> rows[i]]
      BY DEF rows, Rows
    <2>2. full = [i \in 1 .. n + 2 |-> full[i]]
      BY DEF full, LearnedBits
    <2>3. [i \in 1 .. len |-> g[i].header] = [i \in 1 .. n + 2 |-> rows[i]]
      BY <1>7
    <2>4. [i \in 1 .. len |-> g[i].field] = [i \in 1 .. n + 2 |-> full[i]]
      BY <1>7
    <2>5. QED
      BY <2>1, <2>2, <2>3, <2>4
  <1> HIDE DEF g
  <1>14. FinishHeaders(joined) = Packet(end, IpBytes(d), rows, full, o.ip)
    <2>1. joined = Packet(end, IpBytes(d), raw, bits, o.ip)
      BY <1>6 DEF raw, bits
    <2>2. AllFinished(Packet(end, IpBytes(d), raw, bits, o.ip), g)
      BY <1>12, <2>1, ZenonT(40)
    <2>3. FinishHeaders(Packet(end, IpBytes(d), raw, bits, o.ip)) =
            Packet(end, IpBytes(d), [i \in 1 .. Len(raw) |-> g[i].header],
                   [i \in 1 .. Len(raw) |-> g[i].field], o.ip)
      BY <2>2, FinishedPacket
    <2>4. QED
      BY <1>8, <1>13, <2>1, <2>3, ZenonT(40) DEF raw
  <1>15. PICK q : q = FinishHeaders(joined)
    OBVIOUS
  <1>16. Encapsulated(o, p) = [q EXCEPT !.ip = end]
    BY <1>4, <1>5, <1>15 DEF Encapsulated
  <1>17. [q EXCEPT !.ip = end] = Packet(end, end, rows, full, o.ip)
    BY <1>14, <1>15 DEF Packet
  <1>18. QED
    BY <1>16, <1>17, ZenonT(40) DEF rows, full

-----------------------------------------------------------------------------
(* The packet that is built, and the datagram that is injected.            *)

\* Everything is filled in but the checksums of the innermost two headers
IpTot(d, n) == IF d.family = "IPV4" THEN n ELSE n - 40
AsBuilt(e, o, d, s, n, end) ==
    /\ e = Packet(end, end, Rows(o, d, s, n, end), e.bits, o.ip)
    /\ e.bits = [i \in 1 .. n + 2 |-> e.bits[i]]
    /\ \A i \in 1 .. n :
          e.bits[i] = Learned(s[i].type, s[i].bytes, end - Places(o, d, n, i), s[i + 1].type)
    /\ e.bits[n + 1] = AField(d.family, HeaderBytes[d.family], IpTot(d, end - o.ip), L4Type(d),
                              e.bits[n + 1].sum)
    /\ d.family = "IPV6" => e.bits[n + 1].sum = NoSum
    /\ e.bits[n + 2] = L4Field(d)

LEMMA EncapsulateBuilds ==
  ASSUME NEW o, NEW ls, OuterOK(o, ls), NEW p, NEW d, TransportOK(p, d),
         NEW n, n = Len(ls), NEW s, s = StackOf(ls, d), Sensible(s, PayloadOf(d)),
         NEW end, end = EndOf(o, d)
  PROVE  AsBuilt(IF n = 0 THEN p ELSE Encapsulated(o, p), o, d, s, n, end)
  <1> DEFINE hb == HeaderBytes[d.family]
  <1>0. Described(d)
    BY DEF TransportOK
  <1>1. StackFacts(s, ls, d, n) /\ RowFacts(o, d, s, n, end)
    <2>1. ls \in Seq(Layers)
      BY DEF OuterOK
    <2>2. QED
      BY <1>0, <2>1, StackIs, RowsAreTable
  <1>2. /\ n \in Nat /\ end \in Nat /\ o.ip \in Nat /\ hb \in Nat /\ L4Bytes(d) \in Nat
        /\ end = o.ip + hb + L4Bytes(d) /\ IpBytes(d) = hb + L4Bytes(d)
        /\ d.family \in IpTypes
    BY <1>0, <1>1 DEF StackFacts, RowFacts, OuterOK, Described, EndOf, IpBytes
  <1>3. end < U16
    <2>1. Total(s, PayloadOf(d), 1) = end
      <3>1. 1 \in 1 .. n + 2
        BY <1>2
      <3>2. Total(s, PayloadOf(d), 1) = end - Places(o, d, n, 1) /\ Places(o, d, n, 1) = 0
        BY <1>1, <3>1 DEF RowFacts
      <3>3. QED
        BY <1>2, <3>2
    <2>2. QED
      BY <2>1 DEF Sensible
  <1>4. /\ s[n + 1].type = d.family /\ s[n + 1].bytes = hb
        /\ s[n + 2].type = L4Type(d) /\ s[n + 2].bytes = L4Header(d)
    BY <1>1 DEF StackFacts
  <1>5. Places(o, d, n, n + 1) = o.ip /\ Places(o, d, n, n + 2) = o.ip + hb
    BY <1>2 DEF Places
  <1>6. CASE n = 0
    <2> DEFINE r1 == Row(d.family, 0, hb, IpBytes(d) % U16)
               r2 == Row(L4Type(d), hb, L4Header(d), L4Bytes(d))
    <2>1. o.ip = 0 /\ end = IpBytes(d)
      <3>1. o.ip = 0
        BY <1>6 DEF OuterOK
      <3>2. QED
        BY <1>2, <3>1
    <2>2. end % U16 = end
      BY <1>2, <1>3, SmallNumbers
    <2>3. p = Packet(end, end, <<r1, r2>>, <<IpField(d), L4Field(d)>>, 0)
      BY <2>1 DEF TransportOK
    <2>4. Rows(o, d, s, n, end) = <<r1, r2>>
      <3>1. Rows(o, d, s, n, end) = [i \in 1 .. 2 |-> Rows(o, d, s, n, end)[i]]
        BY <1>6 DEF Rows
      <3>2. Rows(o, d, s, n, end)[1] = Row(d.family, 0, hb, end)
        <4>1. end - Places(o, d, n, 1) = end /\ Places(o, d, n, 1) = 0
          BY <1>2, <1>5, <1>6, <2>1
        <4>2. s[1].type = d.family /\ s[1].bytes = hb
          BY <1>4, <1>6
        <4>3. 1 \in 1 .. n + 2
          BY <1>6
        <4>4. QED
          BY <4>1, <4>2, <4>3 DEF Rows
      <3>3. Rows(o, d, s, n, end)[2] = r2
        <4>1. end - Places(o, d, n, 2) = L4Bytes(d) /\ Places(o, d, n, 2) = hb
          BY <1>2, <1>5, <1>6, <2>1
        <4>2. s[2].type = L4Type(d) /\ s[2].bytes = L4Header(d)
          BY <1>4, <1>6
        <4>3. 2 \in 1 .. n + 2
          BY <1>6
        <4>4. QED
          BY <4>1, <4>2, <4>3 DEF Rows
      <3>4. r1 = Row(d.family, 0, hb, end)
        BY <2>1, <2>2
      <3> HIDE DEF r1, r2
      <3>5. QED
        BY <3>1, <3>2, <3>3, <3>4
    <2>5. /\ p.bits = <<IpField(d), L4Field(d)>>
          /\ p = Packet(end, end, Rows(o, d, s, n, end), p.bits, o.ip)
      BY <2>1, <2>3, <2>4 DEF Packet
    <2>6. IpField(d) = AField(d.family, hb, IpTot(d, end - o.ip), L4Type(d), NoSum)
      <3>1. end - o.ip = end /\ IpBytes(d) % U16 = end
        BY <1>2, <2>1, <2>2
      <3>2. QED
        BY <3>1 DEF IpField, IpTot
    <2>7. IpField(d).sum = NoSum
      BY <2>6 DEF AField
    <2>8. p.bits[1] = IpField(d) /\ p.bits[2] = L4Field(d) /\ p.bits = [i \in 1 .. 2 |-> p.bits[i]]
      BY <2>5
    <2>9. 1 .. n = {} /\ n + 1 = 1 /\ n + 2 = 2
      BY <1>6
    <2>10. AsBuilt(p, o, d, s, n, end)
      BY <2>5, <2>6, <2>7, <2>8, <2>9 DEF AsBuilt
    <2>11. QED
      BY <1>6, <2>10
  <1>7. CASE n # 0
    <2>1. PICK e : e = Encapsulated(o, p)
      OBVIOUS
    <2>2. e = Packet(end, end, Rows(o, d, s, n, end), LearnedBits(o, d, s, n, end), o.ip)
      BY <2>1, EncapsulatedIs
    <2>3. e.bits = LearnedBits(o, d, s, n, end)
      BY <2>2 DEF Packet
    <2>4. \A i \in 1 .. n + 1 :
             e.bits[i] = Learned(s[i].type, s[i].bytes, end - Places(o, d, n, i), s[i + 1].type)
      BY <1>2, <2>3 DEF LearnedBits
    <2>5. e.bits[n + 2] = L4Field(d) /\ e.bits = [i \in 1 .. n + 2 |-> e.bits[i]]
      BY <1>2, <2>3 DEF LearnedBits
    <2>6. e.bits[n + 1] = Learned(d.family, hb, end - o.ip, L4Type(d))
      <3>1. n + 1 \in 1 .. n + 1 /\ (n + 1) + 1 = n + 2
        BY <1>2
      <3>2. QED
        BY <1>4, <1>5, <2>4, <3>1
    <2>7. /\ e.bits[n + 1] = AField(d.family, hb, IpTot(d, end - o.ip), L4Type(d), e.bits[n + 1].sum)
          /\ d.family = "IPV6" => e.bits[n + 1].sum = NoSum
      <3>1. PICK b : b = e.bits[n + 1]
        OBVIOUS
      <3>2. CASE d.family = "IPV4"
        <4>1. b = AField(d.family, hb, end - o.ip, L4Type(d), <<end - o.ip, L4Type(d)>>)
          BY <2>6, <3>1, <3>2, Ipv4Learns
        <4>2. b.sum = <<end - o.ip, L4Type(d)>>
          BY <4>1 DEF AField
        <4>3. QED
          BY <3>1, <3>2, <4>1, <4>2 DEF IpTot
      <3>3. CASE d.family = "IPV6"
        <4>1. b = AField(d.family, hb, (end - o.ip) - 40, L4Type(d), NoSum)
          BY <2>6, <3>1, <3>3, Ipv6Learns
        <4>2. b.sum = NoSum
          BY <4>1 DEF AField
        <4>3. QED
          BY <3>1, <3>3, <4>1, <4>2 DEF IpTot
      <3>4. QED
        BY <1>2, <3>2, <3>3 DEF IpTypes
    <2>8. AsBuilt(e, o, d, s, n, end)
      <3>1. \A i \in 1 .. n : i \in 1 .. n + 1
        BY <1>2
      <3>2. QED
        BY <2>2, <2>3, <2>4, <2>5, <2>7, <3>1 DEF AsBuilt
    <2>9. QED
      BY <1>7, <2>1, <2>8
  <1>8. QED
    BY <1>6, <1>7

\* checksum_packet() fills in what is missing
LEMMA ChecksummedIs ==
  ASSUME NEW o, NEW ls, OuterOK(o, ls), NEW d, Described(d),
         NEW n, n = Len(ls), NEW s, s = StackOf(ls, d), Sensible(s, PayloadOf(d)),
         NEW end, end = EndOf(o, d), NEW e, AsBuilt(e, o, d, s, n, end)
  PROVE  /\ Checksummed(e).bits = Encoding(s, PayloadOf(d)) /\ e.ip = Total(s, PayloadOf(d), 1)
         /\ e.headers = Table(s, PayloadOf(d), 0) /\ e.l3 = Offset(s, Len(s) - 1)
  <1> DEFINE hb == HeaderBytes[d.family]
             rows == Rows(o, d, s, n, end)
             a(i) == Places(o, d, n, i)
  <1>1. StackFacts(s, ls, d, n) /\ RowFacts(o, d, s, n, end)
    <2>1. ls \in Seq(Layers)
      BY DEF OuterOK
    <2>2. QED
      BY <2>1, StackIs, RowsAreTable
  <1>2. /\ n \in Nat /\ end \in Nat /\ o.ip \in Nat /\ hb \in Nat \ {0} /\ L4Bytes(d) \in Nat
        /\ end = o.ip + hb + L4Bytes(d)
        /\ d.family \in IpTypes /\ L4Type(d) \in L4Types
    BY <1>1 DEF StackFacts, RowFacts, OuterOK, Described, EndOf
  <1>3. e.headers = rows /\ e.ip = end /\ e.l3 = o.ip
    BY DEF AsBuilt, Packet
  <1>4. a(n + 1) = o.ip /\ a(n + 2) = o.ip + hb
    BY <1>2 DEF Places
  <1>5. /\ s[n + 1].type = d.family /\ s[n + 1].bytes = hb
        /\ s[n + 2].type = L4Type(d) /\ s[n + 2].bytes = L4Header(d)
        /\ Len(s) = n + 2 /\ DOMAIN s = 1 .. n + 2
    BY <1>1 DEF StackFacts
  <1>6. Total(s, PayloadOf(d), 1) = end
    <2>1. 1 \in 1 .. n + 2
      BY <1>2
    <2>2. Total(s, PayloadOf(d), 1) = end - a(1) /\ a(1) = 0
      BY <1>1, <2>1 DEF RowFacts
    <2>3. QED
      BY <1>2, <2>2
  <1>7. end < U16
    BY <1>6 DEF Sensible
  <1>8. PICK lb : lb = L4Bytes(d)
    OBVIOUS
  <1>9. lb \in Nat /\ lb < U16 /\ end - o.ip - hb = lb /\ end - o.ip = hb + lb
    <2>1. U16 \in Nat
      BY DEF U16
    <2>2. QED
      BY <1>2, <1>7, <1>8, <2>1
  <1>10. Innermost(e) = n + 1
    <2>1. DOMAIN e.headers = 1 .. n + 2 /\ \A i \in 1 .. n + 2 : e.headers[i].at = a(i)
      BY <1>3 DEF Rows, Row
    <2>2. n + 1 \in 1 .. n + 2
      BY <1>2
    <2>3. ASSUME NEW i \in 1 .. n + 2, i # n + 1
          PROVE  a(i) # o.ip
      <3>1. CASE i \in 1 .. n
        <4>1. a(i) \in Nat /\ a(i) < o.ip
          BY <1>1, <2>3, <3>1 DEF RowFacts
        <4>2. QED
          BY <1>2, <4>1
      <3>2. CASE i = n + 2
        BY <1>2, <1>4, <3>2
      <3>3. QED
        BY <1>2, <2>3, <3>1, <3>2
    <2> HIDE DEF rows
    <2>4. \A i \in DOMAIN e.headers : (e.headers[i].at = e.l3) <=> (i = n + 1)
      BY <1>3, <1>4, <2>1, <2>2, <2>3
    <2>5. n + 1 \in DOMAIN e.headers
      BY <2>1, <2>2
    <2>6. QED
      BY <2>4, <2>5 DEF Innermost
  <1>11. PICK k, f : k = n + 1 /\ f = e.bits[n + 1]
    OBVIOUS
  <1>12. /\ f = AField(d.family, hb, IpTot(d, end - o.ip), L4Type(d), f.sum)
         /\ d.family = "IPV6" => f.sum = NoSum
    BY <1>11 DEF AsBuilt
  <1>13. /\ f.type = d.family /\ f.tot = IpTot(d, end - o.ip) /\ f.proto = L4Type(d) /\ f.bytes = hb
    <2>1. PICK sum : f = AField(d.family, hb, IpTot(d, end - o.ip), L4Type(d), sum)
      BY <1>12
    <2>2. QED
      BY <2>1 DEF AField
  <1>14. CarriedBytes(e) = lb
    <2>1. CarriedBytes(e) = IF f.type = "IPV4" THEN f.tot - f.bytes ELSE f.tot
      BY <1>10, <1>11 DEF CarriedBytes
    <2>2. CASE d.family = "IPV4"
      BY <1>9, <1>13, <2>1, <2>2 DEF IpTot
    <2>3. CASE d.family = "IPV6"
      <3>1. hb = 40
        BY <2>3, BytesOfHeaders
      <3>2. QED
        BY <1>9, <1>13, <2>1, <2>3, <3>1 DEF IpTot
    <2>4. QED
      BY <1>2, <2>2, <2>3 DEF IpTypes
  <1>15. PICK sum1, sum2 : /\ sum1 = IF f.type = "IPV4" THEN <<f.tot, f.proto>> ELSE f.sum
                           /\ sum2 = <<lb, f.proto>>
    OBVIOUS
  <1>16. PICK b : b = e.bits
    OBVIOUS
  <1>17. Checksummed(e) = [e EXCEPT !.bits[k].sum = sum1, !.bits[k + 1].sum = sum2]
    BY <1>10, <1>11, <1>14, <1>15 DEF Checksummed
  <1>18. PICK x, y : x = [f EXCEPT !.sum = sum1] /\ y = [L4Field(d) EXCEPT !.sum = sum2]
    OBVIOUS
  <1>19. Checksummed(e).bits = [[b EXCEPT ![k] = x] EXCEPT ![k + 1] = y]
    <2>1. b[k] = f /\ b[k + 1] = L4Field(d) /\ k # k + 1
      <3>1. k + 1 = n + 2 /\ k # k + 1
        BY <1>2, <1>11
      <3>2. e.bits[n + 2] = L4Field(d)
        BY DEF AsBuilt
      <3>3. QED
        BY <1>11, <1>16, <3>1, <3>2
    <2>2. PICK hs : e = Packet(end, end, hs, b, o.ip)
      BY <1>16 DEF AsBuilt
    <2>3. PICK e1 : e1 = [e EXCEPT !.bits[k].sum = sum1]
      OBVIOUS
    <2>4. PICK b1 : b1 = [b EXCEPT ![k] = x]
      OBVIOUS
    <2>5. e1 = Packet(end, end, hs, b1, o.ip)
      BY <1>18, <2>1, <2>2, <2>3, <2>4 DEF Packet
    <2>6. b1[k + 1] = L4Field(d)
      BY <2>1, <2>4
    <2>7. PICK e2 : e2 = [e1 EXCEPT !.bits[k + 1].sum = sum2]
      OBVIOUS
    <2>8. e2.bits = [b1 EXCEPT ![k + 1] = y]
      BY <1>18, <2>5, <2>6, <2>7 DEF Packet
    <2>9. [e EXCEPT !.bits[k].sum = sum1, !.bits[k + 1].sum = sum2]
            = [[e EXCEPT !.bits[k].sum = sum1] EXCEPT !.bits[k + 1].sum = sum2]
      OBVIOUS
    <2>10. QED
      BY <1>17, <2>3, <2>4, <2>7, <2>8, <2>9
  <1>20. x = Learned(d.family, hb, end - o.ip, L4Type(d))
    <2>1. PICK tot, proto, sum : /\ tot = IpTot(d, end - o.ip) /\ proto = L4Type(d)
                                 /\ f = AField(d.family, hb, tot, proto, sum) /\ sum = f.sum
      BY <1>12
    <2>2. x = AField(d.family, hb, tot, proto, sum1)
      BY <1>18, <2>1 DEF AField
    <2>3. CASE d.family = "IPV4"
      <3>1. sum1 = <<end - o.ip, L4Type(d)>> /\ tot = end - o.ip
        BY <1>13, <1>15, <2>1, <2>3 DEF IpTot
      <3>2. QED
        BY <2>1, <2>2, <2>3, <3>1, Ipv4Learns
    <2>4. CASE d.family = "IPV6"
      <3>1. sum1 = NoSum /\ tot = (end - o.ip) - 40
        BY <1>12, <1>13, <1>15, <2>1, <2>4 DEF IpTot
      <3>2. QED
        BY <2>1, <2>2, <2>4, <3>1, Ipv6Learns
    <2>5. QED
      BY <1>2, <2>3, <2>4 DEF IpTypes
  <1>21. y = Learned(L4Type(d), L4Header(d), lb, None)
    <2>1. lb % U16 = lb
      BY <1>9, SmallNumbers
    <2>2. PICK tot : tot = IF L4Type(d) = "UDP" THEN lb ELSE 0
      OBVIOUS
    <2>3. L4Field(d) = AField(L4Type(d), L4Header(d), tot, None, NoSum)
      BY <1>8, <2>1, <2>2 DEF L4Field
    <2>4. y = AField(L4Type(d), L4Header(d), tot, None, sum2)
      BY <1>18, <2>3 DEF AField
    <2>5. sum2 = <<lb, L4Type(d)>>
      BY <1>13, <1>15
    <2>6. QED
      BY <1>2, <2>2, <2>4, <2>5, TransportLearns
  <1>22. DOMAIN b = 1 .. n + 2 /\ b = [i \in 1 .. n + 2 |-> b[i]]
    BY <1>16 DEF AsBuilt
  <1>23. ASSUME NEW i \in 1 .. n + 2
         PROVE  [[b EXCEPT ![k] = x] EXCEPT ![k + 1] = y][i] = Encoding(s, PayloadOf(d))[i]
    <2>1. PICK total, inside : /\ total = Total(s, PayloadOf(d), i)
                               /\ inside = IF i = Len(s) THEN None ELSE s[i + 1].type
      OBVIOUS
    <2>2. Encoding(s, PayloadOf(d))[i] = Learned(s[i].type, s[i].bytes, total, inside)
      BY <1>5, <2>1, EncodingIs
    <2>3. total = end - a(i)
      BY <1>1, <2>1 DEF RowFacts
    <2>4. CASE i \in 1 .. n
      <3>1. [[b EXCEPT ![k] = x] EXCEPT ![k + 1] = y][i] = b[i]
        BY <1>2, <1>11, <1>22, <2>4
      <3>2. b[i] = Learned(s[i].type, s[i].bytes, end - a(i), s[i + 1].type)
        BY <1>16, <2>4 DEF AsBuilt
      <3>3. inside = s[i + 1].type
        BY <1>2, <1>5, <2>1, <2>4
      <3>4. QED
        BY <2>2, <2>3, <3>1, <3>2, <3>3, ZenonT(40)
    <2>5. CASE i = n + 1
      <3>1. [[b EXCEPT ![k] = x] EXCEPT ![k + 1] = y][i] = x
        BY <1>2, <1>11, <1>22, <2>5
      <3>2. inside = L4Type(d) /\ total = end - o.ip
        BY <1>2, <1>4, <1>5, <2>1, <2>3, <2>5
      <3>3. s[i].type = d.family /\ s[i].bytes = hb
        BY <1>5, <2>5
      <3>4. QED
        BY <1>20, <2>2, <3>1, <3>2, <3>3, ZenonT(40)
    <2>6. CASE i = n + 2
      <3>1. [[b EXCEPT ![k] = x] EXCEPT ![k + 1] = y][i] = y
        BY <1>2, <1>11, <1>22, <2>6
      <3>2. inside = None /\ total = lb
        BY <1>2, <1>4, <1>5, <1>9, <2>1, <2>3, <2>6
      <3>3. s[i].type = L4Type(d) /\ s[i].bytes = L4Header(d)
        BY <1>5, <2>6
      <3>4. QED
        BY <1>21, <2>2, <3>1, <3>2, <3>3, ZenonT(40)
    <2>7. QED
      BY <1>2, <2>4, <2>5, <2>6
  <1>24. Checksummed(e).bits = Encoding(s, PayloadOf(d))
    <2>1. PICK c : c = [[b EXCEPT ![k] = x] EXCEPT ![k + 1] = y]
      OBVIOUS
    <2>2. c = [i \in 1 .. n + 2 |-> c[i]]
      BY <1>22, <2>1
    <2>3. PICK enc : enc = Encoding(s, PayloadOf(d))
      OBVIOUS
    <2>4. enc = [i \in 1 .. n + 2 |-> enc[i]]
      BY <1>5, <2>3 DEF Encoding
    <2>5. \A i \in 1 .. n + 2 : c[i] = enc[i]
      BY <1>23, <2>1, <2>3
    <2>6. c = enc
      BY <2>2, <2>4, <2>5
    <2>7. QED
      BY <1>19, <2>1, <2>3, <2>6, ZenonT(40)
  <1>25. e.l3 = Offset(s, Len(s) - 1)
    <2>1. n + 1 \in 1 .. n + 2 /\ Len(s) - 1 = n + 1
      BY <1>2, <1>5
    <2>2. QED
      BY <1>1, <1>3, <1>4, <2>1 DEF RowFacts
  <1>26. e.headers = Table(s, PayloadOf(d), 0)
    BY <1>1, <1>3 DEF RowFacts
  <1>27. QED
    BY <1>3, <1>6, <1>24, <1>25, <1>26

-----------------------------------------------------------------------------
(* From the description to the datagram, step by step.                     *)

LEMMA NoHeaders == OuterOK(PacketNew(PACKET_MAX_HEADER_BYTES), <<>>)
  <1>1. PICK o : o = PacketNew(PACKET_MAX_HEADER_BYTES)
    OBVIOUS
  <1>2. /\ o = Packet(o.buf, o.ip, o.headers, o.bits, o.l3)
        /\ o.ip = 0 /\ o.headers = <<>> /\ o.bits = <<>>
    BY <1>1 DEF PacketNew, Packet
  <1>3. PICK none : none = <<>> /\ none \in Seq(Layers) /\ Len(none) = 0
    <2>1. <<>> \in Seq(Layers) /\ Len(<<>>) = 0
      OBVIOUS
    <2>2. QED
      BY <2>1
  <1>4. [i \in 1 .. Len(none) |-> Row(none[i].type, o.headers[i].at, none[i].bytes, 0)] = <<>>
    BY <1>3
  <1>5. [i \in 1 .. Len(none) |-> Fields(none[i].type, none[i].bytes)] = <<>>
    BY <1>3
  <1>6. OuterOK(o, none)
    BY <1>2, <1>3, <1>4, <1>5 DEF OuterOK
  <1>7. QED
    BY <1>1, <1>3, <1>6

\* ipv4_header_append() and its kin
LEMMA AppendKeepsOuter ==
  ASSUME NEW o, NEW ls, OuterOK(o, ls), NEW t \in IpTypes \cup {"GRE", "MPLS"}, NEW m \in Nat \ {0},
         t \in IpTypes => m = HeaderBytes[t]
  PROVE  OuterOK([AppendHeader(o, t, m, 0) EXCEPT !.bits = Append(@, Fields(t, m))],
                 Append(ls, [type |-> t, bytes |-> m]))
  <1>1. PICK n \in Nat : n = Len(ls) /\ DOMAIN ls = 1 .. n /\ ls \in Seq(Layers)
    BY DEF OuterOK
  <1>2. PICK x \in Layers : x = [type |-> t, bytes |-> m] /\ x.type = t /\ x.bytes = m
    <2>1. [type |-> t, bytes |-> m] \in Layers
      BY DEF Layers, HeaderTypes
    <2>2. QED
      BY <2>1
  <1>3. PICK ms \in Seq(Layers) : ms = Append(ls, x)
    <2>1. Append(ls, x) \in Seq(Layers)
      BY <1>1, <1>2, AppendProperties, ZenonT(40)
    <2>2. QED
      BY <2>1
  <1>4. Len(ms) = n + 1 /\ (\A i \in 1 .. n : ms[i] = ls[i]) /\ ms[n + 1] = x
    BY <1>1, <1>3
  <1>5. PICK ip \in Nat : ip = o.ip
    BY DEF OuterOK
  <1>6. PICK row, hs : row = Row(t, ip, m, 0) /\ hs = Append(o.headers, row)
    OBVIOUS
  <1>7. PICK fs : fs = Append(o.bits, Fields(t, m))
    OBVIOUS
  <1>8. PICK q : q = [AppendHeader(o, t, m, 0) EXCEPT !.bits = Append(@, Fields(t, m))]
    OBVIOUS
  <1>9. q = Packet(o.buf, ip + m, hs, fs, o.l3)
    <2>1. o = Packet(o.buf, ip, o.headers, o.bits, o.l3)
      BY <1>5 DEF OuterOK
    <2>2. PICK p1 : p1 = AppendHeader(o, t, m, 0)
      OBVIOUS
    <2>3. p1 = Packet(o.buf, ip + m, hs, o.bits, o.l3)
      <3>1. PICK buf, h0, b0, l3, zero : /\ buf = o.buf /\ h0 = o.headers /\ b0 = o.bits
                                         /\ l3 = o.l3 /\ zero = 0
        OBVIOUS
      <3>2. AppendHeader(Packet(buf, ip, h0, b0, l3), t, m, zero) =
              Packet(buf, ip + m, Append(h0, Row(t, ip, m, zero)), b0, l3)
        BY Appended
      <3>3. QED
        BY <1>6, <2>1, <2>2, <3>1, <3>2
    <2>4. p1.bits = o.bits
      BY <2>3 DEF Packet
    <2>5. q = [p1 EXCEPT !.bits = fs]
      BY <1>7, <1>8, <2>2, <2>4
    <2>6. QED
      BY <2>3, <2>5 DEF Packet
  <1>10. q.ip = ip + m /\ q.headers = hs /\ q.bits = fs /\ q = Packet(q.buf, q.ip, q.headers, q.bits, q.l3)
    BY <1>9 DEF Packet
  <1>11. IsTuple(o.headers) /\ Len(o.headers) = n /\ IsTuple(o.bits) /\ Len(o.bits) = n
    BY <1>1 DEF OuterOK, IsTuple
  <1>a. hs = [i \in 1 .. n + 1 |-> hs[i]] /\ fs = [i \in 1 .. n + 1 |-> fs[i]]
    BY <1>6, <1>7, <1>11, AppendedIs
  <1>12. /\ \A i \in 1 .. n : hs[i] = o.headers[i]
         /\ hs[n + 1] = row
    BY <1>6, <1>11, AppendedIs
  <1>13. /\ \A i \in 1 .. n : fs[i] = o.bits[i]
         /\ fs[n + 1] = Fields(t, m)
    BY <1>7, <1>11, AppendedIs
  <1>14. ASSUME NEW i \in 1 .. n
         PROVE  /\ hs[i] = Row(ms[i].type, hs[i].at, ms[i].bytes, 0)
                /\ fs[i] = Fields(ms[i].type, ms[i].bytes)
    <2>1. /\ o.headers[i] = Row(ls[i].type, o.headers[i].at, ls[i].bytes, 0)
          /\ o.bits[i] = Fields(ls[i].type, ls[i].bytes)
      BY <1>1 DEF OuterOK
    <2>2. ms[i] = ls[i] /\ hs[i] = o.headers[i] /\ fs[i] = o.bits[i]
      BY <1>4, <1>12, <1>13
    <2>3. QED
      BY <2>1, <2>2, ZenonT(40)
  <1>15. hs[n + 1] = Row(ms[n + 1].type, hs[n + 1].at, ms[n + 1].bytes, 0) /\ hs[n + 1].at = ip
    <2>1. hs[n + 1] = Row(t, ip, m, 0) /\ ms[n + 1].type = t /\ ms[n + 1].bytes = m
      BY <1>2, <1>4, <1>6, <1>12, ZenonT(40)
    <2>2. hs[n + 1].at = ip
      BY <2>1 DEF Row
    <2>3. QED
      BY <2>1, <2>2
  <1>16. fs[n + 1] = Fields(ms[n + 1].type, ms[n + 1].bytes)
    BY <1>2, <1>4, <1>13
  <1>17. hs = [i \in 1 .. n + 1 |-> Row(ms[i].type, hs[i].at, ms[i].bytes, 0)]
    <2>1. \A i \in 1 .. n + 1 : hs[i] = Row(ms[i].type, hs[i].at, ms[i].bytes, 0)
      BY <1>14, <1>15
    <2>2. QED
      BY <1>a, <2>1, ZenonT(40)
  <1>18. fs = [i \in 1 .. n + 1 |-> Fields(ms[i].type, ms[i].bytes)]
    <2>1. \A i \in 1 .. n + 1 : fs[i] = Fields(ms[i].type, ms[i].bytes)
      BY <1>14, <1>16
    <2>2. QED
      BY <1>a, <2>1, ZenonT(40)
  <1>19. ASSUME NEW i \in 1 .. n + 1
         PROVE  /\ ms[i].type \in IpTypes \cup {"GRE", "MPLS"} /\ ms[i].bytes > 0
                /\ ms[i].type \in IpTypes => ms[i].bytes = HeaderBytes[ms[i].type]
                /\ hs[i].at \in Nat
                /\ hs[i].at + ms[i].bytes = IF i = n + 1 THEN q.ip ELSE hs[i + 1].at
                /\ hs[i].at + ms[i].bytes <= q.ip
    <2>1. CASE i \in 1 .. n
      <3>1. /\ ms[i] = ls[i] /\ hs[i] = o.headers[i] /\ i # n + 1
        BY <1>4, <1>12, <2>1
      <3>2. /\ ls[i].type \in IpTypes \cup {"GRE", "MPLS"} /\ ls[i].bytes > 0
            /\ ls[i].type \in IpTypes => ls[i].bytes = HeaderBytes[ls[i].type]
            /\ o.headers[i].at \in Nat
            /\ o.headers[i].at + ls[i].bytes = IF i = n THEN ip ELSE o.headers[i + 1].at
            /\ o.headers[i].at + ls[i].bytes <= ip
        BY <1>1, <1>5, <2>1 DEF OuterOK
      <3>3. ls[i].bytes \in Nat
        <4>1. ls[i] \in Layers
          BY <1>1, <2>1
        <4>2. QED
          BY <4>1 DEF Layers
      <3>4. hs[i + 1].at = IF i = n THEN ip ELSE o.headers[i + 1].at
        BY <1>12, <1>15, <2>1
      <3>5. PICK place \in Nat, bytes \in Nat : place = o.headers[i].at /\ bytes = ls[i].bytes
                                                /\ place + bytes <= ip
        BY <3>2, <3>3
      <3>6. place + bytes <= q.ip
        BY <1>10, <3>5
      <3>7. QED
        BY <3>1, <3>2, <3>4, <3>5, <3>6
    <2>2. CASE i = n + 1
      <3>1. ms[i].type = t /\ ms[i].bytes = m /\ hs[i].at = ip
        BY <1>2, <1>4, <1>15, <2>2
      <3>2. QED
        BY <1>10, <2>2, <3>1
    <2>3. QED
      BY <2>1, <2>2
  <1>20. hs[1].at = 0
    <2>1. CASE n = 0
      BY <1>1, <1>5, <1>15, <2>1 DEF OuterOK
    <2>2. CASE n # 0
      BY <1>1, <1>12, <2>2 DEF OuterOK
    <2>3. QED
      BY <2>1, <2>2
  <1>21. OuterOK(q, ms)
    <2>1. q.ip \in Nat /\ n + 1 # 0
      BY <1>10
    <2>2. QED
      BY <1>4, <1>10, <1>17, <1>18, <1>19, <1>20, <2>1 DEF OuterOK
  <1>22. QED
    BY <1>2, <1>3, <1>8, <1>21

\* A description is built up, finished, and injected
BuildOK(p, d, o, k, s) ==
    /\ p = "script" => /\ d = [outer |-> <<>>, inner |-> d.inner]
                       /\ o = PacketNew(PACKET_MAX_HEADER_BYTES)
    /\ p = "prefix" => /\ d = [outer |-> d.outer, inner |-> d.inner]
                       /\ OuterOK(o, d.outer) /\ TransportOK(k, d.inner)
    /\ p = "built" => /\ OuterOK(o, d.outer) /\ Described(d.inner)
                      /\ LET stack == StackOf(d.outer, d.inner) IN
                         Sensible(stack, PayloadOf(d.inner)) =>
                           AsBuilt(k, o, d.inner, stack, Len(d.outer), EndOf(o, d.inner))
    /\ p = "injected" =>
         LET stack == StackOf(d.outer, d.inner)
             n == PayloadOf(d.inner) IN
         Sensible(stack, n) =>
            /\ s.bits = Encoding(stack, n) /\ s.bytes = Total(stack, n, 1)
            /\ k.headers = Table(stack, n, 0) /\ k.l3 = Offset(stack, Len(stack) - 1)
Building == BuildOK(pc, desc, outer, pkt, sent)

Elsewhere == {"refused", "died", "receiving", "parsing", "drain", "returned"}
LEMMA ElsewhereIsOK ==
  \A p \in Elsewhere : \A d, o, k, s : BuildOK(p, d, o, k, s)
  BY DEF BuildOK, Elsewhere

LEMMA NewPacketGoesTo == \A d : NewPacket(d).pc \in {"refused", "died", "prefix"}
  <1> SUFFICES ASSUME NEW d PROVE NewPacket(d).pc \in {"refused", "died", "prefix"}
    OBVIOUS
  <1>1. \A f : Built(d, f).pc \in {"died", "prefix"}
    BY DEF Built
  <1>2. Refused.pc = "refused"
    BY DEF Refused
  <1>3. NewTcpPacket(d).pc \in {"refused", "died", "prefix"}
    BY <1>1, <1>2 DEF NewTcpPacket
  <1>4. NewUdpPacket(d).pc \in {"refused", "died", "prefix"}
    BY <1>1, <1>2 DEF NewUdpPacket
  <1>5. NewIcmpPacket(d).pc \in {"refused", "died", "prefix"}
    BY <1>1, <1>2 DEF NewIcmpPacket
  <1>6. QED
    BY <1>3, <1>4, <1>5 DEF NewPacket

LEMMA BeginBuilds ==
  ASSUME Building, NEW d \in Descriptions, Begin(d)
  PROVE  Building'
  <1> SUFFICES BuildOK(pc', desc', outer', pkt', sent')
    BY DEF Building
  <1>1. pc' \in {"refused", "died", "prefix"} /\ pc' = NewPacket(d).pc /\ pkt' = NewPacket(d).pkt
    BY NewPacketGoesTo DEF Begin
  <1>2. CASE pc' = "prefix"
    <2>1. outer' = PacketNew(PACKET_MAX_HEADER_BYTES) /\ desc = [outer |-> <<>>, inner |-> desc.inner]
      BY DEF Building, BuildOK, Begin
    <2>2. desc' = [outer |-> <<>>, inner |-> d]
      BY <2>1 DEF Begin
    <2>3. desc'.outer = <<>> /\ desc'.inner = d
      BY <2>2
    <2>4. TransportOK(pkt', desc'.inner)
      BY <1>1, <1>2, <2>3, NewPacketBuilds
    <2>5. OuterOK(outer', desc'.outer)
      BY <2>1, <2>3, NoHeaders
    <2>6. QED
      BY <1>2, <2>2, <2>3, <2>4, <2>5 DEF BuildOK
  <1>3. CASE pc' \in {"refused", "died"}
    BY <1>3, ElsewhereIsOK DEF Elsewhere
  <1>4. QED
    BY <1>1, <1>2, <1>3

LEMMA HeaderAppendBuilds ==
  ASSUME Building, NEW t \in IpTypes \cup {"GRE", "MPLS"}, NEW m \in Nat \ {0},
         t \in IpTypes => m = HeaderBytes[t], NEW legal, HeaderAppend(Fields(t, m), legal)
  PROVE  Building'
  <1> SUFFICES BuildOK(pc', desc', outer', pkt', sent')
    BY DEF Building
  <1>1. PICK f : f = Fields(t, m)
    OBVIOUS
  <1>2. f.type = t /\ f.bytes = m
    BY <1>1 DEF Fields
  <1>3. /\ pc = "prefix" /\ pkt' = pkt
        /\ desc' = [desc EXCEPT !.outer = Append(@, [type |-> t, bytes |-> m])]
        /\ \/ pc' = pc /\ outer' = [AppendHeader(outer, t, m, 0) EXCEPT !.bits = Append(@, Fields(t, m))]
           \/ pc' = "refused"
    <2>1. HeaderAppend(f, legal)
      BY <1>1
    <2>2. QED
      BY <1>1, <1>2, <2>1 DEF HeaderAppend
  <1>4. /\ desc = [outer |-> desc.outer, inner |-> desc.inner]
        /\ OuterOK(outer, desc.outer) /\ TransportOK(pkt, desc.inner)
    BY <1>3 DEF Building, BuildOK
  <1>5. CASE pc' = pc /\ outer' = [AppendHeader(outer, t, m, 0) EXCEPT !.bits = Append(@, Fields(t, m))]
    <2>1. PICK ls : ls = Append(desc.outer, [type |-> t, bytes |-> m])
      OBVIOUS
    <2>2. desc' = [outer |-> ls, inner |-> desc.inner]
      BY <1>3, <1>4, <2>1
    <2>3. desc'.outer = ls /\ desc'.inner = desc.inner
      BY <2>2
    <2>4. OuterOK(outer', ls)
      BY <1>4, <1>5, <2>1, AppendKeepsOuter
    <2>5. QED
      BY <1>3, <1>4, <1>5, <2>2, <2>3, <2>4 DEF BuildOK
  <1>6. CASE pc' = "refused"
    BY <1>6, ElsewhereIsOK DEF Elsewhere
  <1>7. QED
    BY <1>3, <1>5, <1>6

LEMMA EncapsulateStepBuilds ==
  ASSUME Building, Encapsulate
  PROVE  Building'
  <1> SUFFICES BuildOK(pc', desc', outer', pkt', sent')
    BY DEF Building
  <1>1. /\ pc = "prefix" /\ desc' = desc /\ outer' = outer
        /\ \/ outer.headers = <<>> /\ pc' = "built" /\ pkt' = pkt
           \/ pc' = "died"
           \/ outer.headers # <<>> /\ pc' = "built" /\ pkt' = Encapsulated(outer, pkt)
    BY DEF Encapsulate
  <1>2. OuterOK(outer, desc.outer) /\ TransportOK(pkt, desc.inner)
    BY <1>1 DEF Building, BuildOK
  <1>3. PICK ls, d, n, s, end : /\ ls = desc.outer /\ d = desc.inner /\ n = Len(ls)
                                /\ s = StackOf(ls, d) /\ end = EndOf(outer, d)
    OBVIOUS
  <1>4. n \in Nat /\ outer.headers = [i \in 1 .. n |-> Row(ls[i].type, outer.headers[i].at, ls[i].bytes, 0)]
    <2>1. desc.outer \in Seq(Layers)
      BY <1>2 DEF OuterOK
    <2>2. n \in Nat
      BY <1>3, <2>1
    <2>3. QED
      BY <1>2, <1>3, <2>2 DEF OuterOK
  <1>5. (outer.headers = <<>>) <=> (n = 0)
    <2>1. DOMAIN outer.headers = 1 .. n
      BY <1>4
    <2>2. CASE outer.headers = <<>>
      <3>1. 1 .. n = {}
        BY <2>1, <2>2
      <3>2. QED
        BY <1>4, <2>2, <3>1
    <2>3. CASE n = 0
      BY <1>4, <2>3
    <2>4. QED
      BY <2>2, <2>3
  <1>6. CASE pc' = "built"
    <2>1. pkt' = IF n = 0 THEN pkt ELSE Encapsulated(outer, pkt)
      BY <1>1, <1>5, <1>6
    <2>2. Sensible(s, PayloadOf(d)) => AsBuilt(pkt', outer, d, s, n, end)
      <3> SUFFICES ASSUME Sensible(s, PayloadOf(d)) PROVE AsBuilt(pkt', outer, d, s, n, end)
        OBVIOUS
      <3>1. AsBuilt(IF n = 0 THEN pkt ELSE Encapsulated(outer, pkt), outer, d, s, n, end)
        BY <1>2, <1>3, EncapsulateBuilds
      <3>2. QED
        BY <2>1, <3>1
    <2>3. Described(d)
      BY <1>2, <1>3 DEF TransportOK
    <2>4. QED
      BY <1>1, <1>2, <1>3, <1>6, <2>2, <2>3 DEF BuildOK
  <1>7. CASE pc' = "died"
    BY <1>7, ElsewhereIsOK DEF Elsewhere
  <1>8. QED
    BY <1>1, <1>6, <1>7

LEMMA InjectBuilds ==
  ASSUME Building, Inject
  PROVE  Building'
  <1> SUFFICES BuildOK(pc', desc', outer', pkt', sent')
    BY DEF Building
  <1>1. /\ pc = "built" /\ desc' = desc /\ pkt' = pkt
        /\ \/ pc' = "injected" /\ sent' = [bits |-> Checksummed(pkt).bits, bytes |-> pkt.ip]
           \/ pc' = "died"
    BY DEF Inject
  <1>2. PICK ls, d, n, s, end, m : /\ ls = desc.outer /\ d = desc.inner /\ n = Len(ls)
                                   /\ s = StackOf(ls, d) /\ end = EndOf(outer, d) /\ m = PayloadOf(d)
    OBVIOUS
  <1>3. /\ OuterOK(outer, ls) /\ Described(d)
        /\ Sensible(s, m) => AsBuilt(pkt, outer, d, s, n, end)
    BY <1>1, <1>2 DEF Building, BuildOK
  <1>4. CASE pc' = "injected" /\ sent' = [bits |-> Checksummed(pkt).bits, bytes |-> pkt.ip]
    <2>1. ASSUME Sensible(s, m)
          PROVE  /\ sent'.bits = Encoding(s, m) /\ sent'.bytes = Total(s, m, 1)
                 /\ pkt'.headers = Table(s, m, 0) /\ pkt'.l3 = Offset(s, Len(s) - 1)
      <3>1. /\ Checksummed(pkt).bits = Encoding(s, m) /\ pkt.ip = Total(s, m, 1)
            /\ pkt.headers = Table(s, m, 0) /\ pkt.l3 = Offset(s, Len(s) - 1)
        BY <1>2, <1>3, <2>1, ChecksummedIs
      <3>2. QED
        BY <1>1, <1>4, <3>1
    <2>2. QED
      BY <1>1, <1>2, <1>4, <2>1 DEF BuildOK
  <1>5. CASE pc' = "died"
    BY <1>5, ElsewhereIsOK DEF Elsewhere
  <1>6. QED
    BY <1>1, <1>4, <1>5

LEMMA NextBuilds == Building /\ [Next]_vars => Building'
  <1> SUFFICES ASSUME Building, [Next]_vars PROVE Building'
    OBVIOUS
  <1>1. CASE Build
    <2>1. CASE \E d \in Descriptions : Begin(d)
      BY <2>1, BeginBuilds
    <2>2. CASE Encapsulate
      BY <2>2, EncapsulateStepBuilds
    <2>3. CASE \E legal \in BOOLEAN : Ipv4HeaderAppend(legal) \/ Ipv6HeaderAppend(legal)
      <3>1. PICK legal : Ipv4HeaderAppend(legal) \/ Ipv6HeaderAppend(legal)
        BY <2>3
      <3>2. PICK t \in IpTypes : HeaderAppend(Fields(t, HeaderBytes[t]), legal)
        BY <3>1 DEF Ipv4HeaderAppend, Ipv6HeaderAppend, IpTypes
      <3>3. HeaderBytes[t] \in Nat \ {0} /\ t \in IpTypes \cup {"GRE", "MPLS"}
        BY BytesOfHeaders DEF IpTypes
      <3>4. QED
        BY <3>2, <3>3, HeaderAppendBuilds
    <2>4. CASE \E n \in GreLengths : GreHeaderAppend(n)
      <3>1. PICK n \in Nat \ {0} : HeaderAppend(Fields("GRE", n), TRUE)
        <4>1. PICK n \in GreLengths : HeaderAppend(Fields("GRE", n), TRUE)
          BY <2>4 DEF GreHeaderAppend
        <4>2. n \in Nat /\ n \notin 0 .. 3
          BY HeadersAssumption
        <4>3. n \in Nat \ {0}
          BY <4>2
        <4>4. QED
          BY <4>1, <4>3
      <3>2. "GRE" \in IpTypes \cup {"GRE", "MPLS"} /\ "GRE" \notin IpTypes
        BY DEF IpTypes
      <3>3. QED
        BY <3>1, <3>2, HeaderAppendBuilds
    <2>5. CASE \E n \in MplsEntries : MplsHeaderAppend(n)
      <3>1. PICK n \in Nat \ {0} : HeaderAppend(Fields("MPLS", 4 * n), TRUE)
        BY <2>5, HeadersAssumption DEF MplsHeaderAppend
      <3>2. PICK m \in Nat \ {0} : m = 4 * n
        OBVIOUS
      <3>3. "MPLS" \in IpTypes \cup {"GRE", "MPLS"} /\ "MPLS" \notin IpTypes
        BY DEF IpTypes
      <3>4. QED
        BY <3>1, <3>2, <3>3, HeaderAppendBuilds
    <2>6. QED
      BY <1>1, <2>1, <2>2, <2>3, <2>4, <2>5 DEF Build, Prefix
  <1>2. CASE Inject
    BY <1>2, InjectBuilds
  <1>3. CASE pc' \in Elsewhere
    BY <1>3, ElsewhereIsOK DEF Building
  <1>4. CASE UNCHANGED <<pc, script>>
    BY <1>4 DEF Building, script
  <1>5. \/ Build \/ Inject \/ pc' \in Elsewhere \/ UNCHANGED <<pc, script>>
    <2>1. CASE Receive
      BY <2>1 DEF Receive, Elsewhere
    <2>2. CASE KernelSends \/ OthersSend
      BY <2>2 DEF KernelSends, OthersSend, FrameArrives
    <2>3. CASE PacketSocketReceive
      BY <2>3 DEF PacketSocketReceive, Elsewhere
    <2>4. CASE ReadQueue
      BY <2>4 DEF ReadQueue, Elsewhere
    <2>5. CASE ParsePacket
      <3>1. /\ UNCHANGED <<script, device>>
            /\ \/ \E r \in {"OK", "BAD", "UNKNOWN_L4"} : Concludes(r)
               \/ UNCHANGED pc
        BY <2>5 DEF ParsePacket, ParseLayer2, ParseLayer3, ParseLayer3ByProto, ParseLayer4,
           ParseIpv4, ParseIpv6, ParseGre, ParseMpls, ParseTcp, ParseUdp, ParseIcmp, ParseDone,
           Parsing, GoesOn, Advances, Ends
      <3>2. QED
        BY <3>1 DEF Concludes, Elsewhere
    <2>6. CASE UNCHANGED vars
      BY <2>6 DEF vars
    <2>7. QED
      BY <2>1, <2>2, <2>3, <2>4, <2>5, <2>6 DEF Next
  <1>6. QED
    BY <1>1, <1>2, <1>3, <1>4, <1>5

\* What a script describes is what is injected, for any headers in front and
\* in any order: each header announces the next one, its length reaches to the
\* end of the datagram and its checksum covers what has been filled in
\* (packet_encapsulate(), checksum_packet()); the table says where each is.
THEOREM InjectsWhatIsDescribed == Spec => []InjectedAsDescribed
  <1>1. Init => Building
    <2> SUFFICES ASSUME Init PROVE Building
      OBVIOUS
    <2>1. /\ pc = "script" /\ desc = [outer |-> <<>>, inner |-> None]
          /\ outer = PacketNew(PACKET_MAX_HEADER_BYTES)
      BY DEF Init, NoDescription
    <2>2. desc = [outer |-> <<>>, inner |-> desc.inner]
      BY <2>1
    <2>3. QED
      BY <2>1, <2>2 DEF Building, BuildOK
  <1>2. Building => InjectedAsDescribed
    <2> SUFFICES ASSUME Building, pc = "injected", Sensible(Stack, Payload)
                 PROVE  /\ sent.bits = Encoding(Stack, Payload) /\ sent.bytes = Total(Stack, Payload, 1)
                        /\ pkt.headers = Table(Stack, Payload, 0) /\ pkt.l3 = Offset(Stack, Len(Stack) - 1)
      BY DEF InjectedAsDescribed
    <2>1. Stack = StackOf(desc.outer, desc.inner) /\ Payload = PayloadOf(desc.inner)
      BY DEF Stack, Payload, StackOf, PayloadOf
    <2>2. QED
      BY <2>1 DEF Building, BuildOK
  <1>3. QED
    BY <1>1, <1>2, NextBuilds, PTL DEF Spec

-----------------------------------------------------------------------------
(* The receiving half: what parse_packet() makes of every frame that the   *)
(* kernel can send, for any stack of headers and any frames of others in   *)
(* between.                                                                *)
(*                                                                         *)
(* The argument: a frame of the kernel is sound but for one thing at most  *)
(* (KernelFrame); the parser stands at some header, and all in front of it *)
(* are entered in the table at their places (AtHeader); each of its steps  *)
(* either finds the one thing that is wrong, or moves on to a place where  *)
(* that is still ahead (NotBeyond).                                        *)

-----------------------------------------------------------------------------
(* Frames of the kernel: what a stack of headers is, and how the fields of *)
(* a frame may differ from those that the stack asks for.                  *)

Whole(f) == Total(f.stack, f.payload, 1)
Reach(f, i) == Total(f.stack, f.payload, i)

\* Lengths that a header of a type can have
GoodLayer(l) ==
    /\ l.type = "IPV4" => l.bytes >= 20
    /\ l.type = "IPV6" => l.bytes = 40
    /\ l.type = "GRE" => l.bytes >= 4
    /\ l.type = "MPLS" => l.bytes >= 1
    /\ l.type = "TCP" => l.bytes >= 20
    /\ l.type \in {"UDP", "ICMPV4", "ICMPV6"} => l.bytes = 8
GoodStack(s) ==
    /\ s \in Seq(Layers) /\ Len(s) >= 2 /\ s[Len(s)].type \in L4Types
    /\ \A i \in 1 .. Len(s) : GoodLayer(s[i])
    /\ \A i \in 1 .. Len(s) - 1 :
          s[i].type \in IpTypes \cup {"GRE", "MPLS"} /\ Follows(s[i].type, s[i + 1].type)

\* What announces header m + 1 is header m, and in front of all the frame;
\* an MPLS stack announces nothing.
Proto(f, m) == IF m = 0 THEN f.ether ELSE f.bits[m].proto
Announcing(f, m) == m > 0 => f.stack[m].type # "MPLS"
Announced(f, m) == Announcing(f, m) => Proto(f, m) = f.stack[m + 1].type

\* A header that the parser has no reason to reject
Sound(f, m) ==
    LET l == f.stack[m]
        b == f.bits[m] IN
    /\ b.bytes = l.bytes /\ b.flag = "ok"
    /\ l.type \in {"IPV4", "UDP"} => b.tot = Reach(f, m)
    /\ l.type = "IPV6" => 40 + b.tot = Reach(f, m)
    /\ l.type = "IPV4" => b.sum = <<b.tot, b.proto>>

\* A length that is too small for what follows, and lets this header pass
TooShort(f, j, n) ==
    /\ f.bits[j].bytes = f.stack[j].bytes /\ n = f.bits[j].bytes + 2
    /\ f.stack[j + 1].type \in {"TCP", "GRE"}

\* A header with a reason for which it is rejected, or else the one behind it
Wrong(f, j) ==
    LET t == f.stack[j].type
        b == f.bits[j] IN
    \/ t = "IPV4" /\ \/ b.bytes < 20 \/ b.flag \in {"more", "offset"} \/ b.sum # <<b.tot, b.proto>>
                     \/ b.tot > Reach(f, j) \/ b.bytes > b.tot \/ TooShort(f, j, b.tot)
    \/ t = "IPV6" /\ (40 + b.tot > Reach(f, j) \/ TooShort(f, j, 40 + b.tot))
    \/ t = "GRE" /\ b.flag \in {"version", "routing"}
    \/ t = "TCP" /\ (b.bytes < 20 \/ b.bytes > Reach(f, j))
    \/ t = "UDP" /\ b.tot # Reach(f, j)
    \/ t \in IpTypes /\ b.flag = "version" /\ ReadThroughVersion(f.stack, j)

WellFormed(f) ==
    /\ GoodStack(f.stack) /\ f.payload \in Nat /\ Whole(f) < U16
    /\ f.in \in Int /\ f.in >= -1
    /\ ~onWire => f.stack[1].type \in IpTypes /\ f.ether = f.stack[1].type /\ f.in >= 0
    /\ f.stack[1].type \in IpTypes \cup {"MPLS"}
    /\ \A m \in 1 .. Len(f.stack) :
          f.bits[m].type = f.stack[m].type /\ f.bits[m].tot \in Nat /\ f.bits[m].bytes \in Nat
    /\ \A m \in 0 .. Len(f.stack) - 1 :
          Announcing(f, m) => Proto(f, m) \in {f.stack[m + 1].type, "other"}

AllSound(f) == \A m \in 1 .. Len(f.stack) : Sound(f, m)
AllAnnounced(f) == \A m \in 0 .. Len(f.stack) - 1 : Announced(f, m)
OkFrame(f) == f.means = "OK" /\ AllSound(f) /\ AllAnnounced(f) /\ f.in \in {Whole(f), Whole(f) + 6}
UnknownFrame(f) == f.means = "UNKNOWN_L4" /\ AllSound(f) /\ ~AllAnnounced(f) /\ f.in = Whole(f)
CutFrame(f) == f.means = "BAD" /\ AllSound(f) /\ AllAnnounced(f) /\ f.in < Whole(f)
WrongFrame(f, j) ==
    /\ f.means = "BAD" /\ AllAnnounced(f) /\ f.in = Whole(f)
    /\ Wrong(f, j) /\ \A m \in 1 .. Len(f.stack) : m # j => Sound(f, m)
KernelFrame(f) ==
    /\ WellFormed(f)
    /\ \/ OkFrame(f) \/ UnknownFrame(f) \/ CutFrame(f)
       \/ \E j \in 1 .. Len(f.stack) : WrongFrame(f, j)

-----------------------------------------------------------------------------
(* Where the parser is: at header i, having accepted those in front of it. *)

L2 == IF onWire THEN EtherBytes ELSE 0
Parsed(l2, ip, hs) ==
    [buf |-> PACKET_READ_BYTES, l2 |-> l2, ip |-> ip, headers |-> hs, bits |-> <<>>, l3 |-> None]

\* The rows of the headers accepted so far
RowsOK(f, hs, k) ==
    /\ IsTuple(hs) /\ Len(hs) = k /\ k <= PACKET_MAX_HEADERS
    /\ \A m \in 1 .. k :
          /\ hs[m] = Row(f.stack[m].type, L2 + Offset(f.stack, m), f.stack[m].bytes, hs[m].total)
          /\ hs[m].total \in Nat
          /\ f.means = "OK" => hs[m].total = IF f.stack[m].type = "MPLS" THEN f.in - Offset(f.stack, m)
                                             ELSE Reach(f, m)

\* How far the parser gets with a frame that it does not accept
NotBeyond(f, i, l) ==
    /\ f.in < Whole(f) => \A m \in 1 .. i - 1 : f.stack[m].type = "MPLS"
    /\ \A j \in 1 .. Len(f.stack) :
          WrongFrame(f, j) => i <= j \/ (i = j + 1 /\ l = 2 /\ f.stack[i].type \in {"TCP", "GRE"})
LeftOK(f, i, l) ==
    i > 1 /\ f.stack[i - 1].type # "MPLS" => l = Reach(f, i) \/ (l = 2 /\ f.means = "BAD")

AtHeader(f, i, p, a, l) ==
    /\ a = L2 + Offset(f.stack, i)
    /\ p = Parsed(L2, Offset(f.stack, i), p.headers) /\ RowsOK(f, p.headers, i - 1)
    /\ \A m \in 0 .. i - 2 : Announced(f, m)
    /\ NotBeyond(f, i, l) /\ LeftOK(f, i, l)

Coming(f, i, w) ==
    \/ w = [who |-> "layer3", proto |-> None] /\ IF i = 1 THEN ~onWire ELSE f.stack[i - 1].type = "MPLS"
    \/ /\ w = [who |-> "proto", proto |-> Proto(f, i - 1)]
       /\ IF i = 1 THEN onWire ELSE f.stack[i - 1].type = "GRE"
    \/ w = [who |-> "layer4", proto |-> Proto(f, i - 1)] /\ i > 1 /\ f.stack[i - 1].type \in IpTypes
    \/ /\ w = [who |-> "header", proto |-> f.stack[i].type] /\ Announced(f, i - 1)
       /\ f.stack[i].type \in IpTypes /\ ReadThroughVersion(f.stack, i) => f.bits[i].flag # "version"

ParsedAll(f, p) ==
    /\ f.means = "OK" /\ p = Parsed(L2, p.ip, p.headers) /\ RowsOK(f, p.headers, Len(f.stack))

ParserOK(f, p, a, l, w) ==
    /\ KernelFrame(f)
    /\ \/ w = [who |-> "layer2", proto |-> None] /\ onWire /\ a = 0 /\ p = Parsed(0, 0, <<>>)
       \/ \E i \in 1 .. Len(f.stack) : AtHeader(f, i, p, a, l) /\ Coming(f, i, w)
       \/ w.who = "done" /\ ParsedAll(f, p)

\* The verdict on the last frame, and the table that came from it
Accepted(f, p) ==
    /\ f.means = "OK" /\ GoodStack(f.stack) /\ f.payload \in Nat
    /\ p.l2 = L2 /\ RowsOK(f, p.headers, Len(f.stack))
    /\ p.l3 = L2 + Offset(f.stack, Len(f.stack) - 1)
    /\ f.stack[1].type \in IpTypes => p.ip = Whole(f)
    /\ f.in \in {Whole(f), Whole(f) + 6}
JudgedOK(f, p, r) ==
    \/ r = "OK" /\ Accepted(f, p) /\ Len(f.stack) <= PACKET_MAX_HEADERS
    \/ r = "BAD" /\ p = PacketNew(0) /\ (Len(f.stack) <= PACKET_MAX_HEADERS => f.means = "BAD")

Describing ==
    pc \notin {"script", "refused", "died"} =>
       /\ desc.outer \in Seq(Layers) /\ Described(desc.inner)
       /\ \A i \in 1 .. Len(desc.outer) :
             desc.outer[i].type \in IpTypes \cup {"GRE", "MPLS"} /\ GoodLayer(desc.outer[i])
       /\ L4Type(desc.inner) = "TCP" => L4Header(desc.inner) >= 20
       /\ L4Type(desc.inner) # "TCP" => L4Header(desc.inner) = 8
Capturing ==
    /\ IsList(capture)
    /\ \A i \in 1 .. Len(capture) : capture[i].src = "kernel" => KernelFrame(capture[i])
Judging ==
    /\ pc = "parsing" => ParserOK(frame, live, at, left, want)
    /\ pc \in {"drain", "returned"} => JudgedOK(frame, live, result)
    /\ pc = "receiving" =>
          /\ live = PacketNew(0) /\ result \in {None, "UNKNOWN_L4"}
          /\ result # None => frame.means = "UNKNOWN_L4"
    /\ pc \notin {"receiving", "parsing", "drain", "returned"} => live = PacketNew(0) /\ result = None
ParserInv == Describing /\ Capturing /\ Judging

-----------------------------------------------------------------------------
(* Sums over a stack.                                                      *)

SumFacts(s, n) ==
    /\ Len(s) \in Nat \ {0} /\ DOMAIN s = 1 .. Len(s)
    /\ Offset(s, 1) = 0
    /\ \A i \in 1 .. Len(s) :
          /\ Offset(s, i) \in Nat /\ s[i].bytes \in Nat \ {0}
          /\ Total(s, n, i) \in Nat /\ Total(s, n, i) + Offset(s, i) = Total(s, n, 1)
          /\ s[i].bytes <= Total(s, n, i)
    /\ \A i \in 1 .. Len(s) - 1 : Offset(s, i + 1) = Offset(s, i) + s[i].bytes
    /\ \A i, j \in 1 .. Len(s) : i < j => Offset(s, i) < Offset(s, j)
    /\ Total(s, n, Len(s)) = s[Len(s)].bytes + n

\* The places of k headers, one behind the other
PlacesOf(s, a, k) ==
    /\ a \in [1 .. Len(s) -> Nat] /\ a[1] = 0
    /\ \A j \in 2 .. k : a[j] = a[j - 1] + s[j - 1].bytes

LEMMA HavePlaces ==
  ASSUME NEW s, Len(s) \in Nat \ {0}, \A i \in 1 .. Len(s) : s[i].bytes \in Nat \ {0}
  PROVE  \E a : PlacesOf(s, a, Len(s))
  <1>0. PICK len \in Nat \ {0} : len = Len(s)
    OBVIOUS
  <1> DEFINE S == {k \in Nat : \E a : PlacesOf(s, a, k + 1)}
  <1>1. 0 \in S /\ S \in SUBSET Nat
    <2>1. PlacesOf(s, [i \in 1 .. Len(s) |-> 0], 0 + 1)
      BY <1>0 DEF PlacesOf
    <2>2. QED
      BY <2>1
  <1>2. ASSUME NEW k \in 0 .. len - 1, k \in S, k + 1 <= len - 1
        PROVE  k + 1 \in S
    <2>1. PICK a : PlacesOf(s, a, k + 1)
      BY <1>2
    <2>2. PICK x \in Nat : x = a[k + 1] + s[k + 1].bytes
      <3>1. k + 1 \in 1 .. len
        BY <1>2
      <3>2. PICK y \in Nat, z \in Nat : y = a[k + 1] /\ z = s[k + 1].bytes
        BY <1>0, <2>1, <3>1 DEF PlacesOf
      <3>3. QED
        BY <3>2
    <2>3. PICK b : b = [a EXCEPT ![k + 2] = x]
      OBVIOUS
    <2>4. b \in [1 .. len -> Nat] /\ b[k + 2] = x /\ \A j \in 1 .. k + 1 : b[j] = a[j]
      BY <1>0, <1>2, <2>1, <2>2, <2>3 DEF PlacesOf
    <2>5. ASSUME NEW j \in 2 .. k + 2
          PROVE  b[j] = b[j - 1] + s[j - 1].bytes
      <3>1. j - 1 \in 1 .. k + 1
        OBVIOUS
      <3>2. b[j - 1] = a[j - 1]
        BY <2>4, <3>1
      <3>3. CASE j = k + 2
        BY <2>2, <2>4, <3>2, <3>3
      <3>4. CASE j # k + 2
        <4>1. j \in 2 .. k + 1 /\ j \in 1 .. k + 1
          BY <3>4
        <4>2. QED
          BY <2>1, <2>4, <3>2, <4>1 DEF PlacesOf
      <3>5. QED
        BY <3>3, <3>4
    <2>6. PlacesOf(s, b, (k + 1) + 1)
      <3>1. (k + 1) + 1 = k + 2 /\ b[1] = 0
        BY <2>1, <2>4 DEF PlacesOf
      <3>2. QED
        BY <1>0, <2>4, <2>5, <3>1 DEF PlacesOf
    <2>7. QED
      BY <2>6
  <1>3. 0 .. len - 1 \subseteq S
    <2>1. len - 1 \in Nat
      OBVIOUS
    <2> HIDE DEF S
    <2>2. QED
      BY <1>1, <1>2, <2>1, SetInduction
  <1>4. len - 1 \in S /\ (len - 1) + 1 = len
    <2>1. len - 1 \in 0 .. len - 1 /\ (len - 1) + 1 = len
      OBVIOUS
    <2> HIDE DEF S
    <2>2. QED
      BY <1>3, <2>1
  <1>5. QED
    BY <1>0, <1>4

LEMMA PlacesGrow ==
  ASSUME NEW s, NEW a, Len(s) \in Nat \ {0}, \A i \in 1 .. Len(s) : s[i].bytes \in Nat \ {0},
         PlacesOf(s, a, Len(s)), NEW i \in 1 .. Len(s), NEW j \in 1 .. Len(s), i < j
  PROVE  a[i] < a[j]
  <1>0. PICK len \in Nat \ {0} : len = Len(s)
    OBVIOUS
  <1> DEFINE S == {k \in Nat : i + k + 1 <= len => a[i] < a[i + k + 1]}
  <1>1. \A k \in 1 .. len : a[k] \in Nat
    BY <1>0 DEF PlacesOf
  <1>2. \A k \in 1 .. len - 1 : a[k] < a[k + 1]
    <2> SUFFICES ASSUME NEW k \in 1 .. len - 1 PROVE a[k] < a[k + 1]
      OBVIOUS
    <2>1. k + 1 \in 2 .. len /\ k \in 1 .. len /\ (k + 1) - 1 = k
      OBVIOUS
    <2>2. a[k + 1] = a[k] + s[k].bytes
      BY <1>0, <2>1 DEF PlacesOf
    <2>3. PICK x \in Nat, y \in Nat \ {0} : x = a[k] /\ y = s[k].bytes
      BY <1>0, <1>1, <2>1
    <2>4. QED
      BY <2>2, <2>3
  <1>3. 0 \in S /\ S \in SUBSET Nat
    BY <1>0, <1>2
  <1>4. ASSUME NEW k \in 0 .. len, k \in S, k + 1 <= len
        PROVE  k + 1 \in S
    <2> SUFFICES ASSUME i + (k + 1) + 1 <= len PROVE a[i] < a[i + (k + 1) + 1]
      OBVIOUS
    <2>1. PICK m \in 1 .. len - 1 : m = i + k + 1 /\ m + 1 = i + (k + 1) + 1
      BY <1>0
    <2>2. a[i] < a[m]
      BY <1>4, <2>1
    <2>3. a[m] < a[m + 1]
      BY <1>2
    <2>4. a[i] \in Nat /\ a[m] \in Nat /\ a[m + 1] \in Nat
      BY <1>0, <1>1
    <2>5. QED
      BY <2>1, <2>2, <2>3, <2>4
  <1>5. 0 .. len \subseteq S
    <2> HIDE DEF S
    <2>1. QED
      BY <1>3, <1>4, SetInduction
  <1>6. PICK k \in 0 .. len : j = i + k + 1
    BY <1>0
  <1>7. QED
    BY <1>0, <1>5, <1>6

LEMMA SumsOf ==
  ASSUME NEW s \in Seq(Layers), Len(s) # 0, \A i \in 1 .. Len(s) : s[i].bytes > 0, NEW n \in Nat
  PROVE  SumFacts(s, n)
  <1>0. PICK len \in Nat \ {0} : len = Len(s) /\ DOMAIN s = 1 .. len /\ s # <<>>
    BY EmptySeq, LenProperties
  <1>1. \A i \in 1 .. len : s[i].bytes \in Nat \ {0}
    <2>1. \A i \in 1 .. len : s[i] \in Layers
      BY <1>0, ElementOfSeq
    <2>2. QED
      BY <1>0, <2>1 DEF Layers
  <1>2. PICK a : PlacesOf(s, a, len)
    BY <1>0, <1>1, HavePlaces
  <1>3. \A i \in 1 .. len : a[i] \in Nat
    BY <1>0, <1>2 DEF PlacesOf
  <1>4. PICK x \in Nat, y \in Nat : x = a[len] /\ y = s[len].bytes
    BY <1>0, <1>1, <1>3
  <1>5. PICK end \in Nat : end = x + y + n
    OBVIOUS
  <1>6. PICK h : h = [i \in 1 .. len |-> [type |-> s[i].type, at |-> a[i], bytes |-> s[i].bytes,
                                          total |-> end - a[i]]]
    OBVIOUS
  <1>7. \A i \in 1 .. len : h[i].at = a[i]
    BY <1>6
  <1>8. Laid(h, s, end)
    <2>1. h = [i \in 1 .. len |-> [type |-> s[i].type, at |-> h[i].at, bytes |-> s[i].bytes,
                                   total |-> end - h[i].at]]
      BY <1>6, <1>7
    <2>2. h[1].at = 0
      BY <1>0, <1>2, <1>7 DEF PlacesOf
    <2>3. \A i \in 2 .. len : h[i].at = h[i - 1].at + s[i - 1].bytes
      <3> SUFFICES ASSUME NEW i \in 2 .. len PROVE h[i].at = h[i - 1].at + s[i - 1].bytes
        OBVIOUS
      <3>1. i \in 1 .. len /\ i - 1 \in 1 .. len
        OBVIOUS
      <3>2. a[i] = a[i - 1] + s[i - 1].bytes
        BY <1>0, <1>2 DEF PlacesOf
      <3>3. QED
        BY <1>7, <3>1, <3>2
    <2>4. QED
      BY <1>0, <1>3, <1>7, <2>1, <2>2, <2>3 DEF Laid
  <1>9. \A i \in 1 .. len : Offset(s, i) = a[i] /\ Total(s, n, i) = end - a[i]
    <2>1. h[len].at + s[len].bytes + n = end
      BY <1>0, <1>4, <1>5, <1>7
    <2>2. \A i \in 1 .. len : Offset(s, i) = h[i].at /\ Total(s, n, i) = end - h[i].at
      BY <1>0, <1>8, <2>1, LaidIsTable
    <2>3. QED
      BY <1>7, <2>2
  <1>10. \A i \in 1 .. len, j \in 1 .. len : i < j => a[i] < a[j]
    BY <1>0, <1>1, <1>2, PlacesGrow
  <1>11. \A i \in 1 .. len - 1 : a[i + 1] = a[i] + s[i].bytes
    <2> SUFFICES ASSUME NEW i \in 1 .. len - 1 PROVE a[i + 1] = a[i] + s[i].bytes
      OBVIOUS
    <2>1. i + 1 \in 2 .. len /\ (i + 1) - 1 = i
      OBVIOUS
    <2>2. QED
      BY <1>0, <1>2, <2>1 DEF PlacesOf
  <1>12. a[1] = 0
    BY <1>2 DEF PlacesOf
  <1>13. ASSUME NEW i \in 1 .. len
         PROVE  /\ end - a[i] \in Nat /\ s[i].bytes <= end - a[i]
    <2>1. PICK u \in Nat, v \in Nat \ {0} : u = a[i] /\ v = s[i].bytes
      BY <1>1, <1>3
    <2>2. CASE i = len
      <3>1. u = x /\ v = y
        BY <1>4, <2>1, <2>2
      <3>2. end - u = v + n
        BY <1>5, <3>1
      <3>3. QED
        BY <2>1, <3>2
    <2>3. CASE i # len
      <3>1. i \in 1 .. len - 1 /\ i + 1 \in 1 .. len
        BY <2>3
      <3>2. PICK w \in Nat : w = a[i + 1] /\ w = u + v
        BY <1>3, <1>11, <2>1, <3>1
      <3>3. w <= x
        <4>1. PICK k \in 1 .. len : k = i + 1
          BY <3>1
        <4>0. w = a[k]
          BY <3>2, <4>1, ZenonT(40)
        <4>2. CASE k = len
          <5>1. w = x
            BY <1>4, <4>0, <4>2, ZenonT(40)
          <5>2. QED
            BY <5>1
        <4>3. CASE k # len
          <5>1. k < len /\ len \in 1 .. len
            BY <4>3
          <5>2. a[k] < a[len]
            BY <1>10, <5>1
          <5>3. QED
            BY <1>4, <4>0, <5>2
        <4>4. QED
          BY <4>2, <4>3
      <3>4. u + v <= x
        BY <3>2, <3>3
      <3>5. end - u \in Nat /\ v <= end - u
        BY <1>5, <3>4
      <3>6. QED
        BY <2>1, <3>5
    <2>4. QED
      BY <2>2, <2>3
  <1>14. \A i \in 1 .. len : /\ Offset(s, i) \in Nat /\ s[i].bytes \in Nat \ {0}
                             /\ Total(s, n, i) \in Nat /\ Total(s, n, i) + Offset(s, i) = Total(s, n, 1)
                             /\ s[i].bytes <= Total(s, n, i)
    <2> SUFFICES ASSUME NEW i \in 1 .. len
                 PROVE  /\ Offset(s, i) \in Nat /\ s[i].bytes \in Nat \ {0}
                        /\ Total(s, n, i) \in Nat /\ Total(s, n, i) + Offset(s, i) = Total(s, n, 1)
                        /\ s[i].bytes <= Total(s, n, i)
      OBVIOUS
    <2>1. PICK u \in Nat : u = a[i] /\ Offset(s, i) = u /\ Total(s, n, i) = end - u
      BY <1>3, <1>9
    <2>2. Total(s, n, 1) = end
      <3>1. 1 \in 1 .. len
        BY <1>0
      <3>2. Total(s, n, 1) = end - 0
        BY <1>9, <1>12, <3>1
      <3>3. QED
        BY <3>2
    <2>3. end - u \in Nat /\ s[i].bytes <= end - u
      BY <1>13, <2>1
    <2>4. end - u + u = end
      BY <2>1
    <2>5. QED
      BY <1>1, <2>1, <2>2, <2>3, <2>4
  <1>15. Offset(s, 1) = 0
    BY <1>0, <1>9, <1>12
  <1>16. \A i \in 1 .. len - 1 : Offset(s, i + 1) = Offset(s, i) + s[i].bytes
    BY <1>9, <1>11
  <1>17. \A i, j \in 1 .. len : i < j => Offset(s, i) < Offset(s, j)
    BY <1>9, <1>10
  <1>18. Total(s, n, len) = s[len].bytes + n
    BY <1>0, <1>4, <1>5, <1>9
  <1>19. QED
    BY <1>0, <1>14, <1>15, <1>16, <1>17, <1>18 DEF SumFacts

LEMMA TypesOfStack ==
  ASSUME NEW s, GoodStack(s)
  PROVE  /\ Len(s) \in Nat /\ Len(s) >= 2 /\ DOMAIN s = 1 .. Len(s) /\ s \in Seq(Layers)
         /\ \A i \in 1 .. Len(s) : s[i].type \in HeaderTypes /\ s[i].bytes \in Nat \ {0}
         /\ \A i \in 1 .. Len(s) - 1 : s[i].type \in IpTypes \cup {"GRE", "MPLS"}
  <1>1. s \in Seq(Layers) /\ Len(s) \in Nat /\ Len(s) >= 2 /\ DOMAIN s = 1 .. Len(s)
    BY LenProperties DEF GoodStack
  <1>2. ASSUME NEW i \in 1 .. Len(s)
        PROVE  s[i].type \in HeaderTypes /\ s[i].bytes \in Nat \ {0}
    <2>1. s[i] \in Layers
      BY <1>1, ElementOfSeq
    <2>2. PICK t \in HeaderTypes, n \in Nat : t = s[i].type /\ n = s[i].bytes
      BY <2>1 DEF Layers
    <2>3. GoodLayer(s[i])
      BY DEF GoodStack
    <2>4. n # 0
      BY <2>2, <2>3 DEF GoodLayer, HeaderTypes, IpTypes, L4Types
    <2>5. QED
      BY <2>2, <2>4
  <1>3. QED
    BY <1>1, <1>2 DEF GoodStack

LEMMA SumsOfStack ==
  ASSUME NEW s, GoodStack(s), NEW n \in Nat
  PROVE  SumFacts(s, n)
  <1>1. s \in Seq(Layers) /\ Len(s) # 0 /\ \A i \in 1 .. Len(s) : s[i].bytes > 0
    BY TypesOfStack
  <1>2. QED
    BY <1>1, SumsOf

\* A field whatever it holds
Holding(t, n, tot, proto, sum, flag) ==
    [type |-> t, bytes |-> n, tot |-> tot, proto |-> proto, sum |-> sum, flag |-> flag]

ReplacedIn(e, t, n, tot, proto, sum, flag) ==
    \A x, y :
       /\ [e EXCEPT !.bytes = x] = Holding(t, x, tot, proto, sum, flag)
       /\ [e EXCEPT !.tot = x] = Holding(t, n, x, proto, sum, flag)
       /\ [e EXCEPT !.proto = x] = Holding(t, n, tot, x, sum, flag)
       /\ [e EXCEPT !.sum = x] = Holding(t, n, tot, proto, x, flag)
       /\ [e EXCEPT !.flag = x] = Holding(t, n, tot, proto, sum, x)
       /\ Sums(e, x, y) = Holding(t, n, x, y, <<x, y>>, flag)

LEMMA Replaced ==
  ASSUME NEW t, NEW n, NEW tot, NEW proto, NEW sum, NEW flag,
         NEW e, e = Holding(t, n, tot, proto, sum, flag)
  PROVE  ReplacedIn(e, t, n, tot, proto, sum, flag)
  <1> SUFFICES ASSUME NEW x, NEW y
               PROVE  /\ [e EXCEPT !.bytes = x] = Holding(t, x, tot, proto, sum, flag)
                      /\ [e EXCEPT !.tot = x] = Holding(t, n, x, proto, sum, flag)
                      /\ [e EXCEPT !.proto = x] = Holding(t, n, tot, x, sum, flag)
                      /\ [e EXCEPT !.sum = x] = Holding(t, n, tot, proto, x, flag)
                      /\ [e EXCEPT !.flag = x] = Holding(t, n, tot, proto, sum, x)
                      /\ Sums(e, x, y) = Holding(t, n, x, y, <<x, y>>, flag)
    BY DEF ReplacedIn
  <1> USE DEF Holding
  <1>1. [e EXCEPT !.bytes = x] = Holding(t, x, tot, proto, sum, flag)
    OBVIOUS
  <1>2. [e EXCEPT !.tot = x] = Holding(t, n, x, proto, sum, flag)
    OBVIOUS
  <1>3. [e EXCEPT !.proto = x] = Holding(t, n, tot, x, sum, flag)
    OBVIOUS
  <1>4. [e EXCEPT !.sum = x] = Holding(t, n, tot, proto, x, flag)
    OBVIOUS
  <1>5. [e EXCEPT !.flag = x] = Holding(t, n, tot, proto, sum, x)
    OBVIOUS
  <1>6. Sums(e, x, y) = Holding(t, n, x, y, <<x, y>>, flag)
    <2>1. PICK g1, g2 : g1 = [e EXCEPT !.tot = x] /\ g2 = [g1 EXCEPT !.proto = y]
      OBVIOUS
    <2>2. g1 = Holding(t, n, x, proto, sum, flag)
      BY <2>1
    <2>3. g2 = Holding(t, n, x, y, sum, flag)
      BY <2>1, <2>2
    <2>4. [g2 EXCEPT !.sum = <<x, y>>] = Holding(t, n, x, y, <<x, y>>, flag)
      BY <2>3
    <2>5. Sums(e, x, y) = [[[e EXCEPT !.tot = x] EXCEPT !.proto = y] EXCEPT !.sum = <<x, y>>]
      BY DEF Sums
    <2>6. QED
      BY <2>1, <2>4, <2>5
  <1>7. QED
    BY <1>1, <1>2, <1>3, <1>4, <1>5, <1>6

\* The fields that Encoding asks for
EncodedTot(t, r) == IF t \in {"IPV4", "UDP"} THEN r ELSE IF t = "IPV6" THEN r - 40 ELSE 0
EncodedProto(t, inside) == IF t \in IpTypes \cup {"GRE"} THEN inside ELSE None
EncodedSum(t, r, inside) ==
    IF t = "IPV4" THEN <<r, inside>> ELSE IF t \in L4Types THEN <<r, t>> ELSE NoSum
Inside(s, i) == IF i = Len(s) THEN None ELSE s[i + 1].type
Encoded(s, n, i) ==
    LET t == s[i].type IN
    Holding(t, s[i].bytes, EncodedTot(t, Total(s, n, i)), EncodedProto(t, Inside(s, i)),
            EncodedSum(t, Total(s, n, i), Inside(s, i)), "ok")

LEMMA EncodedIs ==
  ASSUME NEW s, NEW n, NEW i \in DOMAIN s
  PROVE  Encoding(s, n)[i] = Encoded(s, n, i)
  <1> DEFINE t == s[i].type
             r == Total(s, n, i)
             u == Inside(s, i)
  <1>1. Encoding(s, n)[i] = Learned(t, s[i].bytes, r, u)
    BY EncodingIs DEF Inside
  <1> HIDE DEF t, r, u
  <1>2. \A a, b, c, d, e : AField(a, b, c, d, e) = Holding(a, b, c, d, e, "ok")
    BY DEF AField, Holding
  <1>3. Learned(t, s[i].bytes, r, u)
          = Holding(t, s[i].bytes, EncodedTot(t, r), EncodedProto(t, u), EncodedSum(t, r, u), "ok")
    <2>1. CASE t = "IPV4"
      BY <1>2, <2>1, Ipv4Learns DEF EncodedTot, EncodedProto, EncodedSum, IpTypes
    <2>2. CASE t = "IPV6"
      BY <1>2, <2>2, Ipv6Learns DEF EncodedTot, EncodedProto, EncodedSum, IpTypes, L4Types
    <2>3. CASE t \in L4Types
      BY <1>2, <2>3, TransportLearns DEF EncodedTot, EncodedProto, EncodedSum, IpTypes, L4Types
    <2>4. CASE t \notin L4Types \cup IpTypes
      BY <1>2, <2>4 DEF Learned, EncodedTot, EncodedProto, EncodedSum, IpTypes, L4Types
    <2>5. QED
      BY <2>1, <2>2, <2>3, <2>4 DEF IpTypes
  <1>4. QED
    BY <1>1, <1>3 DEF t, r, u, Encoded

\* What the checks of the parser find in such a field
EncodedFacts(s, n, m) ==
    LET e == Encoding(s, n)[m]
        t == s[m].type
        r == Total(s, n, m) IN
    /\ e = Holding(t, s[m].bytes, e.tot, e.proto, e.sum, "ok")
    /\ e.type = t /\ e.bytes = s[m].bytes /\ e.flag = "ok" /\ e.tot \in Nat
    /\ t \in {"IPV4", "UDP"} => e.tot = r
    /\ t = "IPV6" => 40 + e.tot = r
    /\ t = "IPV4" => e.sum = <<e.tot, e.proto>>
    /\ m < Len(s) /\ t # "MPLS" => e.proto = s[m + 1].type

LEMMA EncodingFacts ==
  ASSUME NEW s, GoodStack(s), NEW n \in Nat, NEW m \in 1 .. Len(s)
  PROVE  EncodedFacts(s, n, m)
  <1>0. SumFacts(s, n) /\ s[m].type \in HeaderTypes
    BY TypesOfStack, SumsOfStack
  <1>1. PICK t, b, r, u : /\ t = s[m].type /\ b = s[m].bytes /\ r = Total(s, n, m) /\ u = Inside(s, m)
                          /\ t \in HeaderTypes /\ b \in Nat \ {0} /\ r \in Nat /\ b <= r
    BY <1>0 DEF SumFacts
  <1>2. PICK e, tot, proto, sum :
           /\ e = Encoding(s, n)[m] /\ e = Holding(t, b, tot, proto, sum, "ok")
           /\ tot = EncodedTot(t, r) /\ proto = EncodedProto(t, u) /\ sum = EncodedSum(t, r, u)
    <2>1. m \in DOMAIN s
      BY TypesOfStack
    <2>2. Encoding(s, n)[m] = Encoded(s, n, m)
      BY <2>1, EncodedIs
    <2>3. QED
      BY <1>1, <2>2 DEF Encoded
  <1>3. /\ e.type = t /\ e.bytes = b /\ e.flag = "ok" /\ e.tot = tot /\ e.proto = proto /\ e.sum = sum
    BY <1>2 DEF Holding
  <1>4. t = "IPV6" => b = 40
    BY <1>1 DEF GoodStack, GoodLayer
  <1>5. tot \in Nat /\ (t \in {"IPV4", "UDP"} => tot = r) /\ (t = "IPV6" => 40 + tot = r)
    <2>1. CASE t = "IPV6"
      <3>1. PICK x \in Nat : x = r - 40
        BY <1>1, <1>4, <2>1
      <3>2. 40 + x = r /\ tot = x
        BY <1>1, <1>2, <2>1, <3>1 DEF EncodedTot
      <3>3. QED
        BY <2>1, <3>2
    <2>2. CASE t # "IPV6"
      BY <1>1, <1>2, <2>2 DEF EncodedTot
    <2>3. QED
      BY <2>1, <2>2
  <1>6. t = "IPV4" => sum = <<tot, proto>>
    BY <1>2 DEF EncodedTot, EncodedProto, EncodedSum, IpTypes
  <1>7. m < Len(s) /\ t # "MPLS" => proto = s[m + 1].type
    <2> SUFFICES ASSUME m < Len(s), t # "MPLS" PROVE proto = s[m + 1].type
      OBVIOUS
    <2>1. m \in 1 .. Len(s) - 1
      BY TypesOfStack
    <2>2. t \in IpTypes \cup {"GRE"}
      BY <1>1, <2>1, TypesOfStack
    <2>3. QED
      BY <1>1, <1>2, <2>2, TypesOfStack DEF EncodedProto, Inside
  <1>8. QED
    BY <1>1, <1>2, <1>3, <1>5, <1>6, <1>7 DEF EncodedFacts

-----------------------------------------------------------------------------
(* Whatever the kernel sends is such a frame.                              *)

KFrame(s, n, ether, bits, bytes, means) ==
    [src |-> "kernel", ether |-> ether, stack |-> s, payload |-> n, bits |-> bits,
     in |-> bytes, means |-> means]

\* A datagram that can be sniffed
Sendable(s, n) ==
    /\ GoodStack(s) /\ n \in Nat /\ Total(s, n, 1) < U16
    /\ s[1].type \in IpTypes \cup {"MPLS"} /\ (~onWire => s[1].type \in IpTypes)

LEMMA SendableTotal ==
  ASSUME NEW s, NEW n, Sendable(s, n)
  PROVE  Total(s, n, 1) \in Nat /\ Total(s, n, 1) > 0
  <1>1. SumFacts(s, n) /\ Len(s) \in Nat \ {0}
    BY TypesOfStack, SumsOfStack DEF Sendable
  <1>2. PICK b \in Nat \ {0}, r \in Nat : b = s[1].bytes /\ r = Total(s, n, 1) /\ b <= r
    BY <1>1 DEF SumFacts
  <1>3. QED
    BY <1>2

\* Fields of a frame with at most one that is not as it should be
Field(s, n, bits, j, b, m) == bits[m] = IF m = j THEN b ELSE Encoding(s, n)[m]

AtMostOne(s, n, ether, bits, bytes, j, b) ==
    /\ Sendable(s, n) /\ bytes \in Int /\ bytes >= -1
    /\ ~onWire => ether = s[1].type /\ bytes >= 0
    /\ ether \in {s[1].type, "other"}
    /\ \A m \in 1 .. Len(s) : Field(s, n, bits, j, b, m)
    /\ j \in 1 .. Len(s) =>
          /\ b.type = s[j].type /\ b.tot \in Nat /\ b.bytes \in Nat
          /\ j < Len(s) /\ s[j].type # "MPLS" => b.proto \in {s[j + 1].type, "other"}

LEMMA FrameIsWellFormed ==
  ASSUME NEW s, NEW n, NEW ether, NEW bits, NEW bytes, NEW means, NEW j, NEW b,
         AtMostOne(s, n, ether, bits, bytes, j, b)
  PROVE  LET f == KFrame(s, n, ether, bits, bytes, means) IN
         /\ WellFormed(f)
         /\ \A m \in 1 .. Len(s) : m # j => Sound(f, m)
         /\ \A m \in 1 .. Len(s) - 1 : m # j => Announced(f, m)
  <1>1. PICK f : f = KFrame(s, n, ether, bits, bytes, means)
    OBVIOUS
  <1>2. /\ f.stack = s /\ f.payload = n /\ f.ether = ether /\ f.bits = bits
        /\ f.in = bytes /\ f.means = means
    BY <1>1 DEF KFrame
  <1> USE DEF AtMostOne
  <1>3. GoodStack(s) /\ n \in Nat
    BY DEF Sendable
  <1>4. Len(s) \in Nat /\ Len(s) >= 2
    BY <1>3, TypesOfStack
  <1>5. \A m \in 1 .. Len(s) : EncodedFacts(s, n, m)
    BY <1>3, EncodingFacts
  <1>6. ASSUME NEW m \in 1 .. Len(s), m # j
        PROVE  /\ Sound(f, m)
               /\ bits[m].type = s[m].type /\ bits[m].tot \in Nat /\ bits[m].bytes \in Nat
               /\ m < Len(s) /\ s[m].type # "MPLS" => bits[m].proto = s[m + 1].type
    <2>1. PICK e : e = bits[m] /\ e = Encoding(s, n)[m]
      BY <1>6 DEF Field
    <2>2. /\ e.type = s[m].type /\ e.bytes = s[m].bytes /\ e.flag = "ok" /\ e.tot \in Nat
          /\ s[m].type \in {"IPV4", "UDP"} => e.tot = Total(s, n, m)
          /\ s[m].type = "IPV6" => 40 + e.tot = Total(s, n, m)
          /\ s[m].type = "IPV4" => e.sum = <<e.tot, e.proto>>
          /\ m < Len(s) /\ s[m].type # "MPLS" => e.proto = s[m + 1].type
      BY <1>5, <2>1, ZenonT(40) DEF EncodedFacts
    <2>3. s[m].bytes \in Nat
      BY <1>3, TypesOfStack
    <2>4. Sound(f, m)
      BY <1>2, <2>1, <2>2 DEF Sound, Reach
    <2>5. QED
      BY <2>1, <2>2, <2>3, <2>4
  <1>7. \A m \in 1 .. Len(s) - 1 : m # j => Announced(f, m)
    <2> SUFFICES ASSUME NEW m \in 1 .. Len(s) - 1, m # j PROVE Announced(f, m)
      OBVIOUS
    <2>1. m \in 1 .. Len(s) /\ m < Len(s) /\ m # 0
      BY <1>4
    <2>2. QED
      BY <1>2, <1>6, <2>1 DEF Announced, Announcing, Proto
  <1>8. \A m \in 1 .. Len(s) : bits[m].type = s[m].type /\ bits[m].tot \in Nat /\ bits[m].bytes \in Nat
    <2> SUFFICES ASSUME NEW m \in 1 .. Len(s)
                 PROVE  bits[m].type = s[m].type /\ bits[m].tot \in Nat /\ bits[m].bytes \in Nat
      OBVIOUS
    <2>1. CASE m = j
      BY <2>1 DEF Field
    <2>2. CASE m # j
      BY <1>6, <2>2
    <2>3. QED
      BY <2>1, <2>2
  <1>9. \A m \in 0 .. Len(s) - 1 : Announcing(f, m) => Proto(f, m) \in {s[m + 1].type, "other"}
    <2> SUFFICES ASSUME NEW m \in 0 .. Len(s) - 1, Announcing(f, m)
                 PROVE  Proto(f, m) \in {s[m + 1].type, "other"}
      OBVIOUS
    <2>1. CASE m = 0
      BY <1>2, <2>1 DEF Proto
    <2>2. CASE m # 0
      <3>1. m \in 1 .. Len(s) /\ m < Len(s) /\ m > 0
        BY <1>4, <2>2
      <3>2. s[m].type # "MPLS" /\ Proto(f, m) = bits[m].proto
        BY <1>2, <3>1 DEF Announcing, Proto
      <3>3. CASE m = j
        BY <3>1, <3>2, <3>3 DEF Field
      <3>4. CASE m # j
        BY <1>6, <3>1, <3>2, <3>4
      <3>5. QED
        BY <3>3, <3>4
    <2>3. QED
      BY <2>1, <2>2
  <1>10. WellFormed(f)
    BY <1>2, <1>3, <1>8, <1>9 DEF WellFormed, Whole, Sendable
  <1>11. QED
    BY <1>1, <1>6, <1>7, <1>10

\* Nothing wrong with the fields
LEMMA PlainFrame ==
  ASSUME NEW s, NEW n, Sendable(s, n), NEW bytes \in Int, bytes >= -1,
         NEW ether, NEW means, ~onWire => ether = s[1].type /\ bytes >= 0,
         ether \in {s[1].type, "other"},
         NEW f, f = KFrame(s, n, ether, Encoding(s, n), bytes, means)
  PROVE  /\ WellFormed(f) /\ AllSound(f)
         /\ IF ether = s[1].type THEN AllAnnounced(f) ELSE ~AllAnnounced(f)
         /\ Whole(f) = Total(s, n, 1) /\ f.in = bytes /\ f.means = means
  <1>1. /\ f.stack = s /\ f.payload = n /\ f.ether = ether /\ f.in = bytes /\ f.means = means
    BY DEF KFrame
  <1>2. Len(s) \in Nat /\ Len(s) >= 2
    BY TypesOfStack DEF Sendable
  <1>3. /\ WellFormed(f)
        /\ \A m \in 1 .. Len(s) : m # 0 => Sound(f, m)
        /\ \A m \in 1 .. Len(s) - 1 : m # 0 => Announced(f, m)
    <2>1. PICK bits, j, b : bits = Encoding(s, n) /\ j = 0 /\ b = 0
      OBVIOUS
    <2>2. \A m \in 1 .. Len(s) : Field(s, n, bits, j, b, m)
      BY <2>1 DEF Field
    <2>3. j \in 1 .. Len(s) =>
            /\ b.type = s[j].type /\ b.tot \in Nat /\ b.bytes \in Nat
            /\ j < Len(s) /\ s[j].type # "MPLS" => b.proto \in {s[j + 1].type, "other"}
      BY <2>1
    <2>s. AtMostOne(s, n, ether, bits, bytes, j, b)
      BY <2>2, <2>3 DEF AtMostOne
    <2>4. /\ WellFormed(KFrame(s, n, ether, bits, bytes, means))
          /\ \A m \in 1 .. Len(s) : m # j => Sound(KFrame(s, n, ether, bits, bytes, means), m)
          /\ \A m \in 1 .. Len(s) - 1 : m # j => Announced(KFrame(s, n, ether, bits, bytes, means), m)
      BY <2>s, FrameIsWellFormed
    <2>5. QED
      BY <2>1, <2>4
  <1>4. AllSound(f)
    BY <1>1, <1>3 DEF AllSound
  <1>5. CASE ether = s[1].type
    <2>1. Announced(f, 0)
      BY <1>1, <1>5 DEF Announced, Proto
    <2>2. AllAnnounced(f)
      BY <1>1, <1>2, <1>3, <2>1 DEF AllAnnounced
    <2>3. QED
      BY <1>1, <1>3, <1>4, <1>5, <2>2 DEF Whole
  <1>6. CASE ether # s[1].type
    <2>1. ~Announced(f, 0) /\ 0 \in 0 .. Len(s) - 1
      BY <1>1, <1>2, <1>6 DEF Announced, Announcing, Proto
    <2>2. ~AllAnnounced(f)
      BY <1>1, <2>1 DEF AllAnnounced
    <2>3. QED
      BY <1>1, <1>3, <1>4, <1>6, <2>2 DEF Whole
  <1>7. QED
    BY <1>5, <1>6

LEMMA IntactIsKernels ==
  ASSUME NEW s, NEW n, Sendable(s, n), NEW bytes \in {Total(s, n, 1), Total(s, n, 1) + 6}
  PROVE  KernelFrame(KFrame(s, n, s[1].type, Encoding(s, n), bytes, "OK"))
  <1>1. PICK f : f = KFrame(s, n, s[1].type, Encoding(s, n), bytes, "OK")
    OBVIOUS
  <1>2. bytes \in Nat
    BY SendableTotal
  <1>3. bytes \in Int /\ bytes >= -1 /\ bytes >= 0
    BY <1>2
  <1>4. /\ WellFormed(f) /\ AllSound(f) /\ AllAnnounced(f)
        /\ Whole(f) = Total(s, n, 1) /\ f.in = bytes /\ f.means = "OK"
    BY <1>1, <1>3, PlainFrame
  <1>5. QED
    BY <1>1, <1>4 DEF KernelFrame, OkFrame

LEMMA CutIsKernels ==
  ASSUME NEW s, NEW n, Sendable(s, n), NEW bytes \in Int, bytes < Total(s, n, 1),
         bytes >= -1, ~onWire => bytes >= 0
  PROVE  KernelFrame(KFrame(s, n, s[1].type, Encoding(s, n), bytes, "BAD"))
  <1>1. PICK f : f = KFrame(s, n, s[1].type, Encoding(s, n), bytes, "BAD")
    OBVIOUS
  <1>2. /\ WellFormed(f) /\ AllSound(f) /\ AllAnnounced(f)
        /\ Whole(f) = Total(s, n, 1) /\ f.in = bytes /\ f.means = "BAD"
    BY <1>1, PlainFrame
  <1>3. QED
    BY <1>1, <1>2 DEF KernelFrame, CutFrame

LEMMA OtherIsKernels ==
  ASSUME NEW s, NEW n, Sendable(s, n), onWire
  PROVE  KernelFrame(KFrame(s, n, "other", Encoding(s, n), Total(s, n, 1), "UNKNOWN_L4"))
  <1>1. PICK f : f = KFrame(s, n, "other", Encoding(s, n), Total(s, n, 1), "UNKNOWN_L4")
    OBVIOUS
  <1>2. PICK bytes \in Nat : bytes = Total(s, n, 1)
    BY SendableTotal
  <1>3. "other" # s[1].type
    <2>1. s[1].type \in IpTypes \cup {"MPLS"}
      BY DEF Sendable
    <2>2. QED
      BY <2>1 DEF IpTypes
  <1>4. bytes \in Int /\ bytes >= -1
    OBVIOUS
  <1>5. /\ WellFormed(f) /\ AllSound(f) /\ ~AllAnnounced(f)
        /\ Whole(f) = Total(s, n, 1) /\ f.in = bytes /\ f.means = "UNKNOWN_L4"
    BY <1>1, <1>2, <1>3, <1>4, PlainFrame
  <1>6. QED
    BY <1>1, <1>2, <1>5 DEF KernelFrame, UnknownFrame

\* What a wrong field has in common with the right one, and what not
WrongField(s, n, j, b) ==
    LET e == Encoding(s, n)[j]
        f == [stack |-> s, payload |-> n, bits |-> [Encoding(s, n) EXCEPT ![j] = b]] IN
    /\ b.type = s[j].type /\ b.tot \in Nat /\ b.bytes \in Nat /\ b.proto = e.proto
    /\ Wrong(f, j)

LEMMA WrongFieldsAreWrong ==
  ASSUME NEW s, NEW n, Sendable(s, n), NEW j \in 1 .. Len(s), NEW b \in WrongFields(s, n, j)
  PROVE  WrongField(s, n, j, b)
  <1>1. PICK f : f = [stack |-> s, payload |-> n, bits |-> [Encoding(s, n) EXCEPT ![j] = b]]
    OBVIOUS
  <1>2. GoodStack(s) /\ n \in Nat /\ Len(s) \in Nat
    BY TypesOfStack DEF Sendable
  <1>3. f.stack = s /\ f.bits[j] = b /\ Reach(f, j) = Total(s, n, j)
    <2>1. j \in DOMAIN Encoding(s, n)
      BY <1>2, TypesOfStack DEF Encoding
    <2>2. QED
      BY <1>1, <2>1 DEF Reach
  <1>4. EncodedFacts(s, n, j)
    BY <1>2, EncodingFacts
  <1>5. PICK e, t, m, tot, proto, sum, r :
           /\ e = Encoding(s, n)[j] /\ t = s[j].type /\ m = s[j].bytes /\ r = Total(s, n, j)
           /\ e = Holding(t, m, tot, proto, sum, "ok")
           /\ tot \in Nat /\ m \in Nat \ {0} /\ r \in Nat /\ m <= r
           /\ t \in {"IPV4", "UDP"} => tot = r
           /\ t = "IPV6" => 40 + tot = r
    <2>1. SumFacts(s, n)
      BY <1>2, SumsOfStack
    <2>2. /\ s[j].bytes \in Nat \ {0} /\ Total(s, n, j) \in Nat /\ s[j].bytes <= Total(s, n, j)
      BY <2>1 DEF SumFacts
    <2>3. QED
      BY <1>4, <2>2 DEF EncodedFacts
  <1>6. e.type = t /\ e.bytes = m /\ e.tot = tot /\ e.proto = proto /\ e.sum = sum /\ e.flag = "ok"
    BY <1>5 DEF Holding
  <1>r. ReplacedIn(e, t, m, tot, proto, sum, "ok")
    BY <1>5, Replaced
  <1>7. \A a, c, d, g, h, k :
           LET x == Holding(a, c, d, g, h, k) IN
           x.type = a /\ x.bytes = c /\ x.tot = d /\ x.proto = g /\ x.sum = h /\ x.flag = k
    BY DEF Holding
  <1>8. /\ t = "IPV4" => m >= 20
        /\ t = "IPV6" => m = 40
        /\ t = "TCP" => m >= 20
        /\ t = "UDP" => m = 8
    BY <1>2, <1>5 DEF GoodStack, GoodLayer
  <1>9. \A x : Truncated(s, j) => s[j + 1].type \in {"TCP", "GRE"}
    BY DEF Truncated
  <1>10. CASE b = [e EXCEPT !.flag = "version"] /\ t \in IpTypes /\ ReadThroughVersion(s, j)
    <2>1. b = Holding(t, m, tot, proto, sum, "version")
      BY <1>r, <1>10 DEF ReplacedIn
    <2>2. b.type = t /\ b.bytes = m /\ b.tot = tot /\ b.proto = proto /\ b.flag = "version"
      BY <1>7, <2>1
    <2>3. Wrong(f, j)
      BY <1>3, <1>5, <1>10, <2>2 DEF Wrong
    <2>4. QED
      BY <1>1, <1>5, <1>6, <2>2, <2>3 DEF WrongField
  <1>11. CASE t = "IPV4" /\ b \in WrongIpv4(e, s, j)
    <2>1. PICK x, y, p, z, g : /\ b = Holding(t, x, y, p, z, g) /\ p = proto /\ x \in Nat /\ y \in Nat
                            /\ \/ x < 20 \/ g \in {"more", "offset"} \/ z # <<y, p>> \/ y > r \/ x > y
                               \/ x = m /\ y = x + 2 /\ s[j + 1].type \in {"TCP", "GRE"}
      <3>1. CASE b = [e EXCEPT !.bytes = 16]
        <4>1. b = Holding(t, 16, tot, proto, sum, "ok") /\ 16 < 20 /\ 16 \in Nat
          BY <1>r, <3>1 DEF ReplacedIn
        <4>2. QED
          BY <1>5, <4>1
      <3>2. CASE b = [e EXCEPT !.flag = "more"]
        <4>1. b = Holding(t, m, tot, proto, sum, "more")
          BY <1>r, <3>2 DEF ReplacedIn
        <4>2. QED
          BY <1>5, <4>1
      <3>3. CASE b = [e EXCEPT !.flag = "offset"]
        <4>1. b = Holding(t, m, tot, proto, sum, "offset")
          BY <1>r, <3>3 DEF ReplacedIn
        <4>2. QED
          BY <1>5, <4>1
      <3>4. CASE b = [e EXCEPT !.sum = NoSum]
        <4>1. b = Holding(t, m, tot, proto, NoSum, "ok")
          BY <1>r, <3>4 DEF ReplacedIn
        <4>2. tot # 0
          BY <1>5, <1>8, <1>11
        <4>3. NoSum # <<tot, proto>>
          BY <4>2 DEF NoSum
        <4>4. QED
          BY <1>5, <4>1, <4>3
      <3>5. CASE b = Sums(e, e.tot + 8, e.proto)
        <4>1. b = Holding(t, m, tot + 8, proto, <<tot + 8, proto>>, "ok")
          BY <1>r, <1>6, <3>5 DEF ReplacedIn
        <4>2. tot + 8 > r /\ tot + 8 \in Nat
          BY <1>5, <1>11
        <4>3. QED
          BY <1>5, <4>1, <4>2
      <3>6. CASE b = Sums(e, 16, e.proto)
        <4>1. b = Holding(t, m, 16, proto, <<16, proto>>, "ok")
          BY <1>r, <1>6, <3>6 DEF ReplacedIn
        <4>2. m > 16 /\ 16 \in Nat
          BY <1>5, <1>8, <1>11
        <4>3. QED
          BY <1>5, <4>1, <4>2
      <3>7. CASE Truncated(s, j) /\ b = Sums(e, e.bytes + 2, e.proto)
        <4>1. b = Holding(t, m, m + 2, proto, <<m + 2, proto>>, "ok")
          BY <1>r, <1>6, <3>7 DEF ReplacedIn
        <4>2. m + 2 \in Nat
          BY <1>5
        <4>3. QED
          BY <1>5, <1>9, <3>7, <4>1, <4>2
      <3>8. QED
        BY <1>11, <3>1, <3>2, <3>3, <3>4, <3>5, <3>6, <3>7 DEF WrongIpv4
    <2>2. b.type = t /\ b.bytes = x /\ b.tot = y /\ b.proto = p /\ b.sum = z /\ b.flag = g
      BY <1>7, <2>1
    <2>3. Wrong(f, j)
      <3>1. x = m /\ y = x + 2 /\ s[j + 1].type \in {"TCP", "GRE"} => TooShort(f, j, b.tot)
        BY <1>3, <1>5, <2>2 DEF TooShort
      <3>2. QED
        BY <1>3, <1>5, <1>11, <2>1, <2>2, <3>1 DEF Wrong
    <2>4. QED
      BY <1>1, <1>5, <1>6, <2>1, <2>2, <2>3 DEF WrongField
  <1>12. CASE t = "IPV6" /\ b \in WrongIpv6(e, s, j)
    <2>1. PICK y : /\ b = Holding(t, m, y, proto, sum, "ok") /\ y \in Nat
                   /\ \/ 40 + y > r
                      \/ 40 + y = m + 2 /\ s[j + 1].type \in {"TCP", "GRE"}
      <3>1. CASE b = [e EXCEPT !.tot = @ + 8]
        <4>1. b = Holding(t, m, tot + 8, proto, sum, "ok")
          BY <1>r, <1>6, <3>1 DEF ReplacedIn
        <4>2. 40 + (tot + 8) > r /\ tot + 8 \in Nat
          BY <1>5, <1>12
        <4>3. QED
          BY <4>1, <4>2
      <3>2. CASE Truncated(s, j) /\ b = [e EXCEPT !.tot = 2]
        <4>1. b = Holding(t, m, 2, proto, sum, "ok")
          BY <1>r, <3>2 DEF ReplacedIn
        <4>2. 40 + 2 = m + 2 /\ 2 \in Nat
          BY <1>8, <1>12
        <4>3. QED
          BY <1>9, <3>2, <4>1, <4>2
      <3>3. QED
        BY <1>12, <3>1, <3>2 DEF WrongIpv6
    <2>2. b.type = t /\ b.bytes = m /\ b.tot = y /\ b.proto = proto
      BY <1>7, <2>1
    <2>3. Wrong(f, j)
      <3>1. 40 + y = m + 2 /\ s[j + 1].type \in {"TCP", "GRE"} => TooShort(f, j, 40 + b.tot)
        BY <1>3, <1>5, <2>2 DEF TooShort
      <3>2. QED
        BY <1>3, <1>5, <1>12, <2>1, <2>2, <3>1 DEF Wrong
    <2>4. QED
      BY <1>1, <1>5, <1>6, <2>1, <2>2, <2>3 DEF WrongField
  <1>13. CASE t = "GRE" /\ b \in {[e EXCEPT !.flag = "version"], [e EXCEPT !.flag = "routing"]}
    <2>1. PICK g \in {"version", "routing"} : b = Holding(t, m, tot, proto, sum, g)
      BY <1>r, <1>13 DEF ReplacedIn
    <2>2. b.type = t /\ b.bytes = m /\ b.tot = tot /\ b.proto = proto /\ b.flag = g
      BY <1>7, <2>1
    <2>3. Wrong(f, j)
      BY <1>3, <1>5, <1>13, <2>1, <2>2 DEF Wrong
    <2>4. QED
      BY <1>1, <1>5, <1>6, <2>2, <2>3 DEF WrongField
  <1>14. CASE t = "TCP" /\ (b = [e EXCEPT !.bytes = 16] \/ (n < 40 /\ b = [e EXCEPT !.bytes = @ + 40]))
    <2>1. PICK x : b = Holding(t, x, tot, proto, sum, "ok") /\ x \in Nat /\ (x < 20 \/ x > r)
      <3>1. CASE b = [e EXCEPT !.bytes = 16]
        <4>1. b = Holding(t, 16, tot, proto, sum, "ok") /\ 16 < 20 /\ 16 \in Nat
          BY <1>r, <3>1 DEF ReplacedIn
        <4>2. QED
          BY <4>1
      <3>2. CASE n < 40 /\ b = [e EXCEPT !.bytes = @ + 40]
        <4>1. b = Holding(t, m + 40, tot, proto, sum, "ok")
          BY <1>r, <1>6, <3>2 DEF ReplacedIn
        <4>2. j = Len(s)
          <5>1. t \notin IpTypes \cup {"GRE", "MPLS"}
            BY <1>14 DEF IpTypes
          <5>2. QED
            BY <1>2, <1>5, <5>1, TypesOfStack
        <4>3. r = m + n
          <5>1. SumFacts(s, n)
            BY <1>2, SumsOfStack
          <5>2. QED
            BY <1>5, <4>2, <5>1 DEF SumFacts
        <4>4. m + 40 > r /\ m + 40 \in Nat
          BY <1>2, <1>5, <3>2, <4>3
        <4>5. QED
          BY <4>1, <4>4
      <3>3. QED
        BY <1>14, <3>1, <3>2
    <2>2. b.type = t /\ b.bytes = x /\ b.tot = tot /\ b.proto = proto
      BY <1>7, <2>1
    <2>3. Wrong(f, j)
      BY <1>3, <1>5, <1>14, <2>1, <2>2 DEF Wrong
    <2>4. QED
      BY <1>1, <1>5, <1>6, <2>1, <2>2, <2>3 DEF WrongField
  <1>15. CASE t = "UDP" /\ b \in {[e EXCEPT !.tot = 4], [e EXCEPT !.tot = @ + 1], [e EXCEPT !.tot = @ - 1]}
    <2>0. tot = r /\ r >= 8
      BY <1>5, <1>8, <1>15
    <2>1. PICK y : b = Holding(t, m, y, proto, sum, "ok") /\ y \in Nat /\ y # r
      <3>1. PICK y : b = [e EXCEPT !.tot = y] /\ y \in {4, tot + 1, tot - 1}
        BY <1>6, <1>15
      <3>2. b = Holding(t, m, y, proto, sum, "ok")
        BY <1>r, <3>1 DEF ReplacedIn
      <3>3. y \in Nat /\ y # r
        BY <1>5, <2>0, <3>1
      <3>4. QED
        BY <3>2, <3>3
    <2>2. b.type = t /\ b.bytes = m /\ b.tot = y /\ b.proto = proto
      BY <1>7, <2>1
    <2>3. Wrong(f, j)
      BY <1>3, <1>5, <1>15, <2>1, <2>2 DEF Wrong
    <2>4. QED
      BY <1>1, <1>5, <1>6, <2>1, <2>2, <2>3 DEF WrongField
  <1>16. QED
    BY <1>5, <1>6, <1>10, <1>11, <1>12, <1>13, <1>14, <1>15 DEF WrongFields

\* What all frames with one field replaced have in common
Replacing(s, n, j, b, means, f) ==
    /\ Sendable(s, n) /\ j \in 1 .. Len(s)
    /\ b.type = s[j].type /\ b.tot \in Nat /\ b.bytes \in Nat
    /\ j < Len(s) /\ s[j].type # "MPLS" => b.proto \in {s[j + 1].type, "other"}
    /\ f = KFrame(s, n, s[1].type, [Encoding(s, n) EXCEPT ![j] = b], Total(s, n, 1), means)

OneReplaced(s, n, j, b, means, f) ==
    /\ WellFormed(f) /\ f.in = Whole(f) /\ f.means = means
    /\ f.stack = s /\ f.payload = n /\ f.bits = [Encoding(s, n) EXCEPT ![j] = b] /\ f.bits[j] = b
    /\ Announced(f, 0)
    /\ \A m \in 1 .. Len(s) : m # j => Sound(f, m)
    /\ \A m \in 1 .. Len(s) - 1 : m # j => Announced(f, m)

LEMMA SpoiltFrame ==
  ASSUME NEW s, NEW n, NEW j, NEW b, NEW means, NEW f, Replacing(s, n, j, b, means, f)
  PROVE  OneReplaced(s, n, j, b, means, f)
  <1> USE DEF Replacing
  <1>1. PICK bits, bytes, ether :
           bits = [Encoding(s, n) EXCEPT ![j] = b] /\ bytes = Total(s, n, 1) /\ ether = s[1].type
    OBVIOUS
  <1>2. f = KFrame(s, n, ether, bits, bytes, means)
    BY <1>1
  <1>3. /\ f.stack = s /\ f.payload = n /\ f.bits = bits /\ f.in = bytes /\ f.ether = ether
        /\ f.means = means
    BY <1>2 DEF KFrame
  <1>4. bytes \in Nat /\ bytes \in Int /\ bytes >= -1 /\ bytes >= 0
    BY <1>1, SendableTotal
  <1>5. DOMAIN Encoding(s, n) = 1 .. Len(s)
    <2>1. DOMAIN s = 1 .. Len(s)
      BY TypesOfStack DEF Sendable
    <2>2. QED
      BY <2>1 DEF Encoding
  <1>6. bits[j] = b
    BY <1>1, <1>5
  <1>7. \A m \in 1 .. Len(s) : Field(s, n, bits, j, b, m)
    BY <1>1, <1>5 DEF Field
  <1>8. AtMostOne(s, n, ether, bits, bytes, j, b)
    BY <1>1, <1>4, <1>7 DEF AtMostOne
  <1>9. /\ WellFormed(KFrame(s, n, ether, bits, bytes, means))
        /\ \A m \in 1 .. Len(s) : m # j => Sound(KFrame(s, n, ether, bits, bytes, means), m)
        /\ \A m \in 1 .. Len(s) - 1 : m # j => Announced(KFrame(s, n, ether, bits, bytes, means), m)
    BY <1>8, FrameIsWellFormed
  <1>10. Announced(f, 0)
    BY <1>1, <1>3 DEF Announced, Proto
  <1>11. f.in = Whole(f)
    BY <1>1, <1>3 DEF Whole
  <1>12. QED
    BY <1>1, <1>2, <1>3, <1>6, <1>9, <1>10, <1>11 DEF OneReplaced

LEMMA WrongIsKernels ==
  ASSUME NEW s, NEW n, Sendable(s, n), NEW j \in 1 .. Len(s), NEW b \in WrongFields(s, n, j)
  PROVE  KernelFrame(KFrame(s, n, s[1].type, [Encoding(s, n) EXCEPT ![j] = b], Total(s, n, 1), "BAD"))
  <1>1. PICK f : f = KFrame(s, n, s[1].type, [Encoding(s, n) EXCEPT ![j] = b], Total(s, n, 1), "BAD")
    OBVIOUS
  <1>2. WrongField(s, n, j, b)
    BY WrongFieldsAreWrong
  <1>3. b.type = s[j].type /\ b.tot \in Nat /\ b.bytes \in Nat
    BY <1>2 DEF WrongField
  <1>4. j < Len(s) /\ s[j].type # "MPLS" => b.proto = s[j + 1].type
    <2>1. EncodedFacts(s, n, j)
      BY EncodingFacts DEF Sendable
    <2>2. QED
      BY <1>2, <2>1 DEF WrongField, EncodedFacts
  <1>5. /\ WellFormed(f) /\ f.in = Whole(f) /\ f.means = "BAD"
        /\ f.stack = s /\ f.payload = n /\ f.bits = [Encoding(s, n) EXCEPT ![j] = b] /\ f.bits[j] = b
        /\ Announced(f, 0)
        /\ \A m \in 1 .. Len(s) : m # j => Sound(f, m)
        /\ \A m \in 1 .. Len(s) - 1 : m # j => Announced(f, m)
    <2>1. Replacing(s, n, j, b, "BAD", f)
      BY <1>1, <1>3, <1>4 DEF Replacing
    <2>2. OneReplaced(s, n, j, b, "BAD", f)
      BY <2>1, SpoiltFrame, ZenonT(40)
    <2>3. QED
      BY <2>2 DEF OneReplaced
  <1>6. Wrong(f, j)
    <2>1. PICK g : /\ g = [stack |-> s, payload |-> n, bits |-> [Encoding(s, n) EXCEPT ![j] = b]]
                   /\ Wrong(g, j)
      BY <1>2 DEF WrongField
    <2>2. g.stack = f.stack /\ g.bits = f.bits /\ Reach(g, j) = Reach(f, j)
      BY <1>5, <2>1 DEF Reach
    <2>3. QED
      BY <2>1, <2>2 DEF Wrong, TooShort
  <1>7. AllAnnounced(f)
    <2> SUFFICES ASSUME NEW m \in 0 .. Len(s) - 1 PROVE Announced(f, m)
      BY <1>5 DEF AllAnnounced
    <2>0. Len(s) \in Nat
      BY TypesOfStack DEF Sendable
    <2>1. CASE m = 0
      BY <1>5, <2>1
    <2>2. CASE m # 0 /\ m # j
      BY <1>5, <2>0, <2>2
    <2>3. CASE m # 0 /\ m = j
      <3>1. m < Len(s)
        BY <2>0
      <3>2. QED
        BY <1>4, <1>5, <2>3, <3>1 DEF Announced, Announcing, Proto
    <2>4. QED
      BY <2>1, <2>2, <2>3
  <1>8. WrongFrame(f, j)
    BY <1>5, <1>6, <1>7 DEF WrongFrame
  <1>9. QED
    BY <1>1, <1>5, <1>8 DEF KernelFrame

LEMMA ForeignIsKernels ==
  ASSUME NEW s, NEW n, Sendable(s, n), NEW j \in 1 .. Len(s), NEW b \in Foreign(s, n, j)
  PROVE  KernelFrame(KFrame(s, n, s[1].type, [Encoding(s, n) EXCEPT ![j] = b], Total(s, n, 1),
                            "UNKNOWN_L4"))
  <1>1. PICK f : f = KFrame(s, n, s[1].type, [Encoding(s, n) EXCEPT ![j] = b], Total(s, n, 1),
                            "UNKNOWN_L4")
    OBVIOUS
  <1>2. GoodStack(s) /\ n \in Nat /\ Len(s) \in Nat
    BY TypesOfStack DEF Sendable
  <1>3. EncodedFacts(s, n, j)
    BY <1>2, EncodingFacts
  <1>4. PICK e, t, m, tot, proto, sum :
           /\ e = Encoding(s, n)[j] /\ t = s[j].type /\ m = s[j].bytes
           /\ e = Holding(t, m, tot, proto, sum, "ok") /\ e.tot = tot /\ e.type = t
    BY <1>3 DEF EncodedFacts
  <1>r. ReplacedIn(e, t, m, tot, proto, sum, "ok")
    BY <1>4, Replaced
  <1>5. PICK z : /\ b = Holding(t, m, tot, "other", z, "ok") /\ t \in IpTypes \cup {"GRE"}
                 /\ t = "IPV4" => z = <<tot, "other">>
    <2>1. CASE t = "IPV4"
      <3>1. b = Sums(e, e.tot, "other")
        BY <1>4, <2>1 DEF Foreign
      <3>2. b = Holding(t, m, tot, "other", <<tot, "other">>, "ok")
        BY <1>4, <1>r, <3>1 DEF ReplacedIn
      <3>3. QED
        BY <2>1, <3>2 DEF IpTypes
    <2>2. CASE t \in {"IPV6", "GRE"}
      BY <1>4, <1>r, <2>2 DEF Foreign, IpTypes, ReplacedIn
    <2>3. CASE t \notin {"IPV4", "IPV6", "GRE"}
      BY <1>4, <2>3 DEF Foreign
    <2>4. QED
      BY <2>1, <2>2, <2>3
  <1>6. /\ b.type = t /\ b.bytes = m /\ b.tot = tot /\ b.proto = "other" /\ b.sum = z /\ b.flag = "ok"
    BY <1>5 DEF Holding
  <1>7. j < Len(s)
    <2>1. s[Len(s)].type \in L4Types
      BY <1>2 DEF GoodStack
    <2>2. j # Len(s)
      BY <1>4, <1>5, <2>1 DEF IpTypes, L4Types
    <2>3. QED
      BY <1>2, <2>2
  <1>8. tot \in Nat /\ m \in Nat
    BY <1>2, <1>3, <1>4, TypesOfStack DEF EncodedFacts
  <1>9. /\ WellFormed(f) /\ f.in = Whole(f) /\ f.means = "UNKNOWN_L4"
        /\ f.stack = s /\ f.payload = n /\ f.bits[j] = b
        /\ \A k \in 1 .. Len(s) : k # j => Sound(f, k)
    <2>1. Replacing(s, n, j, b, "UNKNOWN_L4", f)
      BY <1>1, <1>4, <1>6, <1>8 DEF Replacing
    <2>2. OneReplaced(s, n, j, b, "UNKNOWN_L4", f)
      BY <2>1, SpoiltFrame, ZenonT(40)
    <2>3. QED
      BY <2>2 DEF OneReplaced
  <1>10. Sound(f, j)
    BY <1>3, <1>4, <1>5, <1>6, <1>9 DEF Sound, EncodedFacts, Reach
  <1>11. ~Announced(f, j)
    <2>1. s[j + 1].type \in HeaderTypes /\ j + 1 \in 1 .. Len(s)
      BY <1>2, <1>7, TypesOfStack
    <2>2. s[j + 1].type # "other"
      BY <2>1 DEF HeaderTypes, IpTypes, L4Types
    <2>3. t # "MPLS" /\ j # 0
      BY <1>5 DEF IpTypes
    <2>4. QED
      BY <1>4, <1>6, <1>9, <2>2, <2>3 DEF Announced, Announcing, Proto
  <1>12. ~AllAnnounced(f)
    <2>1. j \in 0 .. Len(s) - 1
      BY <1>2, <1>7
    <2>2. QED
      BY <1>9, <1>11, <2>1 DEF AllAnnounced
  <1>13. AllSound(f)
    BY <1>9, <1>10 DEF AllSound
  <1>14. QED
    BY <1>1, <1>9, <1>12, <1>13 DEF KernelFrame, UnknownFrame

LEMMA TotalsOfStack ==
  ASSUME NEW s, GoodStack(s), NEW n \in Nat, NEW j \in 1 .. Len(s) - 1
  PROVE  Total(s, n, j) = s[j].bytes + Total(s, n, j + 1)
  <1>1. SumFacts(s, n) /\ Len(s) \in Nat
    BY TypesOfStack, SumsOfStack
  <1>2. j \in 1 .. Len(s) /\ j + 1 \in 1 .. Len(s)
    BY <1>1
  <1>3. PICK a, b, m, r, q : /\ a = Offset(s, j) /\ b = Offset(s, j + 1) /\ m = s[j].bytes
                             /\ r = Total(s, n, j) /\ q = Total(s, n, j + 1)
    OBVIOUS
  <1>4. a \in Nat /\ b \in Nat /\ m \in Nat /\ r \in Nat /\ q \in Nat
    BY <1>1, <1>2, <1>3 DEF SumFacts
  <1>5. r + a = q + b /\ b = a + m
    <2>1. r + a = Total(s, n, 1) /\ q + b = Total(s, n, 1)
      BY <1>1, <1>2, <1>3 DEF SumFacts
    <2>2. b = a + m
      BY <1>1, <1>3 DEF SumFacts
    <2>3. QED
      BY <2>1, <2>2
  <1>6. r = m + q
    <2>1. PICK a1 \in Nat, m1 \in Nat, r1 \in Nat, q1 \in Nat : a1 = a /\ m1 = m /\ r1 = r /\ q1 = q
      BY <1>4
    <2>2. r1 + a1 = q1 + (a1 + m1)
      BY <1>5, <2>1
    <2>3. r1 = m1 + q1
      BY <2>2
    <2>4. QED
      BY <2>1, <2>3
  <1>7. QED
    BY <1>3, <1>6

LEMMA LongerHeader ==
  ASSUME NEW s, GoodStack(s), NEW n \in Nat, NEW i \in DOMAIN s, s[i].type = "IPV4"
  PROVE  LET u == WithOptions(s, i) IN
         GoodStack(u) /\ Total(u, n, 1) = Total(s, n, 1) + 4 /\ u[1].type = s[1].type
  <1>1. PICK len \in Nat : len = Len(s) /\ len >= 2 /\ DOMAIN s = 1 .. len /\ s \in Seq(Layers)
    BY TypesOfStack
  <1>2. PICK u : u = WithOptions(s, i)
    OBVIOUS
  <1>3. PICK m \in Nat : m = s[i].bytes /\ m >= 20
    BY <1>1, TypesOfStack DEF GoodStack, GoodLayer
  <1>4. i \in 1 .. len - 1
    <2>1. s[len].type \in L4Types
      BY <1>1 DEF GoodStack
    <2>2. i # len
      BY <2>1 DEF L4Types
    <2>3. QED
      BY <1>1, <2>2
  <1>5. PICK x : /\ x = [s[i] EXCEPT !.bytes = @ + 4] /\ x \in Layers
                 /\ x.type = "IPV4" /\ x.bytes = m + 4
    <2>1. s[i] \in Layers
      BY <1>1, ElementOfSeq
    <2>2. s[i] = [type |-> "IPV4", bytes |-> m]
      BY <1>3, <2>1 DEF Layers
    <2>3. m + 4 \in Nat /\ "IPV4" \in HeaderTypes
      BY DEF HeaderTypes, IpTypes
    <2>4. PICK x : x = [type |-> "IPV4", bytes |-> m + 4]
      OBVIOUS
    <2>5. x \in Layers /\ x.type = "IPV4" /\ x.bytes = m + 4
      BY <2>3, <2>4 DEF Layers
    <2>6. [s[i] EXCEPT !.bytes = @ + 4] = x
      BY <2>2, <2>4
    <2>7. QED
      BY <2>5, <2>6
  <1>6. u = [s EXCEPT ![i] = x]
    BY <1>2, <1>5 DEF WithOptions
  <1>7. u \in Seq(Layers) /\ Len(u) = len
    BY <1>1, <1>5, <1>6
  <1>8. u[i] = x /\ \A j \in 1 .. len : j # i => u[j] = s[j]
    BY <1>1, <1>6
  <1>9. \A j \in 1 .. len : u[j].type = s[j].type /\ GoodLayer(u[j])
    <2> SUFFICES ASSUME NEW j \in 1 .. len PROVE u[j].type = s[j].type /\ GoodLayer(u[j])
      OBVIOUS
    <2>1. CASE j = i
      <3>0. m + 4 >= 20
        BY <1>3
      <3>1. u[j].type = "IPV4" /\ u[j].bytes >= 20 /\ s[j].type = "IPV4"
        <4>1. u[j] = x /\ s[j] = s[i]
          BY <1>8, <2>1
        <4>2. QED
          BY <1>5, <3>0, <4>1
      <3>2. QED
        BY <3>1 DEF GoodLayer
    <2>2. CASE j # i
      BY <1>1, <1>8, <2>2 DEF GoodStack
    <2>3. QED
      BY <2>1, <2>2
  <1>10. GoodStack(u)
    <2>1. \A j \in 1 .. len - 1 : j \in 1 .. len /\ j + 1 \in 1 .. len
      BY <1>1
    <2>2. len \in 1 .. len
      BY <1>1
    <2>3. \A j \in 1 .. len - 1 :
             u[j].type \in IpTypes \cup {"GRE", "MPLS"} /\ Follows(u[j].type, u[j + 1].type)
      BY <1>1, <1>9, <2>1 DEF GoodStack
    <2>4. u[len].type \in L4Types
      BY <1>1, <1>9, <2>2 DEF GoodStack
    <2>5. QED
      BY <1>1, <1>7, <1>9, <2>3, <2>4 DEF GoodStack
  <1>11. Total(u, n, 1) = Total(s, n, 1) + 4
    <2> DEFINE g == [j \in 1 .. len |-> IF j <= i THEN Total(s, n, j) + 4 ELSE Total(s, n, j)]
    <2>1. SumFacts(s, n)
      BY SumsOfStack
    <2>2. g[len] = u[len].bytes + n
      <3>1. len \in 1 .. len /\ len # i /\ ~(len <= i)
        BY <1>1, <1>4
      <3>2. g[len] = Total(s, n, len)
        BY <3>1
      <3>3. QED
        BY <1>1, <1>8, <2>1, <3>1, <3>2 DEF SumFacts
    <2>3. ASSUME NEW j \in 1 .. len - 1
          PROVE  g[j] = u[j].bytes + g[j + 1]
      <3>1. j \in 1 .. len /\ j + 1 \in 1 .. len
        BY <1>1
      <3>2. PICK r \in Nat, q \in Nat, b \in Nat :
               r = Total(s, n, j) /\ q = Total(s, n, j + 1) /\ b = s[j].bytes
        BY <1>1, <2>1, <3>1 DEF SumFacts
      <3>3. r = b + q
        BY <1>1, <3>2, TotalsOfStack
      <3>4. CASE j = i
        <4>1. g[j] = r + 4 /\ g[j + 1] = q
          BY <3>1, <3>2, <3>4
        <4>2. u[j].bytes = b + 4
          BY <1>3, <1>5, <1>8, <3>2, <3>4
        <4>3. QED
          BY <3>3, <4>1, <4>2
      <3>5. CASE j < i
        <4>1. g[j] = r + 4 /\ g[j + 1] = q + 4
          BY <1>4, <3>1, <3>2, <3>5
        <4>2. u[j].bytes = b
          BY <1>4, <1>8, <3>1, <3>2, <3>5
        <4>3. QED
          BY <3>3, <4>1, <4>2
      <3>6. CASE j > i
        <4>1. g[j] = r /\ g[j + 1] = q
          BY <1>4, <3>1, <3>2, <3>6
        <4>2. u[j].bytes = b
          BY <1>4, <1>8, <3>1, <3>2, <3>6
        <4>3. QED
          BY <3>3, <4>1, <4>2
      <3>7. QED
        BY <1>4, <3>4, <3>5, <3>6
    <2>4. g[1] = Total(s, n, 1) + 4
      BY <1>1, <1>4
    <2> HIDE DEF g
    <2>5. SumsBehind(u, n, 1, g)
      BY <1>1, <1>7, <2>2, <2>3 DEF SumsBehind
    <2>6. Total(u, n, 1) = g[1]
      BY <2>5, TotalIs, ZenonT(40)
    <2>7. QED
      BY <2>4, <2>6
  <1>12. u[1].type = s[1].type
    BY <1>1, <1>9
  <1>13. QED
    BY <1>2, <1>10, <1>11, <1>12

LEMMA HeaderInFront ==
  ASSUME NEW s, GoodStack(s), NEW n \in Nat, s[1].type \in IpTypes
  PROVE  LET u == Tunnelled(s) IN
         GoodStack(u) /\ Total(u, n, 1) = Total(s, n, 1) + 20 /\ u[1].type = "IPV4"
  <1>1. PICK len \in Nat : len = Len(s) /\ len >= 2 /\ DOMAIN s = 1 .. len /\ s \in Seq(Layers)
    BY TypesOfStack
  <1>2. PICK x : x = [type |-> "IPV4", bytes |-> 20] /\ x.type = "IPV4" /\ x.bytes = 20 /\ x \in Layers
    <2>1. "IPV4" \in HeaderTypes /\ 20 \in Nat
      BY DEF HeaderTypes, IpTypes
    <2>2. [type |-> "IPV4", bytes |-> 20] \in Layers
      BY <2>1 DEF Layers
    <2>3. QED
      BY <2>2
  <1>3. PICK t : t = <<x>> /\ Len(t) = 1 /\ t[1] = x /\ t \in Seq(Layers)
    <2>1. PICK t : t = <<x>>
      OBVIOUS
    <2>2. Len(t) = 1 /\ t[1] = x
      BY <2>1
    <2>3. t \in Seq(Layers)
      BY <1>2, <2>1
    <2>4. QED
      BY <2>1, <2>2, <2>3
  <1>4. PICK u : u = t \o s
    OBVIOUS
  <1>5. u = Tunnelled(s)
    BY <1>2, <1>3, <1>4 DEF Tunnelled
  <1>6. u \in Seq(Layers) /\ Len(u) = len + 1
    <2>1. t \o s \in Seq(Layers) /\ Len(t \o s) = Len(t) + Len(s)
      BY <1>1, <1>3, ConcatProperties, ZenonT(40)
    <2>2. QED
      BY <1>1, <1>3, <1>4, <2>1
  <1>7. u[1] = x /\ \A j \in 1 .. len : u[j + 1] = s[j]
    <2>1. \A j \in 1 .. len + 1 : u[j] = IF j <= 1 THEN t[j] ELSE s[j - 1]
      BY <1>1, <1>3, <1>4
    <2>2. u[1] = x
      BY <1>1, <1>3, <2>1
    <2>3. \A j \in 1 .. len : u[j + 1] = s[j]
      <3> SUFFICES ASSUME NEW j \in 1 .. len PROVE u[j + 1] = s[j]
        OBVIOUS
      <3>1. j + 1 \in 1 .. len + 1 /\ ~(j + 1 <= 1) /\ (j + 1) - 1 = j
        OBVIOUS
      <3>2. QED
        BY <2>1, <3>1
    <2>4. QED
      BY <2>2, <2>3
  <1>8. \A j \in 1 .. len + 1 : GoodLayer(u[j])
    <2> SUFFICES ASSUME NEW j \in 1 .. len + 1 PROVE GoodLayer(u[j])
      OBVIOUS
    <2>1. CASE j = 1
      BY <1>2, <1>7, <2>1 DEF GoodLayer
    <2>2. CASE j # 1
      <3>1. PICK k \in 1 .. len : j = k + 1
        BY <2>2
      <3>2. QED
        BY <1>1, <1>7, <3>1 DEF GoodStack
    <2>3. QED
      BY <2>1, <2>2
  <1>9. \A j \in 1 .. len : u[j].type \in IpTypes \cup {"GRE", "MPLS"} /\ Follows(u[j].type, u[j + 1].type)
    <2> SUFFICES ASSUME NEW j \in 1 .. len
                 PROVE  u[j].type \in IpTypes \cup {"GRE", "MPLS"} /\ Follows(u[j].type, u[j + 1].type)
      OBVIOUS
    <2>1. CASE j = 1
      BY <1>2, <1>7, <2>1 DEF Follows, IpTypes
    <2>2. CASE j # 1
      <3>1. PICK k \in 1 .. len - 1 : j = k + 1 /\ k \in 1 .. len /\ k + 1 \in 1 .. len
        BY <2>2
      <3>2. u[j] = s[k] /\ u[j + 1] = s[k + 1]
        BY <1>7, <3>1
      <3>3. QED
        BY <1>1, <3>2 DEF GoodStack
    <2>3. QED
      BY <2>1, <2>2
  <1>10. GoodStack(u)
    <2>1. u[len + 1].type \in L4Types
      BY <1>1, <1>7 DEF GoodStack
    <2>2. (len + 1) - 1 = len
      BY <1>1
    <2>3. QED
      BY <1>1, <1>6, <1>8, <1>9, <2>1, <2>2 DEF GoodStack
  <1>11. Total(u, n, 1) = Total(s, n, 1) + 20
    <2> DEFINE g == [j \in 1 .. len + 1 |-> IF j = 1 THEN Total(s, n, 1) + 20 ELSE Total(s, n, j - 1)]
    <2>1. SumFacts(s, n)
      BY SumsOfStack
    <2>2. g[len + 1] = u[len + 1].bytes + n
      <3>1. len + 1 \in 1 .. len + 1 /\ len + 1 # 1 /\ (len + 1) - 1 = len
        BY <1>1
      <3>2. g[len + 1] = Total(s, n, len)
        BY <3>1
      <3>3. len \in 1 .. len
        BY <1>1
      <3>4. QED
        BY <1>1, <1>7, <2>1, <3>2, <3>3 DEF SumFacts
    <2>3. ASSUME NEW j \in 1 .. len
          PROVE  g[j] = u[j].bytes + g[j + 1]
      <3>0. j \in 1 .. len + 1 /\ j + 1 \in 1 .. len + 1 /\ j + 1 # 1 /\ (j + 1) - 1 = j
        OBVIOUS
      <3>1. g[j + 1] = Total(s, n, j)
        BY <3>0
      <3>2. PICK q \in Nat : q = Total(s, n, j)
        BY <1>1, <2>1 DEF SumFacts
      <3>3. CASE j = 1
        BY <1>2, <1>7, <3>0, <3>1, <3>2, <3>3
      <3>4. CASE j # 1
        <4>1. PICK k \in 1 .. len - 1 : k = j - 1 /\ k \in 1 .. len /\ k + 1 = j
          BY <3>4
        <4>2. g[j] = Total(s, n, k)
          BY <3>0, <3>4, <4>1
        <4>3. Total(s, n, k) = s[k].bytes + Total(s, n, k + 1)
          BY <1>1, TotalsOfStack
        <4>4. u[j] = s[k]
          BY <1>7, <4>1
        <4>5. QED
          BY <3>1, <4>1, <4>2, <4>3, <4>4
      <3>5. QED
        BY <3>3, <3>4
    <2>4. g[1] = Total(s, n, 1) + 20
      BY <1>1
    <2> HIDE DEF g
    <2>5. SumsBehind(u, n, 1, g)
      <3>1. (len + 1) - 1 = len
        BY <1>1
      <3>2. QED
        BY <1>1, <1>6, <2>2, <2>3, <3>1 DEF SumsBehind
    <2>6. Total(u, n, 1) = g[1]
      BY <2>5, TotalIs, ZenonT(40)
    <2>7. QED
      BY <2>4, <2>6
  <1>12. QED
    BY <1>2, <1>5, <1>7, <1>10, <1>11

LEMMA SniffableIsSendable ==
  ASSUME Describing, pc \notin {"script", "refused", "died"}, Sniffable(Stack, Payload)
  PROVE  Sendable(Stack, Payload)
  <1>1. PICK ls, d : ls = desc.outer /\ d = desc.inner
    OBVIOUS
  <1>2. /\ ls \in Seq(Layers) /\ Described(d)
        /\ \A i \in 1 .. Len(ls) : ls[i].type \in IpTypes \cup {"GRE", "MPLS"} /\ GoodLayer(ls[i])
        /\ L4Type(d) = "TCP" => L4Header(d) >= 20
        /\ L4Type(d) # "TCP" => L4Header(d) = 8
    BY <1>1 DEF Describing
  <1>3. PICK s, m : s = Stack /\ m = Payload /\ s = StackOf(ls, d) /\ m = PayloadOf(d)
    BY <1>1 DEF Stack, Payload, StackOf, PayloadOf
  <1>4. PICK n \in Nat : n = Len(ls)
    BY <1>2
  <1>5. StackFacts(s, ls, d, n)
    BY <1>2, <1>3, <1>4, StackIs
  <1>6. /\ s \in Seq(Layers) /\ Len(s) = n + 2
        /\ \A i \in 1 .. n : s[i] = ls[i]
        /\ s[n + 1].type = d.family /\ s[n + 1].bytes = HeaderBytes[d.family]
        /\ s[n + 2].type = L4Type(d) /\ s[n + 2].bytes = L4Header(d)
    BY <1>5 DEF StackFacts
  <1>7. d.family \in IpTypes /\ L4Type(d) \in L4Types /\ m \in Nat
    BY <1>2, <1>3 DEF Described
  <1>8. ASSUME NEW i \in 1 .. Len(s)
        PROVE  GoodLayer(s[i])
    <2>1. CASE i \in 1 .. n
      BY <1>2, <1>4, <1>6, <2>1
    <2>2. CASE i = n + 1
      <3>1. s[i].type = d.family /\ s[i].bytes = HeaderBytes[d.family]
        BY <1>6, <2>2
      <3>2. QED
        BY <1>7, <3>1, BytesOfHeaders DEF GoodLayer, IpTypes
    <2>3. CASE i = n + 2
      <3>1. s[i].type = L4Type(d) /\ s[i].bytes = L4Header(d)
        BY <1>6, <2>3
      <3>2. QED
        BY <1>2, <1>7, <3>1 DEF GoodLayer, L4Types
    <2>4. QED
      BY <1>6, <2>1, <2>2, <2>3
  <1>9. ASSUME NEW i \in 1 .. Len(s) - 1
        PROVE  s[i].type \in IpTypes \cup {"GRE", "MPLS"} /\ Follows(s[i].type, s[i + 1].type)
    <2>1. Follows(s[i].type, s[i + 1].type)
      BY <1>3 DEF Sniffable, Expressible
    <2>2. CASE i \in 1 .. n
      BY <1>2, <1>4, <1>6, <2>1, <2>2
    <2>3. CASE i = n + 1
      BY <1>6, <1>7, <2>1, <2>3
    <2>4. QED
      BY <1>6, <2>2, <2>3
  <1>10. Len(s) >= 2 /\ s[Len(s)].type \in L4Types
    BY <1>6, <1>7
  <1>11. GoodStack(s)
    BY <1>6, <1>8, <1>9, <1>10 DEF GoodStack
  <1>12. /\ Total(s, m, 1) < U16 - 24
         /\ s[1].type \in IpTypes \cup (IF onWire THEN {"MPLS"} ELSE {})
    BY <1>3 DEF Sniffable
  <1>13. SumFacts(s, m)
    BY <1>7, <1>11, SumsOfStack
  <1>14. Total(s, m, 1) \in Nat
    BY <1>13 DEF SumFacts
  <1>15. Total(s, m, 1) < U16
    BY <1>12, <1>14 DEF U16
  <1>16. QED
    BY <1>3, <1>7, <1>11, <1>12, <1>15 DEF Sendable

LEMMA FrameIsKFrame ==
  ASSUME NEW s, NEW n, NEW bits, NEW bytes, NEW means
  PROVE  Frame(s, n, bits, bytes, means) = KFrame(s, n, s[1].type, bits, bytes, means)
  BY DEF Frame, KFrame

LEMMA SpoiltIn ==
  ASSUME NEW s, NEW n, NEW fields, NEW means, NEW f \in Spoilt(s, n, fields, means)
  PROVE  \E j \in DOMAIN s : \E b \in fields[j] :
            f = Frame(s, n, [Encoding(s, n) EXCEPT ![j] = b], Total(s, n, 1), means)
  <1>1. PICK w \in UNION {{<<i, g>> : g \in fields[i]} : i \in DOMAIN s} :
           f = Frame(s, n, [Encoding(s, n) EXCEPT ![w[1]] = w[2]], Total(s, n, 1), means)
    BY DEF Spoilt
  <1>2. PICK j, b : j \in DOMAIN s /\ b \in fields[j] /\ w = <<j, b>>
    OBVIOUS
  <1>3. w[1] = j /\ w[2] = b
    BY <1>2
  <1>4. QED
    BY <1>1, <1>2, <1>3

LEMMA FramesAreKernels ==
  ASSUME NEW s, NEW n, Sendable(s, n), Total(s, n, 1) < U16 - 24, NEW f \in Frames(s, n)
  PROVE  KernelFrame(f) /\ f.src = "kernel"
  <1>1. PICK r \in Nat : r = Total(s, n, 1) /\ r > 0 /\ r < 65512
    BY SendableTotal DEF U16
  <1>2. GoodStack(s) /\ n \in Nat /\ Len(s) \in Nat /\ DOMAIN s = 1 .. Len(s)
    BY TypesOfStack DEF Sendable
  <1>3. PICK e, w : /\ e = s[1].type /\ w = Encoding(s, n)
    OBVIOUS
  <1>4. Intact(s, n) = KFrame(s, n, e, w, r, "OK")
    BY <1>1, <1>3 DEF Intact, Frame, KFrame
  <1>5. \A x, y, z, g, h, k : KFrame(x, y, z, g, h, k).src = "kernel"
    BY DEF KFrame
  <1>6. CASE f = Intact(s, n)
    <2>1. KernelFrame(KFrame(s, n, e, w, r, "OK"))
      BY <1>1, <1>3, IntactIsKernels
    <2>2. QED
      BY <1>4, <1>5, <1>6, <2>1
  <1>7. CASE f = Padded(s, n)
    <2>1. f = KFrame(s, n, e, w, r + 6, "OK")
      BY <1>4, <1>7 DEF Padded, KFrame
    <2>2. r + 6 \in {Total(s, n, 1), Total(s, n, 1) + 6}
      BY <1>1
    <2>3. KernelFrame(KFrame(s, n, e, w, r + 6, "OK"))
      BY <1>3, <2>2, IntactIsKernels
    <2>4. QED
      BY <1>5, <2>1, <2>3
  <1>8. CASE f \in Cut(s, n)
    <2>1. PICK k \in CutPoints(s, n) :
             k < Total(s, n, 1) /\ f = [Intact(s, n) EXCEPT !.in = k, !.means = "BAD"]
      BY <1>8 DEF Cut
    <2>2. f = KFrame(s, n, e, w, k, "BAD")
      <3>1. PICK g : g = [Intact(s, n) EXCEPT !.in = k]
        OBVIOUS
      <3>2. g = KFrame(s, n, e, w, k, "OK")
        BY <1>4, <3>1 DEF KFrame
      <3>3. [g EXCEPT !.means = "BAD"] = KFrame(s, n, e, w, k, "BAD")
        BY <3>2 DEF KFrame
      <3>4. [Intact(s, n) EXCEPT !.in = k, !.means = "BAD"]
              = [[Intact(s, n) EXCEPT !.in = k] EXCEPT !.means = "BAD"]
        OBVIOUS
      <3>5. QED
        BY <2>1, <3>1, <3>3, <3>4
    <2>3. k \in Int /\ k >= -1 /\ (~onWire => k >= 0)
      <3>0. SumFacts(s, n)
        BY <1>2, SumsOfStack
      <3>1. ASSUME NEW i \in DOMAIN s, k = Offset(s, i) \/ k = Offset(s, i) + 19
            PROVE  k \in Nat
        <4>1. PICK o \in Nat : o = Offset(s, i)
          BY <1>2, <3>0 DEF SumFacts
        <4>2. QED
          BY <3>1, <4>1
      <3>2. CASE k = Total(s, n, 1) - 1
        BY <1>1, <3>2
      <3>3. CASE onWire /\ k = -1
        BY <3>3
      <3>4. \/ \E i \in DOMAIN s : k = Offset(s, i) \/ k = Offset(s, i) + 19
            \/ k = Total(s, n, 1) - 1
            \/ onWire /\ k = -1
        BY <2>1 DEF CutPoints
      <3>5. CASE k \in Nat
        BY <3>5
      <3>6. QED
        BY <3>1, <3>2, <3>3, <3>4, <3>5
    <2>4. KernelFrame(KFrame(s, n, e, w, k, "BAD"))
      BY <1>3, <2>1, <2>3, CutIsKernels
    <2>5. QED
      BY <1>5, <2>2, <2>4
  <1>9. CASE \E i \in {j \in DOMAIN s : s[j].type = "IPV4"} : f = Intact(WithOptions(s, i), n)
    <2>1. PICK i, u : i \in DOMAIN s /\ s[i].type = "IPV4" /\ u = WithOptions(s, i) /\ f = Intact(u, n)
      BY <1>9
    <2>2. GoodStack(u) /\ Total(u, n, 1) = r + 4 /\ u[1].type = s[1].type
      BY <1>1, <1>2, <2>1, LongerHeader
    <2>3. r + 4 < U16
      BY <1>1 DEF U16
    <2>4. Sendable(u, n)
      BY <2>2, <2>3 DEF Sendable
    <2>5. f = KFrame(u, n, u[1].type, Encoding(u, n), Total(u, n, 1), "OK")
      BY <2>1, FrameIsKFrame DEF Intact
    <2>6. KernelFrame(f)
      BY <2>4, <2>5, IntactIsKernels
    <2>7. QED
      BY <1>5, <2>5, <2>6
  <1>10. CASE s[1].type \in IpTypes /\ f = Intact(Tunnelled(s), n)
    <2>1. PICK u : u = Tunnelled(s) /\ f = Intact(u, n)
      BY <1>10
    <2>2. GoodStack(u) /\ Total(u, n, 1) = r + 20 /\ u[1].type = "IPV4"
      BY <1>1, <1>2, <1>10, <2>1, HeaderInFront
    <2>3. r + 20 < U16
      BY <1>1 DEF U16
    <2>4. Sendable(u, n)
      BY <1>2, <2>2, <2>3 DEF Sendable, IpTypes
    <2>5. f = KFrame(u, n, u[1].type, Encoding(u, n), Total(u, n, 1), "OK")
      BY <2>1, FrameIsKFrame DEF Intact
    <2>6. KernelFrame(f)
      BY <2>4, <2>5, IntactIsKernels
    <2>7. QED
      BY <1>5, <2>5, <2>6
  <1>11. CASE f \in Spoilt(s, n, [i \in DOMAIN s |-> WrongFields(s, n, i)], "BAD")
    <2>1. PICK j, b : j \in DOMAIN s /\ b \in WrongFields(s, n, j)
                      /\ f = Frame(s, n, [Encoding(s, n) EXCEPT ![j] = b], Total(s, n, 1), "BAD")
      <3>1. PICK fields : fields = [i \in DOMAIN s |-> WrongFields(s, n, i)]
        OBVIOUS
      <3>2. f \in Spoilt(s, n, fields, "BAD")
        BY <1>11, <3>1
      <3>3. \E j \in DOMAIN s : \E b \in fields[j] :
              f = Frame(s, n, [Encoding(s, n) EXCEPT ![j] = b], Total(s, n, 1), "BAD")
        BY <3>2, SpoiltIn
      <3>4. QED
        BY <3>1, <3>3
    <2>2. f = KFrame(s, n, s[1].type, [Encoding(s, n) EXCEPT ![j] = b], Total(s, n, 1), "BAD")
      BY <2>1, FrameIsKFrame
    <2>3. KernelFrame(f)
      BY <1>2, <2>1, <2>2, WrongIsKernels
    <2>4. QED
      BY <1>5, <2>2, <2>3
  <1>12. CASE f \in Spoilt(s, n, [i \in DOMAIN s |-> Foreign(s, n, i)], "UNKNOWN_L4")
    <2>1. PICK j, b : j \in DOMAIN s /\ b \in Foreign(s, n, j)
                      /\ f = Frame(s, n, [Encoding(s, n) EXCEPT ![j] = b], Total(s, n, 1), "UNKNOWN_L4")
      <3>1. PICK fields : fields = [i \in DOMAIN s |-> Foreign(s, n, i)]
        OBVIOUS
      <3>2. f \in Spoilt(s, n, fields, "UNKNOWN_L4")
        BY <1>12, <3>1
      <3>3. \E j \in DOMAIN s : \E b \in fields[j] :
              f = Frame(s, n, [Encoding(s, n) EXCEPT ![j] = b], Total(s, n, 1), "UNKNOWN_L4")
        BY <3>2, SpoiltIn
      <3>4. QED
        BY <3>1, <3>3
    <2>2. f = KFrame(s, n, s[1].type, [Encoding(s, n) EXCEPT ![j] = b], Total(s, n, 1), "UNKNOWN_L4")
      BY <2>1, FrameIsKFrame
    <2>3. KernelFrame(f)
      BY <1>2, <2>1, <2>2, ForeignIsKernels
    <2>4. QED
      BY <1>5, <2>2, <2>3
  <1>13. CASE onWire /\ f = [Intact(s, n) EXCEPT !.ether = "other", !.means = "UNKNOWN_L4"]
    <2>1. f = KFrame(s, n, "other", w, r, "UNKNOWN_L4")
      <3>1. PICK g : g = [Intact(s, n) EXCEPT !.ether = "other"]
        OBVIOUS
      <3>2. g = KFrame(s, n, "other", w, r, "OK")
        BY <1>4, <3>1 DEF KFrame
      <3>3. [g EXCEPT !.means = "UNKNOWN_L4"] = KFrame(s, n, "other", w, r, "UNKNOWN_L4")
        BY <3>2 DEF KFrame
      <3>4. [Intact(s, n) EXCEPT !.ether = "other", !.means = "UNKNOWN_L4"]
              = [[Intact(s, n) EXCEPT !.ether = "other"] EXCEPT !.means = "UNKNOWN_L4"]
        OBVIOUS
      <3>5. QED
        BY <1>13, <3>1, <3>3, <3>4
    <2>2. KernelFrame(KFrame(s, n, "other", w, r, "UNKNOWN_L4"))
      BY <1>1, <1>3, <1>13, OtherIsKernels
    <2>3. QED
      BY <1>5, <2>1, <2>2
  <1>14. QED
    BY <1>6, <1>7, <1>8, <1>9, <1>10, <1>11, <1>12, <1>13 DEF Frames

-----------------------------------------------------------------------------
(* What the parser finds at a header.                                      *)

\* Where header i stands and what may follow it
PlaceFacts(f, i) ==
    LET s == f.stack
        m == f.stack[i].bytes
        o == Offset(f.stack, i) IN
    /\ Len(s) \in Nat /\ Len(s) >= 2 /\ DOMAIN s = 1 .. Len(s)
    /\ o \in Nat /\ m \in Nat \ {0} /\ Reach(f, i) \in Nat /\ m <= Reach(f, i)
    /\ Reach(f, i) + o = Whole(f) /\ Whole(f) \in Nat /\ Whole(f) < 65536 /\ f.in \in Int
    /\ i = 1 => o = 0
    /\ s[i].type \in HeaderTypes /\ GoodLayer(s[i])
    /\ (i < Len(s)) <=> s[i].type \in IpTypes \cup {"GRE", "MPLS"}
    /\ i < Len(s) => /\ Offset(s, i + 1) = o + m /\ Reach(f, i) = m + Reach(f, i + 1)
                     /\ Reach(f, i + 1) \in Nat /\ Follows(s[i].type, s[i + 1].type)
    /\ \A j \in 1 .. Len(s) : Offset(s, j) = o => j = i

LEMMA Standing ==
  ASSUME NEW f, WellFormed(f), NEW i \in 1 .. Len(f.stack)
  PROVE  PlaceFacts(f, i)
  <1>1. PICK s, n : s = f.stack /\ n = f.payload
    OBVIOUS
  <1>2. /\ GoodStack(s) /\ n \in Nat /\ i \in 1 .. Len(s)
        /\ Whole(f) = Total(s, n, 1) /\ Reach(f, i) = Total(s, n, i)
    BY <1>1 DEF WellFormed, Whole, Reach
  <1>3. Len(s) \in Nat /\ Len(s) >= 2 /\ DOMAIN s = 1 .. Len(s)
    BY <1>2, TypesOfStack
  <1>4. SumFacts(s, n)
    BY <1>2, SumsOfStack
  <1>5. /\ Offset(s, i) \in Nat /\ s[i].bytes \in Nat \ {0} /\ Total(s, n, i) \in Nat
        /\ s[i].bytes <= Total(s, n, i) /\ Total(s, n, i) + Offset(s, i) = Total(s, n, 1)
    BY <1>2, <1>4 DEF SumFacts
  <1>6. i = 1 => Offset(s, i) = 0
    BY <1>4 DEF SumFacts
  <1>7. Total(s, n, 1) \in Nat /\ Total(s, n, 1) < 65536 /\ f.in \in Int
    BY <1>1, <1>2, <1>3, <1>4 DEF SumFacts, WellFormed, U16, Whole
  <1>8. s[i].type \in HeaderTypes /\ GoodLayer(s[i])
    BY <1>2, TypesOfStack DEF GoodStack
  <1>9. (i < Len(s)) <=> s[i].type \in IpTypes \cup {"GRE", "MPLS"}
    <2>1. CASE i = Len(s)
      <3>1. s[i].type \in L4Types
        BY <1>2, <2>1 DEF GoodStack
      <3>2. QED
        BY <2>1, <1>3, <3>1 DEF L4Types, IpTypes
    <2>2. CASE i # Len(s)
      <3>0. PICK len \in Nat : len = Len(s) /\ i \in 1 .. len /\ i # len
        BY <1>2, <1>3, <2>2
      <3>3. i \in 1 .. len - 1 /\ i < len
        BY <3>0
      <3>1. i \in 1 .. Len(s) - 1 /\ i < Len(s)
        BY <3>0, <3>3
      <3>2. QED
        BY <1>2, <3>1 DEF GoodStack
    <2>3. QED
      BY <2>1, <2>2
  <1>10. ASSUME i < Len(s)
         PROVE  /\ Offset(s, i + 1) = Offset(s, i) + s[i].bytes /\ Reach(f, i) = s[i].bytes + Reach(f, i + 1)
                /\ Reach(f, i + 1) \in Nat /\ Follows(s[i].type, s[i + 1].type)
    <2>1. i \in 1 .. Len(s) - 1 /\ i + 1 \in 1 .. Len(s)
      BY <1>2, <1>3, <1>10
    <2>2. Total(s, n, i) = s[i].bytes + Total(s, n, i + 1)
      BY <1>2, <2>1, TotalsOfStack
    <2>3. Offset(s, i + 1) = Offset(s, i) + s[i].bytes /\ Total(s, n, i + 1) \in Nat
      BY <1>4, <2>1 DEF SumFacts
    <2>4. Follows(s[i].type, s[i + 1].type)
      BY <1>2, <2>1 DEF GoodStack
    <2>5. QED
      BY <1>1, <2>2, <2>3, <2>4 DEF Reach
  <1>11. ASSUME NEW j \in 1 .. Len(s), Offset(s, j) = Offset(s, i)
         PROVE  j = i
    <2>1. Offset(s, j) \in Nat /\ Offset(s, i) \in Nat
      BY <1>2, <1>4 DEF SumFacts
    <2>2. ~(i < j) /\ ~(j < i)
      <3>1. i < j => Offset(s, i) < Offset(s, j)
        BY <1>2, <1>4 DEF SumFacts
      <3>2. j < i => Offset(s, j) < Offset(s, i)
        BY <1>2, <1>4 DEF SumFacts
      <3>3. QED
        BY <1>11, <2>1, <3>1, <3>2
    <2>3. PICK x \in Int, y \in Int : x = i /\ y = j
      BY <1>2, <1>3
    <2>4. QED
      BY <2>2, <2>3
  <1>12. QED
    BY <1>1, <1>2, <1>3, <1>5, <1>6, <1>7, <1>8, <1>9, <1>10, <1>11 DEF PlaceFacts

\* What a kernel frame is rejected for
LEMMA CutIsBad ==
  ASSUME NEW f, KernelFrame(f), f.in < Whole(f)
  PROVE  f.means = "BAD"
  <1>1. WellFormed(f) /\ 1 \in 1 .. Len(f.stack)
    BY TypesOfStack DEF KernelFrame, WellFormed
  <1>2. Whole(f) \in Nat /\ f.in \in Int
    BY <1>1, Standing DEF PlaceFacts
  <1>3. f.in # Whole(f) /\ f.in # Whole(f) + 6
    BY <1>2
  <1>4. QED
    BY <1>3 DEF KernelFrame, OkFrame, UnknownFrame, CutFrame, WrongFrame

LEMMA UnsoundIsBad ==
  ASSUME NEW f, KernelFrame(f), NEW m \in 1 .. Len(f.stack), ~Sound(f, m)
  PROVE  f.means = "BAD"
  <1>1. ~AllSound(f)
    BY DEF AllSound
  <1>2. QED
    BY <1>1 DEF KernelFrame, OkFrame, UnknownFrame, CutFrame, WrongFrame

LEMMA UnannouncedIsUnknown ==
  ASSUME NEW f, KernelFrame(f), NEW m \in 0 .. Len(f.stack) - 1, ~Announced(f, m)
  PROVE  f.means = "UNKNOWN_L4"
  <1>1. ~AllAnnounced(f)
    BY DEF AllAnnounced
  <1>2. QED
    BY <1>1 DEF KernelFrame, OkFrame, UnknownFrame, CutFrame, WrongFrame

LEMMA AllPassedIsOk ==
  ASSUME NEW f, KernelFrame(f), f.in >= Whole(f), AllAnnounced(f),
         \A j \in 1 .. Len(f.stack) : ~WrongFrame(f, j)
  PROVE  OkFrame(f)
  <1>1. WellFormed(f) /\ 1 \in 1 .. Len(f.stack)
    BY TypesOfStack DEF KernelFrame, WellFormed
  <1>2. Whole(f) \in Nat /\ f.in \in Int
    BY <1>1, Standing DEF PlaceFacts
  <1>3. ~CutFrame(f)
    BY <1>2 DEF CutFrame
  <1>4. ~UnknownFrame(f)
    BY DEF UnknownFrame
  <1>5. QED
    BY <1>3, <1>4 DEF KernelFrame

\* The parser is at header i of a frame of the kernel.
Standpoint(i) ==
    /\ i \in 1 .. Len(frame.stack) /\ KernelFrame(frame)
    /\ AtHeader(frame, i, live, at, left)
FitsHere(i, n) == Offset(frame.stack, i) + n <= frame.in
Found(i) ==
    /\ PlaceFacts(frame, i) /\ Here = frame.bits[i]
    /\ Here.type = frame.stack[i].type /\ Here.tot \in Nat /\ Here.bytes \in Nat
    /\ live = Parsed(L2, Offset(frame.stack, i), live.headers)
    /\ IsTuple(live.headers) /\ Len(live.headers) = i - 1
    /\ \A n \in Nat : Fits(n) <=> FitsHere(i, n)
    /\ \A n \in Nat : n <= Reach(frame, i) => (CanAppend(live, n) <=> i <= PACKET_MAX_HEADERS)
    /\ \A n \in Nat : CanAppend(live, n) => i <= PACKET_MAX_HEADERS
    /\ PacketEnd - at = frame.in - Offset(frame.stack, i)

LEMMA WhatIsFound ==
  ASSUME NEW i, Standpoint(i)
  PROVE  Found(i)
  <1>1. PICK f, s : f = frame /\ s = frame.stack
    OBVIOUS
  <1>2. WellFormed(f) /\ i \in 1 .. Len(s)
    BY <1>1 DEF Standpoint, KernelFrame
  <1>3. PlaceFacts(f, i)
    BY <1>1, <1>2, Standing
  <1>4. PICK l2 \in Nat, o \in Nat, w \in Nat, e \in Int, r \in Nat :
           /\ l2 = L2 /\ o = Offset(s, i) /\ w = Whole(f) /\ e = f.in /\ r = Reach(f, i)
           /\ r + o = w /\ w < 65536
    <2>1. L2 \in Nat
      BY DEF L2, EtherBytes
    <2>2. QED
      BY <1>1, <1>3, <2>1 DEF PlaceFacts
  <1>16. PICK hs : hs = live.headers
    OBVIOUS
  <1>5. /\ hs = live.headers /\ live = Parsed(l2, o, hs) /\ at = l2 + o
        /\ IsTuple(hs) /\ Len(hs) = i - 1
    <2>1. AtHeader(f, i, live, at, left)
      BY <1>1 DEF Standpoint
    <2>2. /\ at = L2 + Offset(s, i) /\ live = Parsed(L2, Offset(s, i), live.headers)
          /\ RowsOK(f, live.headers, i - 1)
      BY <1>1, <2>1 DEF AtHeader
    <2>3. IsTuple(live.headers) /\ Len(live.headers) = i - 1
      BY <2>2 DEF RowsOK
    <2>4. QED
      BY <1>4, <1>16, <2>2, <2>3
  <1>6. live.l2 = l2 /\ live.ip = o /\ live.buf = 65536
    BY <1>5 DEF Parsed, PACKET_READ_BYTES
  <1>7. HereAt = i
    <2>1. i \in DOMAIN s /\ live.l2 + Offset(s, i) = at
      BY <1>2, <1>3, <1>1, <1>4, <1>5, <1>6 DEF PlaceFacts
    <2>2. ASSUME NEW j \in DOMAIN s, live.l2 + Offset(s, j) = at
          PROVE  j = i
      <3>1. j \in 1 .. Len(s)
        BY <1>1, <1>3 DEF PlaceFacts
      <3>2. Offset(s, j) \in Nat
        BY <1>1, <1>2, <3>1, Standing DEF PlaceFacts
      <3>3. Offset(s, j) = o
        BY <1>4, <1>5, <1>6, <2>2, <3>2
      <3>4. QED
        BY <1>1, <1>3, <1>4, <3>1, <3>3 DEF PlaceFacts
    <2>3. QED
      BY <1>1, <2>1, <2>2 DEF HereAt
  <1>8. Here = f.bits[i]
    BY <1>1, <1>7 DEF Here
  <1>9. f.bits[i].type = s[i].type /\ f.bits[i].tot \in Nat /\ f.bits[i].bytes \in Nat
    BY <1>1, <1>2 DEF WellFormed
  <1>10. PacketEnd = e + l2
    BY <1>1, <1>4 DEF PacketEnd, L2
  <1>11. \A n \in Nat : Fits(n) <=> FitsHere(i, n)
    <2> SUFFICES ASSUME NEW n \in Nat PROVE Fits(n) <=> FitsHere(i, n)
      OBVIOUS
    <2>1. Fits(n) <=> (l2 + o) + n <= e + l2
      BY <1>5, <1>10 DEF Fits
    <2>2. FitsHere(i, n) <=> o + n <= e
      BY <1>1, <1>4 DEF FitsHere
    <2>3. QED
      BY <2>1, <2>2
  <1>12. \A n \in Nat : n <= r => (CanAppend(live, n) <=> i <= PACKET_MAX_HEADERS)
    <2> SUFFICES ASSUME NEW n \in Nat, n <= r PROVE CanAppend(live, n) <=> i <= PACKET_MAX_HEADERS
      OBVIOUS
    <2>1. o + n <= 65536
      BY <1>4
    <2>2. PICK rows \in Nat : rows = PACKET_MAX_HEADERS
      BY HeadersAssumption
    <2>3. i \in Nat
      BY <1>2, <1>3
    <2>4. i - 1 < rows <=> i <= rows
      BY <2>2, <2>3
    <2>5. QED
      BY <1>5, <1>6, <2>1, <2>2, <2>4 DEF CanAppend
  <1>15. \A n \in Nat : CanAppend(live, n) => i <= PACKET_MAX_HEADERS
    <2>1. PICK rows \in Nat : rows = PACKET_MAX_HEADERS
      BY HeadersAssumption
    <2>2. i \in Nat /\ (i - 1 < rows => i <= rows)
      BY <1>2, <1>3, <2>1
    <2>3. \A n : CanAppend(live, n) => i - 1 < rows
      BY <1>5, <1>6, <2>1 DEF CanAppend
    <2>4. QED
      BY <2>1, <2>2, <2>3
  <1>13. PacketEnd - at = e - o
    BY <1>4, <1>5, <1>10, SMTT(20)
  <1>14. QED
    BY <1>1, <1>3, <1>4, <1>5, <1>8, <1>9, <1>11, <1>12, <1>13, <1>15 DEF Found

-----------------------------------------------------------------------------
(* Which headers are passed, and which ones rejected.                      *)

Rejectable == frame.means = "BAD" \/ Len(frame.stack) > PACKET_MAX_HEADERS

\* Header i goes into the table with this total, and l bytes are left.
Passed(i, total, l) ==
    /\ i < Len(frame.stack) /\ i <= PACKET_MAX_HEADERS
    /\ total \in Nat
    /\ frame.means = "OK" => total = IF frame.stack[i].type = "MPLS" THEN frame.in - Offset(frame.stack, i)
                                     ELSE Reach(frame, i)
    /\ NotBeyond(frame, i + 1, l) /\ LeftOK(frame, i + 1, l)

WrongAhead(i) == \A j \in 1 .. Len(frame.stack) : WrongFrame(frame, j) => i <= j

LEMMA NothingWrongYet ==
  ASSUME NEW i, Standpoint(i), frame.stack[i].type \notin {"TCP", "GRE"} \/ left # 2
  PROVE  WrongAhead(i)
  BY DEF Standpoint, AtHeader, NotBeyond, WrongAhead

LEMMA SoundOrWrong ==
  ASSUME NEW i, Standpoint(i)
  PROVE  Sound(frame, i) \/ WrongFrame(frame, i)
  <1>1. i \in 1 .. Len(frame.stack) /\ KernelFrame(frame)
    BY DEF Standpoint
  <1>2. QED
    BY <1>1 DEF KernelFrame, OkFrame, UnknownFrame, CutFrame, WrongFrame, AllSound

LEMMA NotRejectable ==
  ASSUME NEW i, Standpoint(i), ~Rejectable
  PROVE  Sound(frame, i) /\ frame.in >= Whole(frame) /\ i <= PACKET_MAX_HEADERS
  <1>1. i \in 1 .. Len(frame.stack) /\ KernelFrame(frame)
    BY DEF Standpoint
  <1>2. Sound(frame, i)
    BY <1>1, UnsoundIsBad DEF Rejectable
  <1>3. Found(i)
    BY WhatIsFound
  <1>4. PICK w \in Nat, e \in Int, len \in Nat, rows \in Nat :
           w = Whole(frame) /\ e = frame.in /\ len = Len(frame.stack) /\ rows = PACKET_MAX_HEADERS
    BY <1>3, HeadersAssumption DEF Found, PlaceFacts
  <1>5. ~(e < w)
    BY <1>1, <1>4, CutIsBad DEF Rejectable
  <1>6. ~(len > rows)
    BY <1>4 DEF Rejectable
  <1>7. QED
    BY <1>1, <1>2, <1>4, <1>5, <1>6

LEMMA SoundPasses ==
  ASSUME NEW i, Standpoint(i), i < Len(frame.stack), i <= PACKET_MAX_HEADERS, WrongAhead(i),
         ~WrongFrame(frame, i), frame.in < Whole(frame) => frame.stack[i].type = "MPLS", NEW total \in Nat,
         total = IF frame.stack[i].type = "MPLS" THEN frame.in - Offset(frame.stack, i) ELSE Reach(frame, i)
  PROVE  Passed(i, total, total - frame.stack[i].bytes)
  <1>1. PICK f, l : f = frame /\ l = total - frame.stack[i].bytes
    OBVIOUS
  <1>2. Found(i) /\ i \in 1 .. Len(f.stack)
    BY <1>1, WhatIsFound DEF Standpoint
  <1>3. PlaceFacts(f, i)
    BY <1>1, <1>2 DEF Found
  <1>4. (i + 1) - 1 = i /\ i + 1 > 1 /\ i \in Nat
    BY <1>2, <1>3
  <1>5. NotBeyond(f, i, left)
    BY <1>1 DEF Standpoint, AtHeader
  <1>6. NotBeyond(f, i + 1, l)
    <2>1. ASSUME f.in < Whole(f), NEW m \in 1 .. i
          PROVE  f.stack[m].type = "MPLS"
      <3>1. CASE m = i
        BY <1>1, <2>1, <3>1
      <3>2. CASE m # i
        <4>1. m \in 1 .. i - 1
          BY <1>4, <3>2
        <4>2. QED
          BY <1>5, <2>1, <4>1 DEF NotBeyond
      <3>3. QED
        BY <3>1, <3>2
    <2>2. ASSUME NEW j \in 1 .. Len(f.stack), WrongFrame(f, j)
          PROVE  i + 1 <= j
      <3>1. i <= j /\ j # i
        BY <1>1, <2>2 DEF WrongAhead
      <3>2. PICK x \in Nat, y \in Nat : x = i /\ y = j
        BY <1>3, <1>4
      <3>3. QED
        BY <3>1, <3>2
    <2>3. QED
      BY <1>4, <2>1, <2>2 DEF NotBeyond
  <1>7. LeftOK(f, i + 1, l)
    <2>1. CASE f.stack[i].type = "MPLS"
      BY <1>4, <2>1 DEF LeftOK
    <2>2. CASE f.stack[i].type # "MPLS"
      <3>0. i < Len(f.stack)
        BY <1>1
      <3>4. /\ f.stack[i].bytes \in Nat /\ Reach(f, i) \in Nat /\ Reach(f, i + 1) \in Nat
            /\ Reach(f, i) = f.stack[i].bytes + Reach(f, i + 1)
        BY <1>3, <3>0 DEF PlaceFacts
      <3>1. PICK m \in Nat, r \in Nat, q \in Nat :
               m = f.stack[i].bytes /\ r = Reach(f, i) /\ q = Reach(f, i + 1) /\ r = m + q
        BY <3>4
      <3>2. l = r - m
        BY <1>1, <2>2, <3>1
      <3>3. l = q
        BY <3>1, <3>2
      <3>5. QED
        BY <3>1, <3>3 DEF LeftOK
    <2>3. QED
      BY <2>1, <2>2
  <1>8. QED
    BY <1>1, <1>6, <1>7 DEF Passed

LEMMA ShortPasses ==
  ASSUME NEW i, Standpoint(i), i < Len(frame.stack), i <= PACKET_MAX_HEADERS, WrongAhead(i),
         WrongFrame(frame, i), NEW total, TooShort(frame, i, total)
  PROVE  Passed(i, total, total - frame.stack[i].bytes)
  <1>1. PICK f, l : f = frame /\ l = total - frame.stack[i].bytes
    OBVIOUS
  <1>2. Found(i) /\ i \in 1 .. Len(f.stack)
    BY <1>1, WhatIsFound DEF Standpoint
  <1>3. PlaceFacts(f, i)
    BY <1>1, <1>2 DEF Found
  <1>4. (i + 1) - 1 = i /\ i + 1 > 1 /\ i \in Nat
    BY <1>2, <1>3
  <1>5. PICK m \in Nat : m = f.stack[i].bytes /\ total = m + 2
    <2>1. PICK m \in Nat : m = f.stack[i].bytes
      BY <1>3 DEF PlaceFacts
    <2>2. total = m + 2
      BY <1>1, <2>1 DEF TooShort
    <2>3. QED
      BY <2>1, <2>2
  <1>6. l = 2 /\ total \in Nat
    BY <1>1, <1>5
  <1>7. f.means = "BAD" /\ f.in = Whole(f) /\ f.stack[i + 1].type \in {"TCP", "GRE"}
    BY <1>1 DEF WrongFrame, TooShort
  <1>8. ~(f.in < Whole(f))
    BY <1>3, <1>7 DEF PlaceFacts
  <1>9. ASSUME NEW j \in 1 .. Len(f.stack), WrongFrame(f, j)
        PROVE  i + 1 <= j \/ i + 1 = j + 1
    <2>1. i <= j
      BY <1>1, <1>9 DEF WrongAhead
    <2>2. PICK x \in Nat, y \in Nat : x = i /\ y = j
      BY <1>3, <1>4
    <2>3. QED
      BY <2>1, <2>2
  <1>10. NotBeyond(f, i + 1, l)
    BY <1>6, <1>7, <1>8, <1>9 DEF NotBeyond
  <1>11. LeftOK(f, i + 1, l)
    BY <1>6, <1>7 DEF LeftOK
  <1>12. QED
    BY <1>1, <1>6, <1>7, <1>10, <1>11 DEF Passed

LEMMA Ipv4IsJudged ==
  ASSUME NEW i, Standpoint(i), frame.stack[i].type = "IPV4",
         ReadThroughVersion(frame.stack, i) => Here.flag # "version"
  PROVE  IF BadIpv4(Here) THEN Rejectable
         ELSE Passed(i, Here.tot, Here.tot - Here.bytes) /\ Here.bytes = frame.stack[i].bytes
  <1>1. PICK f, b : f = frame /\ b = Here
    OBVIOUS
  <1>2. Found(i) /\ i \in 1 .. Len(f.stack) /\ f.stack[i].type = "IPV4"
    BY <1>1, WhatIsFound DEF Standpoint
  <1>3. PlaceFacts(f, i) /\ b = f.bits[i] /\ b.tot \in Nat /\ b.bytes \in Nat
    BY <1>1, <1>2 DEF Found
  <1>4. PICK o \in Nat, m \in Nat, r \in Nat, w \in Nat, e \in Int, x \in Nat, y \in Nat :
           /\ o = Offset(f.stack, i) /\ m = f.stack[i].bytes /\ r = Reach(f, i) /\ w = Whole(f) /\ e = f.in
           /\ x = b.bytes /\ y = b.tot
           /\ m <= r /\ r + o = w
    <2>1. /\ Offset(f.stack, i) \in Nat /\ f.stack[i].bytes \in Nat /\ Reach(f, i) \in Nat /\ Whole(f) \in Nat
          /\ f.in \in Int /\ f.stack[i].bytes <= Reach(f, i) /\ Reach(f, i) + Offset(f.stack, i) = Whole(f)
      BY <1>3 DEF PlaceFacts
    <2>2. QED
      BY <1>3, <2>1
  <1>5. m >= 20 /\ i < Len(f.stack)
    BY <1>2, <1>3, <1>4 DEF PlaceFacts, GoodLayer, IpTypes
  <1>6. /\ Fits(x) <=> o + x <= e
        /\ Fits(y) <=> o + y <= e
    BY <1>1, <1>2, <1>4 DEF Found, FitsHere
  <1>7. BadIpv4(b) <=> \/ x < 20 \/ ~Fits(x) \/ ~Fits(y) \/ x > y \/ b.flag \in {"more", "offset"}
                       \/ b.sum # <<b.tot, b.proto>> \/ ~CanAppend(live, x)
    BY <1>4, BytesOfHeaders DEF BadIpv4
  <1>8. ASSUME BadIpv4(b), ~Rejectable
        PROVE  FALSE
    <2>1. Sound(f, i) /\ f.in >= Whole(f) /\ i <= PACKET_MAX_HEADERS
      BY <1>1, <1>8, NotRejectable
    <2>2. x = m /\ y = r /\ b.flag = "ok" /\ b.sum = <<b.tot, b.proto>>
      BY <1>2, <1>3, <1>4, <2>1 DEF Sound
    <2>3. CanAppend(live, x)
      BY <1>1, <1>2, <1>4, <2>1, <2>2 DEF Found
    <2>4. e >= w
      BY <1>4, <2>1
    <2>5. o + x <= e /\ o + y <= e /\ ~(x < 20) /\ ~(x > y)
      <3>1. m <= r /\ r + o = w /\ x = m /\ y = r /\ m >= 20 /\ e >= w
        BY <1>4, <1>5, <2>2, <2>4
      <3> HIDE <1>1
      <3>2. QED
        BY ONLY <3>1, o \in Nat, m \in Nat, r \in Nat, w \in Nat, e \in Int, x \in Nat, y \in Nat
    <2>6. QED
      BY <1>6, <1>7, <1>8, <2>2, <2>3, <2>5
  <1>9. ASSUME ~BadIpv4(b)
        PROVE  Passed(i, y, y - x) /\ x = m
    <2>1. /\ ~(x < 20) /\ o + x <= e /\ o + y <= e /\ ~(x > y) /\ b.flag \notin {"more", "offset"}
          /\ b.sum = <<b.tot, b.proto>> /\ CanAppend(live, x)
      BY <1>6, <1>7, <1>9
    <2>2. i <= PACKET_MAX_HEADERS
      BY <1>2, <2>1 DEF Found
    <2>3. WrongAhead(i)
      BY <1>1, <1>2, NothingWrongYet
    <2>4. CASE WrongFrame(f, i)
      <3>1. e = w /\ Wrong(f, i)
        BY <1>4, <2>4 DEF WrongFrame
      <3>2. ~(y > r)
        BY <1>4, <2>1, <3>1
      <3>3. TooShort(f, i, y)
        BY <1>1, <1>2, <1>3, <1>4, <2>1, <3>1, <3>2 DEF Wrong
      <3>4. x = m
        BY <1>3, <1>4, <3>3 DEF TooShort
      <3>5. Passed(i, y, y - m)
        BY <1>1, <1>4, <1>5, <2>2, <2>3, <2>4, <3>3, ShortPasses
      <3>6. QED
        BY <3>4, <3>5
    <2>5. CASE ~WrongFrame(f, i)
      <3>1. Sound(f, i)
        BY <1>1, <2>5, SoundOrWrong
      <3>2. x = m /\ y = r
        BY <1>2, <1>3, <1>4, <3>1 DEF Sound
      <3>3. ~(e < w)
        BY <1>4, <2>1, <3>2
      <3>4. ~(f.in < Whole(f))
        BY <1>4, <3>3
      <3>5. f.stack[i].type # "MPLS"
        BY <1>2
      <3>6. Passed(i, y, y - m)
        BY <1>1, <1>4, <1>5, <2>2, <2>3, <2>5, <3>2, <3>4, <3>5, SoundPasses
      <3>7. QED
        BY <3>2, <3>6
    <2>6. QED
      BY <2>4, <2>5
  <1>10. QED
    BY <1>1, <1>4, <1>8, <1>9

LEMMA Ipv6IsJudged ==
  ASSUME NEW i, Standpoint(i), frame.stack[i].type = "IPV6",
         ReadThroughVersion(frame.stack, i) => Here.flag # "version"
  PROVE  IF BadIpv6(Here) THEN Rejectable ELSE Passed(i, 40 + Here.tot, Here.tot) /\ 40 = frame.stack[i].bytes
  <1>1. PICK f, b : f = frame /\ b = Here
    OBVIOUS
  <1>2. Found(i) /\ i \in 1 .. Len(f.stack) /\ f.stack[i].type = "IPV6"
    BY <1>1, WhatIsFound DEF Standpoint
  <1>3. PlaceFacts(f, i) /\ b = f.bits[i] /\ b.tot \in Nat
    BY <1>1, <1>2 DEF Found
  <1>4. PICK o \in Nat, m \in Nat, r \in Nat, w \in Nat, e \in Int, y \in Nat :
           /\ o = Offset(f.stack, i) /\ m = f.stack[i].bytes /\ r = Reach(f, i) /\ w = Whole(f) /\ e = f.in
           /\ y = b.tot
           /\ m <= r /\ r + o = w
    <2>1. /\ Offset(f.stack, i) \in Nat /\ f.stack[i].bytes \in Nat /\ Reach(f, i) \in Nat /\ Whole(f) \in Nat
          /\ f.in \in Int /\ f.stack[i].bytes <= Reach(f, i) /\ Reach(f, i) + Offset(f.stack, i) = Whole(f)
      BY <1>3 DEF PlaceFacts
    <2>2. QED
      BY <1>3, <2>1
  <1>5. m = 40 /\ i < Len(f.stack)
    BY <1>2, <1>3, <1>4 DEF PlaceFacts, GoodLayer, IpTypes
  <1>6. /\ Fits(40) <=> o + 40 <= e
        /\ Fits(40 + y) <=> o + (40 + y) <= e
    <2>1. 40 \in Nat /\ 40 + y \in Nat
      OBVIOUS
    <2>2. QED
      BY <1>1, <1>2, <1>4, <2>1 DEF Found, FitsHere
  <1>7. BadIpv6(b) <=> ~Fits(40) \/ ~Fits(40 + y) \/ ~CanAppend(live, 40)
    BY <1>4 DEF BadIpv6
  <1>8. ASSUME BadIpv6(b), ~Rejectable
        PROVE  FALSE
    <2>1. Sound(f, i) /\ f.in >= Whole(f) /\ i <= PACKET_MAX_HEADERS
      BY <1>1, <1>8, NotRejectable
    <2>2. 40 + y = r
      BY <1>2, <1>3, <1>4, <2>1 DEF Sound
    <2>3. CanAppend(live, 40)
      BY <1>1, <1>2, <1>4, <1>5, <2>1 DEF Found
    <2>4. e >= w
      BY <1>4, <2>1
    <2>5. o + 40 <= e /\ o + (40 + y) <= e
      BY <1>4, <1>5, <2>2, <2>4, SMTT(20)
    <2>6. QED
      BY <1>6, <1>7, <1>8, <2>3, <2>5
  <1>9. ASSUME ~BadIpv6(b)
        PROVE  Passed(i, 40 + y, (40 + y) - m)
    <2>1. o + (40 + y) <= e /\ CanAppend(live, 40)
      BY <1>6, <1>7, <1>9
    <2>2. i <= PACKET_MAX_HEADERS
      BY <1>2, <2>1 DEF Found
    <2>3. WrongAhead(i)
      BY <1>1, <1>2, NothingWrongYet
    <2>4. CASE WrongFrame(f, i)
      <3>1. e = w /\ Wrong(f, i)
        BY <1>4, <2>4 DEF WrongFrame
      <3>2. ~(40 + y > r)
        BY <1>4, <2>1, <3>1
      <3>3. TooShort(f, i, 40 + y)
        BY <1>1, <1>2, <1>3, <1>4, <3>1, <3>2 DEF Wrong
      <3>4. QED
        BY <1>1, <1>4, <1>5, <2>2, <2>3, <2>4, <3>3, ShortPasses
    <2>5. CASE ~WrongFrame(f, i)
      <3>1. Sound(f, i)
        BY <1>1, <2>5, SoundOrWrong
      <3>2. 40 + y = r
        BY <1>2, <1>3, <1>4, <3>1 DEF Sound
      <3>3. ~(e < w)
        BY <1>4, <2>1, <3>2
      <3>4. ~(f.in < Whole(f))
        BY <1>4, <3>3
      <3>5. f.stack[i].type # "MPLS" /\ 40 + y \in Nat
        BY <1>2
      <3>6. QED
        BY <1>1, <1>4, <1>5, <2>2, <2>3, <2>5, <3>2, <3>4, <3>5, SoundPasses
    <2>6. QED
      BY <2>4, <2>5
  <1>10. (40 + y) - m = y
    BY <1>5
  <1>11. QED
    BY <1>1, <1>4, <1>5, <1>8, <1>9, <1>10

\* What is left for a header that an IP header has announced
LEMMA LeftBehindIp ==
  ASSUME NEW i, Standpoint(i), i > 1, frame.stack[i - 1].type # "MPLS"
  PROVE  /\ left = Reach(frame, i) \/ (left = 2 /\ frame.means = "BAD")
         /\ ~(frame.in < Whole(frame))
  <1>1. i - 1 \in 1 .. i - 1
    <2>1. i \in Nat
      BY WhatIsFound DEF Standpoint
    <2>2. QED
      BY <2>1
  <1>2. QED
    BY <1>1 DEF Standpoint, AtHeader, LeftOK, NotBeyond

LEMMA GreIsJudged ==
  ASSUME NEW i, Standpoint(i), frame.stack[i].type = "GRE"
  PROVE  IF BadGre(Here) THEN Rejectable
         ELSE Passed(i, left, left - Here.bytes) /\ Here.bytes = frame.stack[i].bytes
  <1>1. PICK f, b : f = frame /\ b = Here
    OBVIOUS
  <1>2. Found(i) /\ i \in 1 .. Len(f.stack) /\ f.stack[i].type = "GRE" /\ KernelFrame(f)
    BY <1>1, WhatIsFound DEF Standpoint
  <1>3. PlaceFacts(f, i) /\ b = f.bits[i] /\ b.bytes \in Nat
    BY <1>1, <1>2 DEF Found
  <1>4. PICK m \in Nat, r \in Nat, x \in Nat : m = f.stack[i].bytes /\ r = Reach(f, i) /\ x = b.bytes /\ m <= r
    <2>1. f.stack[i].bytes \in Nat /\ Reach(f, i) \in Nat /\ f.stack[i].bytes <= Reach(f, i)
      BY <1>3 DEF PlaceFacts
    <2>2. QED
      BY <1>3, <2>1
  <1>5. m >= 4 /\ i < Len(f.stack)
    BY <1>2, <1>3, <1>4 DEF PlaceFacts, GoodLayer
  <1>6. i > 1 /\ f.stack[i - 1].type # "MPLS"
    <2>1. i # 1
      BY <1>2 DEF KernelFrame, WellFormed, IpTypes
    <2>0. PICK len \in Nat : len = Len(f.stack) /\ i \in 1 .. len
      BY <1>2, <1>3 DEF PlaceFacts
    <2>a. PICK n \in Nat : n = i - 1 /\ n \in 1 .. len /\ n < len /\ n + 1 = i /\ i > 1
      BY <2>0, <2>1
    <2>2. n = i - 1 /\ n \in 1 .. Len(f.stack) /\ n < Len(f.stack) /\ n + 1 = i /\ i > 1
      BY <2>0, <2>a
    <2>3. PlaceFacts(f, n)
      BY <1>2, <2>2, Standing DEF KernelFrame
    <2>4. Follows(f.stack[n].type, "GRE")
      BY <1>2, <2>2, <2>3 DEF PlaceFacts
    <2>5. QED
      BY <2>2, <2>4 DEF Follows, IpTypes
  <1>7. /\ left = r \/ (left = 2 /\ f.means = "BAD")
        /\ ~(f.in < Whole(f))
    BY <1>1, <1>4, <1>6, LeftBehindIp
  <1>8. ASSUME BadGre(b), ~Rejectable
        PROVE  FALSE
    <2>1. Sound(f, i) /\ i <= PACKET_MAX_HEADERS /\ f.means # "BAD"
      BY <1>1, <1>8, NotRejectable DEF Rejectable
    <2>2. x = m /\ b.flag = "ok" /\ left = r
      BY <1>3, <1>4, <1>7, <2>1 DEF Sound
    <2>3. CanAppend(live, x)
      BY <1>1, <1>2, <1>4, <2>1, <2>2 DEF Found
    <2>4. ~(r < 4) /\ ~(x < 4) /\ ~(x > r)
      BY <1>4, <1>5, <2>2
    <2>5. QED
      BY <1>4, <1>8, <2>2, <2>3, <2>4 DEF BadGre
  <1>9. ASSUME ~BadGre(b)
        PROVE  Passed(i, left, left - m) /\ x = m
    <2>1. ~(left < 4) /\ b.flag \notin {"version", "routing"} /\ CanAppend(live, x)
      BY <1>4, <1>9 DEF BadGre
    <2>2. left = r /\ left # 2
      BY <1>4, <1>5, <1>7, <2>1
    <2>3. i <= PACKET_MAX_HEADERS
      BY <1>2, <2>1 DEF Found
    <2>4. WrongAhead(i)
      BY <1>1, <2>2, NothingWrongYet
    <2>5. ~WrongFrame(f, i)
      BY <1>2, <1>3, <2>1 DEF WrongFrame, Wrong, IpTypes
    <2>6. Sound(f, i)
      BY <1>1, <2>5, SoundOrWrong
    <2>7. x = m
      BY <1>3, <1>4, <2>6 DEF Sound
    <2>8. f.stack[i].type # "MPLS"
      BY <1>2
    <2>9. Passed(i, r, r - m)
      BY <1>1, <1>4, <1>5, <1>7, <2>3, <2>4, <2>5, <2>8, SoundPasses
    <2>10. QED
      BY <2>2, <2>7, <2>9
  <1>10. QED
    BY <1>1, <1>4, <1>8, <1>9

LEMMA MplsIsJudged ==
  ASSUME NEW i, Standpoint(i), frame.stack[i].type = "MPLS"
  PROVE  IF BadMpls(Here) THEN Rejectable
         ELSE Passed(i, PacketEnd - at, (PacketEnd - at) - Here.bytes) /\ Here.bytes = frame.stack[i].bytes
  <1>1. PICK f, b : f = frame /\ b = Here
    OBVIOUS
  <1>2. Found(i) /\ i \in 1 .. Len(f.stack) /\ f.stack[i].type = "MPLS" /\ KernelFrame(f)
    BY <1>1, WhatIsFound DEF Standpoint
  <1>3. PlaceFacts(f, i) /\ b = f.bits[i] /\ b.bytes \in Nat
    BY <1>1, <1>2 DEF Found
  <1>4. PICK o \in Nat, m \in Nat, r \in Nat, w \in Nat, e \in Int :
           /\ o = Offset(f.stack, i) /\ m = f.stack[i].bytes /\ r = Reach(f, i) /\ w = Whole(f) /\ e = f.in
           /\ m <= r /\ r + o = w
    <2>1. /\ Offset(f.stack, i) \in Nat /\ f.stack[i].bytes \in Nat /\ Reach(f, i) \in Nat /\ Whole(f) \in Nat
          /\ f.in \in Int /\ f.stack[i].bytes <= Reach(f, i) /\ Reach(f, i) + Offset(f.stack, i) = Whole(f)
      BY <1>3 DEF PlaceFacts
    <2>2. QED
      BY <1>3, <2>1
  <1>5. i < Len(f.stack)
    BY <1>2, <1>3 DEF PlaceFacts
  <1>6. ~WrongFrame(f, i)
    BY <1>2 DEF WrongFrame, Wrong, IpTypes
  <1>7. Sound(f, i)
    BY <1>1, <1>6, SoundOrWrong
  <1>8. b.bytes = m
    BY <1>3, <1>4, <1>7 DEF Sound
  <1>9. Fits(m) <=> o + m <= e
    BY <1>1, <1>2, <1>4 DEF Found, FitsHere
  <1>10. BadMpls(b) <=> ~Fits(m) \/ ~CanAppend(live, m)
    BY <1>8 DEF BadMpls
  <1>11. PacketEnd - at = e - o
    BY <1>1, <1>2, <1>4 DEF Found
  <1>12. ASSUME BadMpls(b), ~Rejectable
         PROVE  FALSE
    <2>1. f.in >= Whole(f) /\ i <= PACKET_MAX_HEADERS
      BY <1>1, <1>12, NotRejectable
    <2>2. CanAppend(live, m)
      BY <1>1, <1>2, <1>4, <2>1 DEF Found
    <2>3. o + m <= e
      BY <1>4, <2>1
    <2>4. QED
      BY <1>9, <1>10, <1>12, <2>2, <2>3
  <1>13. ASSUME ~BadMpls(b)
         PROVE  Passed(i, PacketEnd - at, (PacketEnd - at) - m)
    <2>1. o + m <= e /\ CanAppend(live, m)
      BY <1>9, <1>10, <1>13
    <2>2. PICK total \in Nat : total = e - o
      BY <1>4, <2>1
    <2>3. i <= PACKET_MAX_HEADERS
      BY <1>2, <1>4, <2>1 DEF Found
    <2>4. WrongAhead(i)
      BY <1>1, <1>2, NothingWrongYet
    <2>5. Passed(i, total, total - m)
      BY <1>1, <1>2, <1>4, <1>5, <1>6, <2>2, <2>3, <2>4, SoundPasses
    <2>6. QED
      BY <1>11, <2>2, <2>5
  <1>14. QED
    BY <1>1, <1>4, <1>8, <1>12, <1>13

\* A transport header that passes is the last one, of a frame that is whole.
Finished(i, n) ==
    /\ i = Len(frame.stack) /\ i <= PACKET_MAX_HEADERS /\ n = frame.stack[i].bytes
    /\ left = Reach(frame, i) /\ OkFrame(frame)

LEMMA TransportIsBehindIp ==
  ASSUME NEW i, Standpoint(i), frame.stack[i].type \in L4Types
  PROVE  i = Len(frame.stack) /\ i > 1 /\ frame.stack[i - 1].type # "MPLS"
  <1>1. PICK f : f = frame
    OBVIOUS
  <1>2. i \in 1 .. Len(f.stack) /\ f.stack[i].type \in L4Types /\ KernelFrame(f)
    BY <1>1 DEF Standpoint
  <1>3. PlaceFacts(f, i)
    BY <1>2, Standing DEF KernelFrame
  <1>4. ~(i < Len(f.stack))
    <2>1. (i < Len(f.stack)) <=> f.stack[i].type \in IpTypes \cup {"GRE", "MPLS"}
      BY <1>3 DEF PlaceFacts
    <2>2. f.stack[i].type \notin IpTypes \cup {"GRE", "MPLS"}
      BY <1>2 DEF L4Types, IpTypes
    <2>3. QED
      BY <2>1, <2>2
  <1>5. PICK len \in Nat : len = Len(f.stack) /\ i \in 1 .. len /\ len >= 2
    BY <1>2, <1>3 DEF PlaceFacts
  <1>6. i = len /\ i > 1 /\ i - 1 \in 1 .. len /\ i - 1 < len /\ (i - 1) + 1 = i
    BY <1>4, <1>5
  <1>7. PlaceFacts(f, i - 1)
    BY <1>2, <1>5, <1>6, Standing DEF KernelFrame
  <1>8. Follows(f.stack[i - 1].type, f.stack[i].type)
    BY <1>5, <1>6, <1>7 DEF PlaceFacts
  <1>9. f.stack[i - 1].type # "MPLS"
    BY <1>2, <1>8 DEF Follows, IpTypes, L4Types
  <1>10. QED
    BY <1>1, <1>5, <1>6, <1>9

LEMMA LastPasses ==
  ASSUME NEW i, Standpoint(i), frame.stack[i].type \in L4Types, Announced(frame, i - 1),
         i <= PACKET_MAX_HEADERS, left = Reach(frame, i), left # 2, ~WrongFrame(frame, i)
  PROVE  Finished(i, frame.stack[i].bytes)
  <1>1. PICK f : f = frame
    OBVIOUS
  <1>2. i = Len(f.stack) /\ i > 1 /\ f.stack[i - 1].type # "MPLS"
    BY <1>1, TransportIsBehindIp
  <1>3. i \in Nat /\ KernelFrame(f) /\ PlaceFacts(f, i)
    <2>1. i \in 1 .. Len(f.stack) /\ KernelFrame(f)
      BY <1>1 DEF Standpoint
    <2>2. QED
      BY <2>1, Standing DEF KernelFrame
  <1>4. ~(f.in < Whole(f))
    BY <1>1, <1>2, LeftBehindIp
  <1>5. f.in >= Whole(f)
    BY <1>3, <1>4 DEF PlaceFacts
  <1>6. AllAnnounced(f)
    <2>1. \A m \in 0 .. i - 2 : Announced(f, m)
      BY <1>1 DEF Standpoint, AtHeader
    <2>2. \A m \in 0 .. i - 1 : m \in 0 .. i - 2 \/ m = i - 1
      BY <1>3
    <2>3. QED
      BY <1>1, <1>2, <2>1, <2>2 DEF AllAnnounced
  <1>7. WrongAhead(i)
    BY NothingWrongYet
  <1>8. \A j \in 1 .. Len(f.stack) : ~WrongFrame(f, j)
    <2> SUFFICES ASSUME NEW j \in 1 .. i, WrongFrame(f, j) PROVE FALSE
      BY <1>2
    <2>1. i <= j
      BY <1>1, <1>2, <1>7 DEF WrongAhead
    <2>2. i = j
      BY <1>3, <2>1
    <2>3. QED
      BY <1>1, <2>2
  <1>9. OkFrame(f)
    BY <1>3, <1>5, <1>6, <1>8, AllPassedIsOk
  <1>10. QED
    BY <1>1, <1>2, <1>9 DEF Finished

LEMMA TcpIsJudged ==
  ASSUME NEW i, Standpoint(i), frame.stack[i].type = "TCP", Announced(frame, i - 1)
  PROVE  IF BadTcp(Here) THEN Rejectable ELSE Finished(i, Here.bytes)
  <1>1. PICK f, b : f = frame /\ b = Here
    OBVIOUS
  <1>2. Found(i) /\ i \in 1 .. Len(f.stack) /\ f.stack[i].type = "TCP" /\ KernelFrame(f)
    BY <1>1, WhatIsFound DEF Standpoint
  <1>3. PlaceFacts(f, i) /\ b = f.bits[i] /\ b.bytes \in Nat
    BY <1>1, <1>2 DEF Found
  <1>4. PICK m \in Nat, r \in Nat, x \in Nat : m = f.stack[i].bytes /\ r = Reach(f, i) /\ x = b.bytes /\ m <= r
    <2>1. f.stack[i].bytes \in Nat /\ Reach(f, i) \in Nat /\ f.stack[i].bytes <= Reach(f, i)
      BY <1>3 DEF PlaceFacts
    <2>2. QED
      BY <1>3, <2>1
  <1>5. m >= 20
    BY <1>2, <1>3, <1>4 DEF PlaceFacts, GoodLayer
  <1>6. left = r \/ (left = 2 /\ f.means = "BAD")
    BY <1>1, <1>2, <1>4, TransportIsBehindIp, LeftBehindIp DEF L4Types
  <1>7. BadTcp(b) <=> left < 20 \/ x < 20 \/ x > left \/ ~CanAppend(live, x)
    BY <1>4, BytesOfHeaders DEF BadTcp
  <1>8. ASSUME BadTcp(b), ~Rejectable
        PROVE  FALSE
    <2>1. Sound(f, i) /\ i <= PACKET_MAX_HEADERS /\ f.means # "BAD"
      BY <1>1, <1>8, NotRejectable DEF Rejectable
    <2>2. x = m /\ left = r
      BY <1>3, <1>4, <1>6, <2>1 DEF Sound
    <2>3. CanAppend(live, x)
      BY <1>1, <1>2, <1>4, <2>1, <2>2 DEF Found
    <2>4. ~(r < 20) /\ ~(x < 20) /\ ~(x > r)
      BY <1>4, <1>5, <2>2
    <2>5. QED
      BY <1>7, <1>8, <2>2, <2>3, <2>4
  <1>9. ASSUME ~BadTcp(b)
        PROVE  Finished(i, x)
    <2>1. ~(left < 20) /\ ~(x < 20) /\ ~(x > left) /\ CanAppend(live, x)
      BY <1>7, <1>9
    <2>2. left = r /\ left # 2
      BY <1>4, <1>5, <1>6, <2>1
    <2>3. i <= PACKET_MAX_HEADERS
      BY <1>2, <1>4, <2>1 DEF Found
    <2>4. ~WrongFrame(f, i)
      <3>1. ~Wrong(f, i)
        BY <1>2, <1>3, <1>4, <2>1, <2>2 DEF Wrong, IpTypes
      <3>2. QED
        BY <3>1 DEF WrongFrame
    <2>5. Sound(f, i)
      BY <1>1, <2>4, SoundOrWrong
    <2>6. x = m
      BY <1>3, <1>4, <2>5 DEF Sound
    <2>7. "TCP" \in L4Types
      BY DEF L4Types
    <2>8. QED
      BY <1>1, <1>2, <1>4, <2>2, <2>3, <2>4, <2>6, <2>7, LastPasses
  <1>10. QED
    BY <1>1, <1>4, <1>8, <1>9

LEMMA UdpIsJudged ==
  ASSUME NEW i, Standpoint(i), frame.stack[i].type = "UDP", Announced(frame, i - 1)
  PROVE  IF BadUdp(Here) THEN Rejectable ELSE Finished(i, 8)
  <1>1. PICK f, b : f = frame /\ b = Here
    OBVIOUS
  <1>2. Found(i) /\ i \in 1 .. Len(f.stack) /\ f.stack[i].type = "UDP" /\ KernelFrame(f)
    BY <1>1, WhatIsFound DEF Standpoint
  <1>3. PlaceFacts(f, i) /\ b = f.bits[i] /\ b.tot \in Nat
    BY <1>1, <1>2 DEF Found
  <1>4. PICK m \in Nat, r \in Nat, y \in Nat : m = f.stack[i].bytes /\ r = Reach(f, i) /\ y = b.tot /\ m <= r
    <2>1. f.stack[i].bytes \in Nat /\ Reach(f, i) \in Nat /\ f.stack[i].bytes <= Reach(f, i)
      BY <1>3 DEF PlaceFacts
    <2>2. QED
      BY <1>3, <2>1
  <1>5. m = 8
    BY <1>2, <1>3, <1>4 DEF PlaceFacts, GoodLayer
  <1>6. left = r \/ (left = 2 /\ f.means = "BAD")
    BY <1>1, <1>2, <1>4, TransportIsBehindIp, LeftBehindIp DEF L4Types
  <1>7. BadUdp(b) <=> left < 8 \/ y < 8 \/ y < left \/ y > left \/ ~CanAppend(live, 8)
    BY <1>4, BytesOfHeaders DEF BadUdp
  <1>8. ASSUME BadUdp(b), ~Rejectable
        PROVE  FALSE
    <2>1. Sound(f, i) /\ i <= PACKET_MAX_HEADERS /\ f.means # "BAD"
      BY <1>1, <1>8, NotRejectable DEF Rejectable
    <2>2. y = r /\ left = r
      BY <1>2, <1>3, <1>4, <1>6, <2>1 DEF Sound
    <2>3. CanAppend(live, 8)
      BY <1>1, <1>2, <1>4, <1>5, <2>1 DEF Found
    <2>4. ~(r < 8) /\ ~(y < r) /\ ~(y > r)
      BY <1>4, <1>5, <2>2
    <2>5. QED
      BY <1>7, <1>8, <2>2, <2>3, <2>4
  <1>9. ASSUME ~BadUdp(b)
        PROVE  Finished(i, 8)
    <2>1. ~(left < 8) /\ ~(y < left) /\ ~(y > left) /\ CanAppend(live, 8)
      BY <1>7, <1>9
    <2>2. left = r /\ left # 2 /\ y = r
      BY <1>4, <1>5, <1>6, <2>1
    <2>3. i <= PACKET_MAX_HEADERS
      BY <1>2, <2>1 DEF Found
    <2>4. ~WrongFrame(f, i)
      <3>1. ~Wrong(f, i)
        BY <1>2, <1>3, <1>4, <2>2 DEF Wrong, IpTypes
      <3>2. QED
        BY <3>1 DEF WrongFrame
    <2>7. "UDP" \in L4Types
      BY DEF L4Types
    <2>8. QED
      BY <1>1, <1>2, <1>4, <1>5, <2>2, <2>3, <2>4, <2>7, LastPasses
  <1>10. QED
    BY <1>1, <1>8, <1>9

LEMMA IcmpIsJudged ==
  ASSUME NEW i, Standpoint(i), NEW t \in {"ICMPV4", "ICMPV6"}, frame.stack[i].type = t, Announced(frame, i - 1)
  PROVE  IF BadIcmp(t) THEN Rejectable ELSE Finished(i, HeaderBytes[t])
  <1>0. HeaderBytes[t] = 8 /\ t \in L4Types
    BY BytesOfHeaders DEF L4Types
  <1>1. PICK f : f = frame
    OBVIOUS
  <1>2. Found(i) /\ i \in 1 .. Len(f.stack) /\ f.stack[i].type = t /\ KernelFrame(f)
    BY <1>1, WhatIsFound DEF Standpoint
  <1>3. PlaceFacts(f, i)
    BY <1>1, <1>2 DEF Found
  <1>4. PICK m \in Nat, r \in Nat : m = f.stack[i].bytes /\ r = Reach(f, i) /\ m <= r
    BY <1>3 DEF PlaceFacts
  <1>5. m = 8
    BY <1>2, <1>3, <1>4 DEF PlaceFacts, GoodLayer
  <1>6. left = r \/ (left = 2 /\ f.means = "BAD")
    BY <1>0, <1>1, <1>2, <1>4, TransportIsBehindIp, LeftBehindIp
  <1>7. BadIcmp(t) <=> left < 8 \/ ~CanAppend(live, 8)
    BY <1>0 DEF BadIcmp
  <1>8. ASSUME BadIcmp(t), ~Rejectable
        PROVE  FALSE
    <2>1. i <= PACKET_MAX_HEADERS /\ f.means # "BAD"
      BY <1>1, <1>8, NotRejectable DEF Rejectable
    <2>2. left = r
      BY <1>6, <2>1
    <2>3. CanAppend(live, 8)
      BY <1>1, <1>2, <1>4, <1>5, <2>1 DEF Found
    <2>4. ~(r < 8)
      BY <1>4, <1>5
    <2>5. QED
      BY <1>7, <1>8, <2>2, <2>3, <2>4
  <1>9. ASSUME ~BadIcmp(t)
        PROVE  Finished(i, 8)
    <2>1. ~(left < 8) /\ CanAppend(live, 8)
      BY <1>7, <1>9
    <2>2. left = r /\ left # 2
      BY <1>4, <1>5, <1>6, <2>1
    <2>3. i <= PACKET_MAX_HEADERS
      BY <1>2, <2>1 DEF Found
    <2>4. ~WrongFrame(f, i)
      <3>1. ~Wrong(f, i)
        BY <1>2, <1>3 DEF Wrong, IpTypes
      <3>2. QED
        BY <3>1 DEF WrongFrame
    <2>8. QED
      BY <1>0, <1>1, <1>2, <1>4, <1>5, <2>2, <2>3, <2>4, LastPasses
  <1>10. QED
    BY <1>0, <1>8, <1>9

-----------------------------------------------------------------------------
(* Steps of the parser.                                                    *)

LEMMA SameDevice ==
  ASSUME onWire' = onWire, NEW f, NEW p, NEW a, NEW l, NEW w, NEW r
  PROVE  /\ KernelFrame(f)' <=> KernelFrame(f)
         /\ ParserOK(f, p, a, l, w)' <=> ParserOK(f, p, a, l, w)
         /\ JudgedOK(f, p, r)' <=> JudgedOK(f, p, r)
  <1>1. KernelFrame(f)' <=> KernelFrame(f)
    BY DEF KernelFrame, WellFormed, OkFrame, UnknownFrame, CutFrame, WrongFrame
  <1>2. L2' = L2
    BY DEF L2
  <1>3. \A hs, k : RowsOK(f, hs, k)' <=> RowsOK(f, hs, k)
    BY <1>2 DEF RowsOK
  <1>4. \A i : AtHeader(f, i, p, a, l)' <=> AtHeader(f, i, p, a, l)
    BY <1>2, <1>3 DEF AtHeader
  <1>5. \A i : Coming(f, i, w)' <=> Coming(f, i, w)
    BY DEF Coming
  <1>6. ParsedAll(f, p)' <=> ParsedAll(f, p)
    BY <1>2, <1>3 DEF ParsedAll
  <1>7. ParserOK(f, p, a, l, w)' <=> ParserOK(f, p, a, l, w)
    BY <1>1, <1>4, <1>5, <1>6 DEF ParserOK
  <1>8. JudgedOK(f, p, r)' <=> JudgedOK(f, p, r)
    BY <1>2, <1>3 DEF JudgedOK, Accepted
  <1>9. QED
    BY <1>1, <1>7, <1>8

LEMMA StillParsing ==
  ASSUME onWire' = onWire, pc' = "parsing", frame' = frame, ParserOK(frame, live', at', left', want')
  PROVE  Judging'
  <1>1. PICK f, p, a, l, w : f = frame /\ p = live' /\ a = at' /\ l = left' /\ w = want'
    OBVIOUS
  <1>2. ParserOK(f, p, a, l, w)
    BY <1>1
  <1>3. ParserOK(f, p, a, l, w)'
    BY <1>2, SameDevice
  <1>4. QED
    BY <1>1, <1>3 DEF Judging

LEMMA RowIsAdded ==
  ASSUME NEW f, NEW hs, NEW k \in Nat, RowsOK(f, hs, k), k + 1 <= PACKET_MAX_HEADERS, NEW total \in Nat,
         f.means = "OK" => total = IF f.stack[k + 1].type = "MPLS" THEN f.in - Offset(f.stack, k + 1)
                                   ELSE Reach(f, k + 1),
         NEW o \in Nat, o = Offset(f.stack, k + 1), NEW n \in Nat, n = f.stack[k + 1].bytes,
         NEW t, t = f.stack[k + 1].type, NEW q, q = AppendHeader(Parsed(L2, o, hs), t, n, total)
  PROVE  q = Parsed(L2, o + n, q.headers) /\ RowsOK(f, q.headers, k + 1)
  <1>1. PICK l2, x, gs : l2 = L2 /\ x = Row(t, l2 + o, n, total) /\ gs = Append(hs, x)
    OBVIOUS
  <1>2. IsTuple(hs) /\ Len(hs) = k
    BY DEF RowsOK
  <1>3. /\ gs = [i \in 1 .. k + 1 |-> gs[i]]
        /\ \A i \in 1 .. k : gs[i] = hs[i]
        /\ gs[k + 1] = x
    BY <1>1, <1>2, AppendedIs
  <1>4. Len(gs) = k + 1 /\ IsTuple(gs)
    <2>1. Len(gs) = k + 1
      BY <1>3
    <2>2. QED
      BY <1>3, <2>1 DEF IsTuple
  <1>5. q = Parsed(l2, o + n, gs)
    <2>1. PICK p : p = Parsed(l2, o, hs)
      OBVIOUS
    <2>2. p.l2 = l2 /\ p.ip = o /\ p.headers = hs
      BY <2>1 DEF Parsed
    <2>3. q = [p EXCEPT !.headers = gs, !.ip = o + n]
      BY <1>1, <2>1, <2>2 DEF AppendHeader, Row
    <2>4. PICK p1 : p1 = [p EXCEPT !.headers = gs]
      OBVIOUS
    <2>5. p1 = Parsed(l2, o, gs)
      BY <2>1, <2>4 DEF Parsed
    <2>6. [p1 EXCEPT !.ip = o + n] = Parsed(l2, o + n, gs)
      BY <2>5 DEF Parsed
    <2>7. [p EXCEPT !.headers = gs, !.ip = o + n] = [[p EXCEPT !.headers = gs] EXCEPT !.ip = o + n]
      OBVIOUS
    <2>8. QED
      BY <2>3, <2>4, <2>6, <2>7, ZenonT(40)
  <1>6. q.headers = gs
    BY <1>5 DEF Parsed
  <1>7. x.total = total
    BY <1>1 DEF Row
  <1>8. ASSUME NEW m \in 1 .. k + 1
        PROVE  /\ gs[m] = Row(f.stack[m].type, L2 + Offset(f.stack, m), f.stack[m].bytes, gs[m].total)
               /\ gs[m].total \in Nat
               /\ f.means = "OK" => gs[m].total = IF f.stack[m].type = "MPLS" THEN f.in - Offset(f.stack, m)
                                                  ELSE Reach(f, m)
    <2>1. CASE m = k + 1
      BY <1>1, <1>3, <1>7, <2>1
    <2>2. CASE m # k + 1
      <3>1. m \in 1 .. k /\ gs[m] = hs[m]
        BY <1>3, <2>2
      <3>2. QED
        BY <3>1 DEF RowsOK
    <2>3. QED
      BY <2>1, <2>2
  <1>9. RowsOK(f, gs, k + 1)
    BY <1>4, <1>8 DEF RowsOK
  <1>10. QED
    BY <1>1, <1>5, <1>6, <1>9

\* The parser moves past header i.
LEMMA AdvanceKeeps ==
  ASSUME NEW i, Standpoint(i), Announced(frame, i - 1), NEW n, n = frame.stack[i].bytes, NEW total,
         NEW who, NEW proto, Passed(i, total, total - n), Advances(frame.stack[i].type, n, total, who, proto),
         Coming(frame, i + 1, [who |-> who, proto |-> proto]), pc = "parsing", onWire' = onWire
  PROVE  Judging'
  <1>1. PICK f, hs, o, t, l : /\ f = frame /\ hs = live.headers /\ o = Offset(frame.stack, i)
                              /\ t = frame.stack[i].type /\ l = total - n
    OBVIOUS
  <1>2. Found(i) /\ i \in 1 .. Len(f.stack) /\ KernelFrame(f) /\ AtHeader(f, i, live, at, left)
    BY <1>1, WhatIsFound DEF Standpoint
  <1>3. PlaceFacts(f, i)
    BY <1>1, <1>2 DEF Found
  <1>4. PICK k \in Nat : k = i - 1 /\ k + 1 = i /\ i \in Nat
    BY <1>2, <1>3
  <1>5. i < Len(f.stack) /\ i <= PACKET_MAX_HEADERS /\ total \in Nat /\ NotBeyond(f, i + 1, l) /\ LeftOK(f, i + 1, l)
    BY <1>1 DEF Passed
  <1>6. n \in Nat /\ o \in Nat /\ Offset(f.stack, i + 1) = o + n
    BY <1>1, <1>3, <1>5 DEF PlaceFacts
  <1>7. live = Parsed(L2, o, hs) /\ RowsOK(f, hs, k) /\ at = L2 + o /\ \A m \in 0 .. i - 2 : Announced(f, m)
    BY <1>1, <1>2, <1>4 DEF AtHeader, Found
  <1>8. PICK q : q = AppendHeader(Parsed(L2, o, hs), t, n, total)
    OBVIOUS
  <1>9. /\ q = live' /\ at' = at + n /\ left' = l /\ want' = [who |-> who, proto |-> proto]
        /\ pc' = pc /\ frame' = frame
    BY <1>1, <1>7, <1>8 DEF Advances, Goes
  <1>10. q = Parsed(L2, o + n, q.headers) /\ RowsOK(f, q.headers, k + 1)
    <2>1. f.means = "OK" => total = IF f.stack[k + 1].type = "MPLS" THEN f.in - Offset(f.stack, k + 1)
                                    ELSE Reach(f, k + 1)
      BY <1>1, <1>4 DEF Passed
    <2>2. /\ o = Offset(f.stack, k + 1) /\ n = f.stack[k + 1].bytes /\ t = f.stack[k + 1].type
          /\ k + 1 <= PACKET_MAX_HEADERS
      BY <1>1, <1>4, <1>5
    <2>3. QED
      BY <1>5, <1>6, <1>7, <1>8, <2>1, <2>2, RowIsAdded
  <1>11. at' = L2 + Offset(f.stack, i + 1)
    <2>1. L2 \in Nat
      BY DEF L2, EtherBytes
    <2>2. QED
      BY <1>6, <1>7, <1>9, <2>1
  <1>12. \A m \in 0 .. i - 1 : Announced(f, m)
    <2>1. \A m \in 0 .. i - 1 : m \in 0 .. i - 2 \/ m = i - 1
      BY <1>4
    <2>2. QED
      BY <1>1, <1>7, <2>1
  <1>13. AtHeader(f, i + 1, q, at', l)
    <2>1. (i + 1) - 1 = i /\ (i + 1) - 2 = i - 1 /\ k + 1 = i
      BY <1>4
    <2>2. QED
      BY <1>5, <1>6, <1>10, <1>11, <1>12, <2>1 DEF AtHeader
  <1>14. i + 1 \in 1 .. Len(f.stack)
    BY <1>3, <1>4, <1>5 DEF PlaceFacts
  <1>15. ParserOK(f, q, at', l, want')
    BY <1>1, <1>2, <1>9, <1>13, <1>14 DEF ParserOK
  <1>16. QED
    BY <1>1, <1>9, <1>15, StillParsing

\* A transport header ends the parse.
LEMMA EndKeeps ==
  ASSUME NEW i, Standpoint(i), NEW n, NEW t, t = frame.stack[i].type, Finished(i, n), Ends(t, n),
         pc = "parsing", onWire' = onWire
  PROVE  Judging'
  <1>1. PICK f, hs, o : f = frame /\ hs = live.headers /\ o = Offset(frame.stack, i)
    OBVIOUS
  <1>2. Found(i) /\ i \in 1 .. Len(f.stack) /\ KernelFrame(f) /\ AtHeader(f, i, live, at, left)
    BY <1>1, WhatIsFound DEF Standpoint
  <1>3. PlaceFacts(f, i)
    BY <1>1, <1>2 DEF Found
  <1>4. PICK k \in Nat : k = i - 1 /\ k + 1 = i /\ i \in Nat
    BY <1>2, <1>3
  <1>5. /\ i = Len(f.stack) /\ i <= PACKET_MAX_HEADERS /\ n = f.stack[i].bytes
        /\ left = Reach(f, i) /\ f.means = "OK"
    BY <1>1 DEF Finished, OkFrame
  <1>6. n \in Nat /\ o \in Nat /\ left \in Nat /\ f.stack[i].type # "MPLS"
    BY <1>1, <1>3, <1>5 DEF PlaceFacts
  <1>7. live = Parsed(L2, o, hs) /\ RowsOK(f, hs, k)
    BY <1>1, <1>2, <1>4 DEF AtHeader, Found
  <1>8. PICK q, r : q = AppendHeader(Parsed(L2, o, hs), t, n, r) /\ r = left
    OBVIOUS
  <1>9. q = live' /\ want' = [who |-> "done", proto |-> t] /\ pc' = pc /\ frame' = frame
    BY <1>1, <1>7, <1>8 DEF Ends, Goes
  <1>10. q = Parsed(L2, o + n, q.headers) /\ RowsOK(f, q.headers, k + 1)
    <2>1. f.means = "OK" => r = IF f.stack[k + 1].type = "MPLS" THEN f.in - Offset(f.stack, k + 1)
                                ELSE Reach(f, k + 1)
      BY <1>4, <1>5, <1>6, <1>8
    <2>2. /\ o = Offset(f.stack, k + 1) /\ n = f.stack[k + 1].bytes /\ t = f.stack[k + 1].type
          /\ k + 1 <= PACKET_MAX_HEADERS /\ r \in Nat
      BY <1>1, <1>4, <1>5, <1>6, <1>8
    <2>3. QED
      BY <1>6, <1>7, <1>8, <2>1, <2>2, RowIsAdded
  <1>11. q.ip = o + n
    BY <1>10 DEF Parsed
  <1>12. ParsedAll(f, q)
    BY <1>4, <1>5, <1>10, <1>11 DEF ParsedAll
  <1>13. want'.who = "done"
    BY <1>9
  <1>14. ParserOK(f, q, at', left', want')
    BY <1>2, <1>12, <1>13 DEF ParserOK
  <1>15. QED
    BY <1>1, <1>9, <1>14, StillParsing

LEMMA ParserIsAtHeader ==
  ASSUME ParserOK(frame, live, at, left, want), want.who \notin {"layer2", "done"}
  PROVE  \E i : Standpoint(i) /\ Coming(frame, i, want)
  <1>1. want # [who |-> "layer2", proto |-> None]
    OBVIOUS
  <1>2. QED
    BY <1>1 DEF ParserOK, Standpoint

LEMMA RejectionKeeps ==
  ASSUME Concludes("BAD"), KernelFrame(frame), Rejectable, onWire' = onWire
  PROVE  Judging'
  <1>1. PICK f, p : f = frame /\ p = PacketNew(0)
    OBVIOUS
  <1>2. /\ pc' \in {"returned", "drain"} /\ live' = p /\ result' = "BAD" /\ frame' = f
    BY <1>1 DEF Concludes
  <1>3. Len(f.stack) <= PACKET_MAX_HEADERS => f.means = "BAD"
    <2>1. PICK len \in Nat, rows \in Nat : len = Len(f.stack) /\ rows = PACKET_MAX_HEADERS
      BY <1>1, TypesOfStack, HeadersAssumption DEF KernelFrame, WellFormed
    <2>2. QED
      BY <1>1, <2>1 DEF Rejectable
  <1>4. JudgedOK(f, p, "BAD")
    BY <1>1, <1>3 DEF JudgedOK
  <1>5. JudgedOK(f, p, "BAD")'
    BY <1>4, SameDevice
  <1>6. QED
    BY <1>2, <1>5 DEF Judging

LEMMA DroppingKeeps ==
  ASSUME Concludes("UNKNOWN_L4"), frame.means = "UNKNOWN_L4"
  PROVE  Judging'
  <1>1. pc' = "receiving" /\ live' = PacketNew(0) /\ result' = "UNKNOWN_L4" /\ frame' = frame
    BY DEF Concludes
  <1>2. PICK p, f : p = PacketNew(0) /\ f = frame
    OBVIOUS
  <1>3. p = PacketNew(0)'
    BY <1>2 DEF PacketNew
  <1>4. QED
    BY <1>1, <1>2, <1>3 DEF Judging

LEMMA GoingOnKeeps ==
  ASSUME NEW i, Standpoint(i), NEW t, t = frame.stack[i].type, Announced(frame, i - 1),
         t \in IpTypes /\ ReadThroughVersion(frame.stack, i) => frame.bits[i].flag # "version",
         GoesOn(t), pc = "parsing", onWire' = onWire
  PROVE  Judging'
  <1>1. /\ want' = [who |-> "header", proto |-> t]
        /\ pc' = pc /\ frame' = frame /\ live' = live /\ at' = at /\ left' = left
    BY DEF GoesOn, Goes
  <1>2. Coming(frame, i, want')
    BY <1>1 DEF Coming
  <1>3. ParserOK(frame, live, at, left, want')
    BY <1>2 DEF ParserOK, Standpoint
  <1>4. QED
    BY <1>1, <1>3, StillParsing

\* What announces the header that comes, where something does
LEMMA AnnouncementIs ==
  ASSUME NEW i, Standpoint(i), Announcing(frame, i - 1)
  PROVE  /\ i - 1 \in 0 .. Len(frame.stack) - 1
         /\ Proto(frame, i - 1) \in {frame.stack[i].type, "other"}
         /\ Proto(frame, i - 1) = frame.stack[i].type => Announced(frame, i - 1)
         /\ Proto(frame, i - 1) = "other" => frame.means = "UNKNOWN_L4"
  <1>1. PICK f : f = frame
    OBVIOUS
  <1>2. WellFormed(f) /\ KernelFrame(f) /\ i \in 1 .. Len(f.stack)
    BY <1>1 DEF Standpoint, KernelFrame
  <1>a. PICK len \in Nat : len = Len(f.stack) /\ i \in 1 .. len
    BY <1>2, TypesOfStack DEF WellFormed
  <1>b. PICK k \in Nat : k = i - 1 /\ k + 1 = i /\ k \in 0 .. len - 1
    BY <1>a
  <1>3. k = i - 1 /\ k + 1 = i /\ len = Len(f.stack) /\ k \in 0 .. len - 1
    BY <1>a, <1>b
  <1>4. Proto(f, k) \in {f.stack[i].type, "other"}
    BY <1>1, <1>2, <1>3 DEF WellFormed
  <1>5. Proto(f, k) = f.stack[i].type => Announced(f, k)
    BY <1>3 DEF Announced
  <1>6. ASSUME Proto(f, k) = "other"
        PROVE  f.means = "UNKNOWN_L4"
    <2>1. f.stack[i].type \in HeaderTypes
      BY <1>2, TypesOfStack DEF WellFormed
    <2>2. f.stack[i].type # "other"
      BY <2>1 DEF HeaderTypes, IpTypes, L4Types
    <2>3. ~Announced(f, k)
      BY <1>1, <1>3, <1>6, <2>2 DEF Announced
    <2>4. QED
      BY <1>2, <1>3, <2>3, UnannouncedIsUnknown
  <1>7. QED
    BY <1>1, <1>3, <1>4, <1>5, <1>6

LEMMA Layer2Keeps ==
  ASSUME Judging, ParseLayer2
  PROVE  Judging'
  <1>1. /\ pc = "parsing" /\ want.who = "layer2" /\ onWire' = onWire /\ ParserOK(frame, live, at, left, want)
        /\ IF ~Fits(14) THEN Concludes("BAD")
           ELSE /\ at' = at + 14 /\ live' = [live EXCEPT !.l2 = 14]
                /\ want' = [who |-> "proto", proto |-> frame.ether]
                /\ pc' = pc /\ frame' = frame /\ left' = left
    BY DEF ParseLayer2, Parsing, Judging, Goes, EtherBytes
  <1>2. ~ \E i : Coming(frame, i, want)
    <2>1. \A proto : /\ want # [who |-> "layer3", proto |-> proto] /\ want # [who |-> "proto", proto |-> proto]
                     /\ want # [who |-> "layer4", proto |-> proto] /\ want # [who |-> "header", proto |-> proto]
      BY <1>1
    <2>2. QED
      BY <2>1 DEF Coming
  <1>3. onWire /\ at = 0 /\ live = Parsed(0, 0, <<>>) /\ KernelFrame(frame)
    BY <1>1, <1>2 DEF ParserOK
  <1>4. PICK f : f = frame
    OBVIOUS
  <1>5. WellFormed(f) /\ 1 \in 1 .. Len(f.stack)
    BY <1>3, <1>4, TypesOfStack DEF KernelFrame, WellFormed
  <1>6. PlaceFacts(f, 1)
    BY <1>5, Standing
  <1>7. CASE ~Fits(14)
    <2>1. PICK e \in Int, w \in Nat : e = f.in /\ w = Whole(f)
      BY <1>6 DEF PlaceFacts
    <2>2. e < 0
      BY <1>3, <1>4, <1>7, <2>1 DEF Fits, PacketEnd, EtherBytes
    <2>3. f.in < Whole(f)
      BY <2>1, <2>2
    <2>4. Rejectable
      BY <1>3, <1>4, <2>3, CutIsBad DEF Rejectable
    <2>5. QED
      BY <1>1, <1>3, <1>7, <2>4, RejectionKeeps
  <1>8. CASE Fits(14)
    <2>1. PICK q : q = Parsed(14, 0, <<>>)
      OBVIOUS
    <2>2. live' = q
      BY <1>1, <1>3, <1>8, <2>1 DEF Parsed
    <2>3. q.headers = <<>> /\ L2 = 14 /\ Offset(f.stack, 1) = 0
      BY <1>3, <1>6, <2>1 DEF Parsed, L2, EtherBytes, PlaceFacts
    <2>4. RowsOK(f, <<>>, 0)
      <3>1. IsTuple(<<>>)
        BY DEF IsTuple
      <3>2. QED
        BY <3>1, HeadersAssumption DEF RowsOK
    <2>5. NotBeyond(f, 1, left) /\ LeftOK(f, 1, left)
      BY DEF NotBeyond, LeftOK
    <2>6. AtHeader(f, 1, q, 14, left)
      BY <2>1, <2>3, <2>4, <2>5 DEF AtHeader
    <2>7. at' = 14
      BY <1>1, <1>3, <1>8
    <2>8. Coming(f, 1, want')
      BY <1>1, <1>3, <1>4, <1>8 DEF Coming, Proto
    <2>9. ParserOK(frame, live', at', left', want')
      BY <1>1, <1>3, <1>4, <1>5, <1>8, <2>2, <2>6, <2>7, <2>8 DEF ParserOK
    <2>10. QED
      BY <1>1, <1>8, <2>9, StillParsing
  <1>9. QED
    BY <1>7, <1>8

\* An IP header that is to come needs as many bytes as its version has.
LEMMA NoRoomForIp ==
  ASSUME NEW i, Standpoint(i), frame.stack[i].type \in IpTypes, NEW n \in Nat,
         n <= HeaderBytes[frame.stack[i].type], ~Fits(n)
  PROVE  Rejectable
  <1>1. PICK f : f = frame
    OBVIOUS
  <1>2. Found(i) /\ i \in 1 .. Len(f.stack) /\ KernelFrame(f)
    BY <1>1, WhatIsFound DEF Standpoint
  <1>3. PlaceFacts(f, i)
    BY <1>1, <1>2 DEF Found
  <1>4. PICK o \in Nat, m \in Nat, r \in Nat, w \in Nat, e \in Int :
           /\ o = Offset(f.stack, i) /\ m = f.stack[i].bytes /\ r = Reach(f, i) /\ w = Whole(f) /\ e = f.in
           /\ m <= r /\ r + o = w
    <2>1. /\ Offset(f.stack, i) \in Nat /\ f.stack[i].bytes \in Nat /\ Reach(f, i) \in Nat /\ Whole(f) \in Nat
          /\ f.in \in Int /\ f.stack[i].bytes <= Reach(f, i) /\ Reach(f, i) + Offset(f.stack, i) = Whole(f)
      BY <1>3 DEF PlaceFacts
    <2>2. QED
      BY <2>1
  <1>5. n <= m
    <2>0. GoodLayer(f.stack[i]) /\ f.stack[i].type \in {"IPV4", "IPV6"}
      BY <1>1, <1>3 DEF PlaceFacts, IpTypes
    <2>1. HeaderBytes[f.stack[i].type] <= m
      <3>1. CASE f.stack[i].type = "IPV4"
        BY <1>4, <2>0, <3>1, BytesOfHeaders DEF GoodLayer
      <3>2. CASE f.stack[i].type = "IPV6"
        BY <1>4, <2>0, <3>2, BytesOfHeaders DEF GoodLayer
      <3>3. QED
        BY <2>0, <3>1, <3>2
    <2>2. PICK h \in Nat : h = HeaderBytes[f.stack[i].type]
      BY <1>1, BytesOfHeaders DEF IpTypes
    <2>3. QED
      BY <1>1, <1>4, <2>1, <2>2
  <1>6. ~(o + n <= e)
    BY <1>1, <1>2, <1>4 DEF Found, FitsHere
  <1>7. e < w
    BY <1>4, <1>5, <1>6
  <1>8. QED
    BY <1>1, <1>2, <1>4, <1>7, CutIsBad DEF Rejectable

LEMMA VersionIsBad ==
  ASSUME NEW i, Standpoint(i), Here.flag = "version"
  PROVE  Rejectable
  <1>1. Here = frame.bits[i] /\ i \in 1 .. Len(frame.stack) /\ KernelFrame(frame)
    BY WhatIsFound DEF Standpoint, Found
  <1>2. ~Sound(frame, i)
    BY <1>1 DEF Sound
  <1>3. QED
    BY <1>1, <1>2, UnsoundIsBad DEF Rejectable

LEMMA Layer3Keeps ==
  ASSUME Judging, ParseLayer3
  PROVE  Judging'
  <1>1. /\ pc = "parsing" /\ want.who = "layer3" /\ onWire' = onWire /\ ParserOK(frame, live, at, left, want)
        /\ IF ~Fits(20) THEN Concludes("BAD")
           ELSE IF Here.flag = "version" THEN Concludes("BAD") ELSE GoesOn(Here.type)
    BY BytesOfHeaders DEF ParseLayer3, Parsing, Judging
  <1>2. PICK i : Standpoint(i) /\ Coming(frame, i, want)
    BY <1>1, ParserIsAtHeader
  <1>3. IF i = 1 THEN ~onWire ELSE frame.stack[i - 1].type = "MPLS"
    <2>1. \A proto : /\ want # [who |-> "header", proto |-> proto] /\ want # [who |-> "proto", proto |-> proto]
                     /\ want # [who |-> "layer4", proto |-> proto]
      BY <1>1
    <2>2. QED
      BY <1>2, <2>1 DEF Coming
  <1>4. PICK f : f = frame
    OBVIOUS
  <1>5. Found(i) /\ i \in 1 .. Len(f.stack) /\ KernelFrame(f) /\ WellFormed(f)
    BY <1>2, <1>4, WhatIsFound DEF Standpoint, KernelFrame
  <1>6. f.stack[i].type \in IpTypes /\ Announced(f, i - 1)
    <2>1. CASE i = 1
      <3>1. i - 1 = 0
        BY <2>1
      <3>2. QED
        BY <1>3, <1>4, <1>5, <2>1, <3>1 DEF WellFormed, Announced, Proto
    <2>2. CASE i # 1
      <3>1. PICK len \in Nat : len = Len(f.stack) /\ i \in 1 .. len
        BY <1>5, TypesOfStack DEF WellFormed
      <3>2. PICK n \in Nat : n = i - 1 /\ n + 1 = i /\ n \in 1 .. len /\ n < len
        BY <2>2, <3>1
      <3>3. PlaceFacts(f, n) /\ f.stack[n].type = "MPLS"
        BY <1>3, <1>4, <1>5, <2>2, <3>1, <3>2, Standing
      <3>4. Follows("MPLS", f.stack[i].type)
        BY <3>1, <3>2, <3>3 DEF PlaceFacts
      <3>5. f.stack[i].type \in IpTypes
        BY <3>4 DEF Follows, IpTypes
      <3>6. Announced(f, i - 1)
        BY <3>2, <3>3 DEF Announced, Announcing
      <3>7. QED
        BY <3>5, <3>6
    <2>3. QED
      BY <2>1, <2>2
  <1>7. Here = f.bits[i] /\ Here.type = f.stack[i].type
    BY <1>4, <1>5 DEF Found
  <1>8. CASE ~Fits(20)
    <2>1. 20 <= HeaderBytes[f.stack[i].type]
      BY <1>6, BytesOfHeaders DEF IpTypes
    <2>2. Rejectable
      BY <1>2, <1>4, <1>6, <1>8, <2>1, NoRoomForIp
    <2>3. QED
      BY <1>1, <1>4, <1>5, <1>8, <2>2, RejectionKeeps
  <1>9. CASE Fits(20) /\ Here.flag = "version"
    <2>1. Rejectable
      BY <1>2, <1>9, VersionIsBad
    <2>2. QED
      BY <1>1, <1>4, <1>5, <1>9, <2>1, RejectionKeeps
  <1>10. CASE Fits(20) /\ Here.flag # "version"
    <2>1. GoesOn(f.stack[i].type)
      BY <1>1, <1>7, <1>10
    <2>2. QED
      BY <1>1, <1>2, <1>4, <1>6, <1>7, <1>10, <2>1, GoingOnKeeps
  <1>11. QED
    BY <1>8, <1>9, <1>10

LEMMA Layer3ByProtoKeeps ==
  ASSUME Judging, ParseLayer3ByProto
  PROVE  Judging'
  <1>1. /\ pc = "parsing" /\ want.who = "proto" /\ onWire' = onWire /\ ParserOK(frame, live, at, left, want)
        /\ CASE want.proto \in IpTypes ->
                  IF ~Fits(HeaderBytes[want.proto]) THEN Concludes("BAD")
                  ELSE IF Here.flag = "version" THEN Concludes("BAD") ELSE GoesOn(want.proto)
             [] want.proto = "MPLS" -> GoesOn("MPLS")
             [] OTHER -> Concludes("UNKNOWN_L4")
    BY DEF ParseLayer3ByProto, Parsing, Judging
  <1>2. PICK i : Standpoint(i) /\ Coming(frame, i, want)
    BY <1>1, ParserIsAtHeader
  <1>3. /\ want = [who |-> "proto", proto |-> Proto(frame, i - 1)]
        /\ IF i = 1 THEN onWire ELSE frame.stack[i - 1].type = "GRE"
    <2>1. \A proto : /\ want # [who |-> "header", proto |-> proto] /\ want # [who |-> "layer3", proto |-> proto]
                     /\ want # [who |-> "layer4", proto |-> proto]
      BY <1>1
    <2>2. QED
      BY <1>2, <2>1 DEF Coming
  <1>4. PICK f, t, u : f = frame /\ t = want.proto /\ u = frame.stack[i].type
    OBVIOUS
  <1>5. Found(i) /\ i \in 1 .. Len(f.stack) /\ KernelFrame(f) /\ WellFormed(f)
    BY <1>2, <1>4, WhatIsFound DEF Standpoint, KernelFrame
  <1>6. t = Proto(f, i - 1)
    BY <1>3, <1>4
  <1>7. u \in IpTypes \cup {"MPLS"} /\ Announcing(f, i - 1)
    <2>1. CASE i = 1
      <3>1. i - 1 = 0
        BY <2>1
      <3>2. QED
        BY <1>4, <1>5, <2>1, <3>1 DEF WellFormed, Announcing
    <2>2. CASE i # 1
      <3>1. PICK len \in Nat : len = Len(f.stack) /\ i \in 1 .. len
        BY <1>5, TypesOfStack DEF WellFormed
      <3>2. PICK n \in Nat : n = i - 1 /\ n + 1 = i /\ n \in 1 .. len /\ n < len
        BY <2>2, <3>1
      <3>3. PlaceFacts(f, n) /\ f.stack[n].type = "GRE"
        BY <1>3, <1>4, <1>5, <2>2, <3>1, <3>2, Standing
      <3>4. Follows("GRE", f.stack[i].type)
        BY <3>1, <3>2, <3>3 DEF PlaceFacts
      <3>5. u \in IpTypes \cup {"MPLS"}
        BY <1>4, <3>4 DEF Follows, IpTypes
      <3>6. Announcing(f, i - 1)
        BY <3>2, <3>3 DEF Announcing
      <3>7. QED
        BY <3>5, <3>6
    <2>3. QED
      BY <2>1, <2>2
  <1>8. /\ t \in {u, "other"}
        /\ t = u => Announced(f, i - 1)
        /\ t = "other" => f.means = "UNKNOWN_L4"
    BY <1>2, <1>4, <1>6, <1>7, AnnouncementIs
  <1>9. Here = f.bits[i]
    BY <1>4, <1>5 DEF Found
  <1>10. CASE t = u /\ u \in IpTypes
    <2>1. IF ~Fits(HeaderBytes[u]) THEN Concludes("BAD")
          ELSE IF Here.flag = "version" THEN Concludes("BAD") ELSE GoesOn(u)
      BY <1>1, <1>4, <1>10 DEF IpTypes
    <2>2. PICK h \in Nat : h = HeaderBytes[u]
      BY <1>10, BytesOfHeaders DEF IpTypes
    <2>3. CASE ~Fits(HeaderBytes[u])
      <3>1. ~Fits(h) /\ h <= HeaderBytes[f.stack[i].type]
        BY <1>4, <2>2, <2>3
      <3>2. Rejectable
        BY <1>2, <1>4, <1>10, <3>1, NoRoomForIp
      <3>3. QED
        BY <1>1, <1>4, <1>5, <2>1, <2>3, <3>2, RejectionKeeps
    <2>4. CASE Fits(HeaderBytes[u]) /\ Here.flag = "version"
      <3>1. Rejectable
        BY <1>2, <2>4, VersionIsBad
      <3>2. QED
        BY <1>1, <1>4, <1>5, <2>1, <2>4, <3>1, RejectionKeeps
    <2>5. CASE Fits(HeaderBytes[u]) /\ Here.flag # "version"
      <3>1. GoesOn(u)
        BY <2>1, <2>5
      <3>2. QED
        BY <1>1, <1>2, <1>4, <1>8, <1>9, <1>10, <2>5, <3>1, GoingOnKeeps
    <2>6. QED
      BY <2>3, <2>4, <2>5
  <1>11. CASE t = u /\ u = "MPLS"
    <2>0. "MPLS" \notin IpTypes
      BY DEF IpTypes
    <2>1. GoesOn(u)
      BY <1>1, <1>4, <1>11, <2>0
    <2>2. QED
      BY <1>1, <1>2, <1>4, <1>8, <1>11, <2>0, <2>1, GoingOnKeeps
  <1>12. CASE t = "other"
    <2>0. "other" \notin IpTypes
      BY DEF IpTypes
    <2>1. Concludes("UNKNOWN_L4")
      BY <1>1, <1>4, <1>12, <2>0
    <2>2. QED
      BY <1>4, <1>8, <1>12, <2>1, DroppingKeeps
  <1>13. QED
    BY <1>7, <1>8, <1>10, <1>11, <1>12

LEMMA Layer4Keeps ==
  ASSUME Judging, ParseLayer4
  PROVE  Judging'
  <1>1. /\ pc = "parsing" /\ want.who = "layer4" /\ onWire' = onWire /\ ParserOK(frame, live, at, left, want)
        /\ IF want.proto \in L4Types \cup IpTypes \cup {"GRE"} THEN GoesOn(want.proto)
           ELSE Concludes("UNKNOWN_L4")
    BY DEF ParseLayer4, Parsing, Judging
  <1>2. PICK i : Standpoint(i) /\ Coming(frame, i, want)
    BY <1>1, ParserIsAtHeader
  <1>3. want = [who |-> "layer4", proto |-> Proto(frame, i - 1)] /\ i > 1 /\ frame.stack[i - 1].type \in IpTypes
    <2>1. \A proto : /\ want # [who |-> "header", proto |-> proto] /\ want # [who |-> "layer3", proto |-> proto]
                     /\ want # [who |-> "proto", proto |-> proto]
      BY <1>1
    <2>2. QED
      BY <1>2, <2>1 DEF Coming
  <1>4. PICK f, t, u : f = frame /\ t = want.proto /\ u = frame.stack[i].type
    OBVIOUS
  <1>5. i \in 1 .. Len(f.stack) /\ KernelFrame(f) /\ WellFormed(f)
    BY <1>2, <1>4 DEF Standpoint, KernelFrame
  <1>6. t = Proto(f, i - 1)
    BY <1>3, <1>4
  <1>7. u \in L4Types \cup IpTypes \cup {"GRE"} /\ Announcing(f, i - 1) /\ ~ReadThroughVersion(f.stack, i)
    <2>1. PICK len \in Nat : len = Len(f.stack) /\ i \in 1 .. len
      BY <1>5, TypesOfStack DEF WellFormed
    <2>2. PICK n \in Nat : n = i - 1 /\ n + 1 = i /\ n \in 1 .. len /\ n < len
      BY <1>3, <2>1
    <2>3. PlaceFacts(f, n) /\ f.stack[n].type \in IpTypes
      BY <1>3, <1>4, <1>5, <2>1, <2>2, Standing
    <2>4. Follows(f.stack[n].type, u)
      BY <1>4, <2>1, <2>2, <2>3 DEF PlaceFacts
    <2>5. u \in HeaderTypes
      BY <1>4, <1>5, TypesOfStack DEF WellFormed
    <2>6. u \in L4Types \cup IpTypes \cup {"GRE"}
      BY <2>3, <2>4, <2>5 DEF Follows, HeaderTypes, IpTypes
    <2>7. f.stack[i - 1].type \in {"IPV4", "IPV6"} /\ i # 1
      BY <1>3, <1>4 DEF IpTypes
    <2>8. Announcing(f, i - 1) /\ ~ReadThroughVersion(f.stack, i)
      BY <2>7 DEF Announcing, ReadThroughVersion
    <2>9. QED
      BY <2>6, <2>8
  <1>8. /\ t \in {u, "other"}
        /\ t = u => Announced(f, i - 1)
        /\ t = "other" => f.means = "UNKNOWN_L4"
    BY <1>2, <1>4, <1>6, <1>7, AnnouncementIs
  <1>9. CASE t = u
    <2>1. GoesOn(u)
      BY <1>1, <1>4, <1>7, <1>9
    <2>2. QED
      BY <1>1, <1>2, <1>4, <1>7, <1>8, <1>9, <2>1, GoingOnKeeps
  <1>10. CASE t = "other"
    <2>0. "other" \notin L4Types \cup IpTypes \cup {"GRE"}
      BY DEF IpTypes, L4Types
    <2>1. Concludes("UNKNOWN_L4")
      BY <1>1, <1>4, <1>10, <2>0
    <2>2. QED
      BY <1>4, <1>8, <1>10, <2>1, DroppingKeeps
  <1>11. QED
    BY <1>8, <1>9, <1>10

\* The parser is at the header that it has been sent to.
AtWanted(i, t) ==
    /\ Standpoint(i) /\ frame.stack[i].type = t /\ Announced(frame, i - 1)
    /\ t \in IpTypes /\ ReadThroughVersion(frame.stack, i) => Here.flag # "version"
    /\ Here.proto = Proto(frame, i) /\ KernelFrame(frame)

LEMMA WantedHeader ==
  ASSUME ParserOK(frame, live, at, left, want), want.who = "header"
  PROVE  \E i : AtWanted(i, want.proto)
  <1>1. PICK i : Standpoint(i) /\ Coming(frame, i, want)
    BY ParserIsAtHeader
  <1>2. /\ want = [who |-> "header", proto |-> frame.stack[i].type] /\ Announced(frame, i - 1)
        /\ frame.stack[i].type \in IpTypes /\ ReadThroughVersion(frame.stack, i) => frame.bits[i].flag # "version"
    <2>1. \A proto : /\ want # [who |-> "layer3", proto |-> proto] /\ want # [who |-> "proto", proto |-> proto]
                     /\ want # [who |-> "layer4", proto |-> proto]
      OBVIOUS
    <2>2. QED
      BY <1>1, <2>1 DEF Coming
  <1>3. want.proto = frame.stack[i].type
    BY <1>2
  <1>4. i \in 1 .. Len(frame.stack) /\ KernelFrame(frame) /\ Here = frame.bits[i] /\ i # 0
    BY <1>1, WhatIsFound DEF Standpoint, Found
  <1>5. QED
    BY <1>1, <1>2, <1>3, <1>4 DEF AtWanted, Proto

LEMMA Ipv4Keeps ==
  ASSUME Judging, ParseIpv4
  PROVE  Judging'
  <1>1. /\ pc = "parsing" /\ onWire' = onWire /\ ParserOK(frame, live, at, left, want)
        /\ want.who = "header" /\ want.proto = "IPV4"
        /\ IF BadIpv4(Here) THEN Concludes("BAD") ELSE Advances("IPV4", Here.bytes, Here.tot, "layer4", Here.proto)
    BY DEF ParseIpv4, Parsing, Judging, None
  <1>2. PICK i : AtWanted(i, "IPV4")
    BY <1>1, WantedHeader
  <1>3. /\ Standpoint(i) /\ frame.stack[i].type = "IPV4" /\ Announced(frame, i - 1)
        /\ ReadThroughVersion(frame.stack, i) => Here.flag # "version"
        /\ Here.proto = Proto(frame, i) /\ KernelFrame(frame)
    BY <1>2 DEF AtWanted, IpTypes
  <1>4. IF BadIpv4(Here) THEN Rejectable
        ELSE Passed(i, Here.tot, Here.tot - Here.bytes) /\ Here.bytes = frame.stack[i].bytes
    BY <1>3, Ipv4IsJudged
  <1>5. Coming(frame, i + 1, [who |-> "layer4", proto |-> Here.proto])
    <2>1. i \in Nat /\ i >= 1
      BY <1>3 DEF Standpoint
    <2>2. (i + 1) - 1 = i /\ i + 1 > 1
      BY <2>1
    <2>3. QED
      BY <1>3, <2>2 DEF Coming, IpTypes
  <1>6. QED
    BY <1>1, <1>3, <1>4, <1>5, RejectionKeeps, AdvanceKeeps

LEMMA Ipv6Keeps ==
  ASSUME Judging, ParseIpv6
  PROVE  Judging'
  <1>1. /\ pc = "parsing" /\ onWire' = onWire /\ ParserOK(frame, live, at, left, want)
        /\ want.who = "header" /\ want.proto = "IPV6"
        /\ IF BadIpv6(Here) THEN Concludes("BAD") ELSE Advances("IPV6", 40, 40 + Here.tot, "layer4", Here.proto)
    BY DEF ParseIpv6, Parsing, Judging, None
  <1>2. PICK i : AtWanted(i, "IPV6")
    BY <1>1, WantedHeader
  <1>3. /\ Standpoint(i) /\ frame.stack[i].type = "IPV6" /\ Announced(frame, i - 1)
        /\ ReadThroughVersion(frame.stack, i) => Here.flag # "version"
        /\ Here.proto = Proto(frame, i) /\ KernelFrame(frame)
    BY <1>2 DEF AtWanted, IpTypes
  <1>4. IF BadIpv6(Here) THEN Rejectable ELSE Passed(i, 40 + Here.tot, Here.tot) /\ 40 = frame.stack[i].bytes
    BY <1>3, Ipv6IsJudged
  <1>5. Coming(frame, i + 1, [who |-> "layer4", proto |-> Here.proto])
    <2>1. i \in Nat /\ i >= 1
      BY <1>3 DEF Standpoint
    <2>2. (i + 1) - 1 = i /\ i + 1 > 1
      BY <2>1
    <2>3. QED
      BY <1>3, <2>2 DEF Coming, IpTypes
  <1>6. (40 + Here.tot) - 40 = Here.tot
    <2>1. Here.tot \in Nat
      BY <1>3, WhatIsFound DEF Found
    <2>2. QED
      BY <2>1
  <1>7. QED
    BY <1>1, <1>3, <1>4, <1>5, <1>6, RejectionKeeps, AdvanceKeeps

LEMMA GreKeeps ==
  ASSUME Judging, ParseGre
  PROVE  Judging'
  <1>1. /\ pc = "parsing" /\ onWire' = onWire /\ ParserOK(frame, live, at, left, want)
        /\ want.who = "header" /\ want.proto = "GRE"
        /\ IF BadGre(Here) THEN Concludes("BAD") ELSE Advances("GRE", Here.bytes, left, "proto", Here.proto)
    BY DEF ParseGre, Parsing, Judging, None
  <1>2. PICK i : AtWanted(i, "GRE")
    BY <1>1, WantedHeader
  <1>3. /\ Standpoint(i) /\ frame.stack[i].type = "GRE" /\ Announced(frame, i - 1)
        /\ Here.proto = Proto(frame, i) /\ KernelFrame(frame)
    BY <1>2 DEF AtWanted
  <1>4. IF BadGre(Here) THEN Rejectable
        ELSE Passed(i, left, left - Here.bytes) /\ Here.bytes = frame.stack[i].bytes
    BY <1>3, GreIsJudged
  <1>5. Coming(frame, i + 1, [who |-> "proto", proto |-> Here.proto])
    <2>1. i \in Nat /\ i >= 1
      BY <1>3 DEF Standpoint
    <2>2. (i + 1) - 1 = i /\ i + 1 # 1
      BY <2>1
    <2>3. QED
      BY <1>3, <2>2 DEF Coming
  <1>6. QED
    BY <1>1, <1>3, <1>4, <1>5, RejectionKeeps, AdvanceKeeps

LEMMA MplsKeeps ==
  ASSUME Judging, ParseMpls
  PROVE  Judging'
  <1>1. /\ pc = "parsing" /\ onWire' = onWire /\ ParserOK(frame, live, at, left, want)
        /\ want.who = "header" /\ want.proto = "MPLS"
        /\ IF BadMpls(Here) THEN Concludes("BAD") ELSE Advances("MPLS", Here.bytes, PacketEnd - at, "layer3", None)
    BY DEF ParseMpls, Parsing, Judging, None
  <1>2. PICK i : AtWanted(i, "MPLS")
    BY <1>1, WantedHeader
  <1>3. /\ Standpoint(i) /\ frame.stack[i].type = "MPLS" /\ Announced(frame, i - 1) /\ KernelFrame(frame)
    BY <1>2 DEF AtWanted
  <1>4. IF BadMpls(Here) THEN Rejectable
        ELSE Passed(i, PacketEnd - at, (PacketEnd - at) - Here.bytes) /\ Here.bytes = frame.stack[i].bytes
    BY <1>3, MplsIsJudged
  <1>5. Coming(frame, i + 1, [who |-> "layer3", proto |-> None])
    <2>1. i \in Nat /\ i >= 1
      BY <1>3 DEF Standpoint
    <2>2. (i + 1) - 1 = i /\ i + 1 # 1
      BY <2>1
    <2>3. QED
      BY <1>3, <2>2 DEF Coming
  <1>6. QED
    BY <1>1, <1>3, <1>4, <1>5, RejectionKeeps, AdvanceKeeps

LEMMA TcpKeeps ==
  ASSUME Judging, ParseTcp
  PROVE  Judging'
  <1>1. /\ pc = "parsing" /\ onWire' = onWire /\ ParserOK(frame, live, at, left, want)
        /\ want.who = "header" /\ want.proto = "TCP"
        /\ IF BadTcp(Here) THEN Concludes("BAD") ELSE Ends("TCP", Here.bytes)
    BY DEF ParseTcp, Parsing, Judging, None
  <1>2. PICK i : AtWanted(i, "TCP")
    BY <1>1, WantedHeader
  <1>3. /\ Standpoint(i) /\ frame.stack[i].type = "TCP" /\ Announced(frame, i - 1) /\ KernelFrame(frame)
    BY <1>2 DEF AtWanted
  <1>4. IF BadTcp(Here) THEN Rejectable ELSE Finished(i, Here.bytes)
    BY <1>3, TcpIsJudged
  <1>5. QED
    BY <1>1, <1>3, <1>4, RejectionKeeps, EndKeeps

LEMMA UdpKeeps ==
  ASSUME Judging, ParseUdp
  PROVE  Judging'
  <1>1. /\ pc = "parsing" /\ onWire' = onWire /\ ParserOK(frame, live, at, left, want)
        /\ want.who = "header" /\ want.proto = "UDP"
        /\ IF BadUdp(Here) THEN Concludes("BAD") ELSE Ends("UDP", 8)
    BY BytesOfHeaders DEF ParseUdp, Parsing, Judging, None
  <1>2. PICK i : AtWanted(i, "UDP")
    BY <1>1, WantedHeader
  <1>3. /\ Standpoint(i) /\ frame.stack[i].type = "UDP" /\ Announced(frame, i - 1) /\ KernelFrame(frame)
    BY <1>2 DEF AtWanted
  <1>4. IF BadUdp(Here) THEN Rejectable ELSE Finished(i, 8)
    BY <1>3, UdpIsJudged
  <1>5. QED
    BY <1>1, <1>3, <1>4, RejectionKeeps, EndKeeps

LEMMA IcmpKeeps ==
  ASSUME NEW t \in {"ICMPV4", "ICMPV6"}, Judging, ParseIcmp(t)
  PROVE  Judging'
  <1>1. /\ pc = "parsing" /\ onWire' = onWire /\ ParserOK(frame, live, at, left, want)
        /\ want.who = "header" /\ want.proto = t
        /\ IF BadIcmp(t) THEN Concludes("BAD") ELSE Ends(t, HeaderBytes[t])
    BY DEF ParseIcmp, Parsing, Judging, None
  <1>2. PICK i : AtWanted(i, t)
    BY <1>1, WantedHeader
  <1>3. /\ Standpoint(i) /\ frame.stack[i].type = t /\ Announced(frame, i - 1) /\ KernelFrame(frame)
    BY <1>2 DEF AtWanted
  <1>4. IF BadIcmp(t) THEN Rejectable ELSE Finished(i, HeaderBytes[t])
    BY <1>3, IcmpIsJudged
  <1>5. QED
    BY <1>1, <1>3, <1>4, RejectionKeeps, EndKeeps

\* A frame is accepted: the IP headers learn their lengths.
LEMMA UnwoundIs ==
  ASSUME NEW f, WellFormed(f), ParsedAll(f, live)
  PROVE  /\ Unwound.l2 = L2 /\ Unwound.headers = live.headers
         /\ Unwound.l3 = L2 + Offset(f.stack, Len(f.stack) - 1)
         /\ f.stack[1].type \in IpTypes => Unwound.ip = Whole(f)
  <1>1. PICK hs, ip, s : /\ hs = live.headers /\ ip = live.ip /\ s = f.stack
                         /\ live = Parsed(L2, ip, hs) /\ RowsOK(f, hs, Len(s)) /\ f.means = "OK"
    BY DEF ParsedAll
  <1>2. PICK len \in Nat : len = Len(s) /\ len >= 2 /\ DOMAIN s = 1 .. len
    BY <1>1, TypesOfStack DEF WellFormed
  <1>3. DOMAIN hs = 1 .. len
    BY <1>1, <1>2 DEF RowsOK, IsTuple
  <1>4. ASSUME NEW m \in 1 .. len
        PROVE  hs[m].type = s[m].type /\ hs[m].at = L2 + Offset(s, m)
    <2>1. m \in 1 .. Len(s)
      BY <1>2
    <2>2. hs[m] = Row(s[m].type, L2 + Offset(s, m), s[m].bytes, hs[m].total)
      BY <1>1, <2>1 DEF RowsOK
    <2>3. PICK t, a, n, tot, h : /\ t = s[m].type /\ a = L2 + Offset(s, m) /\ n = s[m].bytes /\ tot = hs[m].total
                                 /\ h = hs[m]
      OBVIOUS
    <2>4. h = Row(t, a, n, tot)
      BY <2>2, <2>3
    <2>5. h.type = t /\ h.at = a
      BY <2>4 DEF Row
    <2>6. QED
      BY <2>3, <2>5
  <1>5. \A m \in 1 .. len : m \in ParsedIps <=> s[m].type \in IpTypes
    BY <1>1, <1>3, <1>4 DEF ParsedIps
  <1>6. ParsedIps \subseteq 1 .. len
    BY <1>1, <1>3 DEF ParsedIps
  <1>7. PICK n \in Nat : n = len - 1 /\ n + 1 = len /\ n \in 1 .. len /\ n < len
    BY <1>2
  <1>8. s[n].type \in IpTypes /\ s[len].type \notin IpTypes
    <2>1. PlaceFacts(f, n) /\ PlaceFacts(f, len)
      BY <1>1, <1>2, <1>7, Standing
    <2>2. s[len].type \in L4Types
      BY <1>1, <1>2 DEF WellFormed, GoodStack
    <2>3. Follows(s[n].type, s[len].type) /\ s[n].type \in IpTypes \cup {"GRE", "MPLS"}
      BY <1>1, <1>2, <1>7, <2>1 DEF PlaceFacts
    <2>4. s[len].type \notin IpTypes /\ s[len].type # "MPLS"
      BY <2>2 DEF L4Types, IpTypes
    <2>5. s[n].type # "GRE" /\ s[n].type # "MPLS"
      BY <2>3, <2>4 DEF Follows, IpTypes
    <2>6. QED
      BY <2>3, <2>4, <2>5
  <1>9. InnermostIp = n
    <2>1. n \in ParsedIps /\ len \notin ParsedIps
      BY <1>2, <1>5, <1>7, <1>8
    <2>2. \A j \in ParsedIps : j <= n
      <3> SUFFICES ASSUME NEW j \in ParsedIps PROVE j <= n
        OBVIOUS
      <3>1. j \in 1 .. len /\ j # len
        BY <1>6, <2>1
      <3>2. QED
        BY <1>7, <3>1
    <2>3. ASSUME NEW i \in ParsedIps, \A j \in ParsedIps : j <= i
          PROVE  i = n
      <3>1. n <= i /\ i <= n /\ i \in 1 .. len
        BY <1>6, <2>1, <2>2, <2>3
      <3>2. QED
        BY <1>7, <3>1
    <2>4. QED
      BY <2>1, <2>2, <2>3 DEF InnermostIp
  <1>10. PICK x, y, out : /\ x = live.headers[n].at /\ out = live.headers[OutermostIp]
                          /\ y = IF IsOuter(out) THEN out.total ELSE live.ip
    OBVIOUS
  <1>11. Unwound = [live EXCEPT !.l3 = x, !.ip = y]
    <2>1. ParsedIps # {}
      BY <1>5, <1>7, <1>8
    <2>2. Unwound = UnwoundTo(n)
      BY <1>9, <2>1 DEF Unwound
    <2>3. QED
      BY <1>10, <2>2 DEF UnwoundTo
  <1>12. Unwound.l2 = L2 /\ Unwound.headers = hs /\ Unwound.l3 = x /\ Unwound.ip = y
    <2>1. PICK q : q = [live EXCEPT !.l3 = x]
      OBVIOUS
    <2>2. q.l2 = L2 /\ q.headers = hs /\ q.l3 = x /\ q.ip = ip /\ q = [Parsed(L2, ip, hs) EXCEPT !.l3 = x]
      BY <1>1, <2>1 DEF Parsed
    <2>3. PICK u : u = [q EXCEPT !.ip = y]
      OBVIOUS
    <2>4. u.l2 = L2 /\ u.headers = hs /\ u.l3 = x /\ u.ip = y
      BY <2>2, <2>3 DEF Parsed
    <2>5. [live EXCEPT !.l3 = x, !.ip = y] = [[live EXCEPT !.l3 = x] EXCEPT !.ip = y]
      OBVIOUS
    <2>6. QED
      BY <1>11, <2>1, <2>3, <2>4, <2>5
  <1>13. x = L2 + Offset(s, len - 1)
    BY <1>1, <1>4, <1>7, <1>10
  <1>14. ASSUME s[1].type \in IpTypes
         PROVE  y = Whole(f)
    <2>1. 1 \in 1 .. len /\ 1 \in ParsedIps
      BY <1>2, <1>5, <1>14
    <2>2. OutermostIp = 1
      <3>1. \A j \in ParsedIps : 1 <= j
        BY <1>6
      <3>2. ASSUME NEW i \in ParsedIps, \A j \in ParsedIps : i <= j
            PROVE  i = 1
        BY <1>6, <2>1, <3>2
      <3>3. QED
        BY <2>1, <3>1, <3>2 DEF OutermostIp
    <2>3. out = hs[1]
      BY <1>1, <1>10, <2>2
    <2>4. PlaceFacts(f, 1)
      BY <1>1, <1>2, <2>1, Standing
    <2>5. Offset(s, 1) = 0 /\ Reach(f, 1) = Whole(f) /\ s[1].type # "MPLS"
      BY <1>1, <1>14, <2>4 DEF PlaceFacts, Reach, Whole, IpTypes
    <2>6. hs[1].at = L2 /\ live.l2 = L2
      <3>1. L2 \in Nat
        BY DEF L2, EtherBytes
      <3>2. QED
        BY <1>1, <1>4, <2>1, <2>5, <3>1 DEF Parsed
    <2>7. hs[1].total = Reach(f, 1)
      BY <1>1, <1>2, <2>1, <2>5 DEF RowsOK
    <2>8. QED
      BY <1>10, <2>3, <2>5, <2>6, <2>7 DEF IsOuter
  <1>15. QED
    BY <1>1, <1>2, <1>12, <1>13, <1>14

LEMMA DoneKeeps ==
  ASSUME Judging, ParseDone
  PROVE  Judging'
  <1>1. /\ pc = "parsing" /\ want.who = "done" /\ onWire' = onWire /\ ParserOK(frame, live, at, left, want)
        /\ Concludes("OK")
    BY DEF ParseDone, Parsing, Judging
  <1>2. ~ \E i : Coming(frame, i, want)
    <2>1. \A proto : /\ want # [who |-> "layer3", proto |-> proto] /\ want # [who |-> "proto", proto |-> proto]
                     /\ want # [who |-> "layer4", proto |-> proto] /\ want # [who |-> "header", proto |-> proto]
                     /\ want # [who |-> "layer2", proto |-> proto]
      BY <1>1
    <2>2. QED
      BY <2>1 DEF Coming
  <1>3. KernelFrame(frame) /\ ParsedAll(frame, live)
    <2>1. want # [who |-> "layer2", proto |-> None]
      BY <1>1
    <2>2. QED
      BY <1>1, <1>2, <2>1 DEF ParserOK
  <1>4. PICK f, q : f = frame /\ q = Unwound
    OBVIOUS
  <1>5. WellFormed(f) /\ OkFrame(f)
    BY <1>3, <1>4 DEF KernelFrame, ParsedAll, UnknownFrame, CutFrame, WrongFrame
  <1>6. /\ q.l2 = L2 /\ q.headers = live.headers
        /\ q.l3 = L2 + Offset(f.stack, Len(f.stack) - 1)
        /\ f.stack[1].type \in IpTypes => q.ip = Whole(f)
    BY <1>3, <1>4, <1>5, UnwoundIs
  <1>7. RowsOK(f, q.headers, Len(f.stack))
    BY <1>3, <1>4, <1>6 DEF ParsedAll
  <1>8. Accepted(f, q)
    BY <1>5, <1>6, <1>7 DEF Accepted, OkFrame, WellFormed
  <1>9. JudgedOK(f, q, "OK")
    BY <1>7, <1>8 DEF JudgedOK, RowsOK
  <1>10. JudgedOK(f, q, "OK")'
    BY <1>1, <1>9, SameDevice
  <1>11. /\ pc' \in {"returned", "drain"} /\ live' = q /\ result' = "OK" /\ frame' = f
    BY <1>1, <1>4 DEF Concludes
  <1>12. QED
    BY <1>10, <1>11 DEF Judging

LEMMA ParsePacketKeeps ==
  ASSUME Judging, ParsePacket
  PROVE  Judging'
  <1>1. CASE ParseIcmp("ICMPV4")
    BY <1>1, IcmpKeeps
  <1>2. CASE ParseIcmp("ICMPV6")
    BY <1>2, IcmpKeeps
  <1>3. QED
    BY <1>1, <1>2, Layer2Keeps, Layer3Keeps, Layer3ByProtoKeeps, Layer4Keeps, Ipv4Keeps, Ipv6Keeps,
       GreKeeps, MplsKeeps, TcpKeeps, UdpKeeps, DoneKeeps DEF ParsePacket

-----------------------------------------------------------------------------
(* Steps around the parser: frames arrive and are taken from the capture.  *)

\* What the tool does itself, or the device, leaves the parser alone
LEMMA JudgingStands ==
  ASSUME Judging, UNCHANGED <<onWire, frame, live, at, want, left, result>>,
         \/ pc' = pc
         \/ pc = "built" /\ pc' = "receiving"
         \/ pc = "drain" /\ pc' = "returned"
         \/ {pc, pc'} \cap {"receiving", "parsing", "drain", "returned"} = {}
  PROVE  Judging'
  <1>1. PICK f, p, a, l, w, r : f = frame /\ p = live /\ a = at /\ l = left /\ w = want /\ r = result
    OBVIOUS
  <1>2. f = frame' /\ p = live' /\ a = at' /\ l = left' /\ w = want' /\ r = result'
    BY <1>1
  <1>3. pc' = "parsing" => ParserOK(frame, live, at, left, want)'
    <2> SUFFICES ASSUME pc' = "parsing" PROVE ParserOK(frame, live, at, left, want)'
      OBVIOUS
    <2>1. pc = "parsing"
      OBVIOUS
    <2>2. ParserOK(f, p, a, l, w)
      BY <1>1, <2>1 DEF Judging
    <2>3. ParserOK(f, p, a, l, w)'
      BY <2>2, SameDevice
    <2>4. QED
      BY <1>2, <2>3
  <1>4. pc' \in {"drain", "returned"} => JudgedOK(frame, live, result)'
    <2> SUFFICES ASSUME pc' \in {"drain", "returned"} PROVE JudgedOK(frame, live, result)'
      OBVIOUS
    <2>1. pc \in {"drain", "returned"}
      OBVIOUS
    <2>2. JudgedOK(f, p, r)
      BY <1>1, <2>1 DEF Judging
    <2>3. JudgedOK(f, p, r)'
      BY <2>2, SameDevice
    <2>4. QED
      BY <1>2, <2>3
  <1>5. PICK new : new = PacketNew(0) /\ new = PacketNew(0)'
    BY DEF PacketNew
  <1>6. pc' = "receiving" =>
          /\ live' = new /\ result' \in {None, "UNKNOWN_L4"}
          /\ result' # None => frame'.means = "UNKNOWN_L4"
    BY <1>5 DEF Judging
  <1>7. pc' \notin {"receiving", "parsing", "drain", "returned"} => live' = new /\ result' = None
    BY <1>5 DEF Judging
  <1>8. QED
    BY <1>3, <1>4, <1>5, <1>6, <1>7 DEF Judging

LEMMA FrameArrivesStands ==
  ASSUME Capturing, Judging, NEW f, f.src = "kernel" => KernelFrame(f), FrameArrives(f)
  PROVE  Capturing' /\ Judging'
  <1>1. UNCHANGED <<pc, onWire, frame, live, at, want, left, result>> /\ capture' = Append(capture, f)
    BY DEF FrameArrives, parser
  <1>2. PICK s, t, n : s = capture /\ t = capture' /\ n = Len(s)
    OBVIOUS
  <1>3. IsList(s) /\ n \in Nat /\ \A i \in 1 .. n : s[i].src = "kernel" => KernelFrame(s[i])
    BY <1>2 DEF Capturing, IsList
  <1>4. t = Append(s, f)
    BY <1>1, <1>2
  <1>5. IsList(t)
    BY <1>3, <1>4, OneMoreFrame
  <1>6. Len(t) = n + 1 /\ t[n + 1] = f /\ \A i \in 1 .. n : t[i] = s[i]
    BY <1>2, <1>3, <1>4 DEF IsList
  <1>7. ASSUME NEW i \in 1 .. Len(t), t[i].src = "kernel"
        PROVE  KernelFrame(t[i])
    <2>1. CASE i = n + 1
      BY <1>6, <1>7, <2>1
    <2>2. CASE i # n + 1
      <3>1. i \in 1 .. n
        BY <1>3, <1>6, <2>2
      <3>2. QED
        BY <1>3, <1>6, <1>7, <3>1
    <2>3. QED
      BY <2>1, <2>2
  <1>8. Capturing'
    <2>1. \A g : KernelFrame(g)' <=> KernelFrame(g)
      BY <1>1, SameDevice
    <2>2. \A i \in 1 .. Len(t) : t[i].src = "kernel" => KernelFrame(t[i])'
      <3> SUFFICES ASSUME NEW i \in 1 .. Len(t), t[i].src = "kernel" PROVE KernelFrame(t[i])'
        OBVIOUS
      <3>1. PICK g : g = t[i]
        OBVIOUS
      <3>2. KernelFrame(g)
        BY <1>7, <3>1
      <3>3. QED
        BY <2>1, <3>1, <3>2
    <2>3. IsList(t)'
      BY <1>5 DEF IsList
    <2>4. QED
      BY <1>2, <2>2, <2>3 DEF Capturing
  <1>9. QED
    BY <1>1, <1>8, JudgingStands

LEMMA PacketSocketReceiveStands ==
  ASSUME Capturing, Judging, PacketSocketReceive
  PROVE  Capturing' /\ Judging'
  <1>1. PICK s, t, n : s = capture /\ t = capture' /\ n = Len(s)
    OBVIOUS
  <1>2. /\ pc = "receiving" /\ s # <<>> /\ t = Tail(s) /\ onWire' = onWire
    BY <1>1 DEF PacketSocketReceive
  <1>3. IsList(s) /\ n \in Nat /\ \A i \in 1 .. n : s[i].src = "kernel" => KernelFrame(s[i])
    BY <1>1 DEF Capturing, IsList
  <1>4. IsList(t)
    BY <1>2, <1>3, OneFrameLess
  <1>5. n > 0 /\ Head(s) = s[1] /\ Len(t) = n - 1 /\ \A i \in 1 .. n - 1 : t[i] = s[i + 1]
    BY <1>1, <1>2, <1>3 DEF IsList
  <1>6. \A i \in 1 .. Len(t) : t[i].src = "kernel" => KernelFrame(t[i])
    <2> SUFFICES ASSUME NEW i \in 1 .. Len(t), t[i].src = "kernel" PROVE KernelFrame(t[i])
      OBVIOUS
    <2>1. i + 1 \in 1 .. n /\ t[i] = s[i + 1]
      BY <1>3, <1>5
    <2>2. QED
      BY <1>3, <2>1
  <1>7. Capturing'
    <2>1. \A g : KernelFrame(g)' <=> KernelFrame(g)
      BY <1>2, SameDevice
    <2>2. \A i \in 1 .. Len(t) : t[i].src = "kernel" => KernelFrame(t[i])'
      <3> SUFFICES ASSUME NEW i \in 1 .. Len(t), t[i].src = "kernel" PROVE KernelFrame(t[i])'
        OBVIOUS
      <3>1. PICK g : g = t[i]
        OBVIOUS
      <3>2. KernelFrame(g)
        BY <1>6, <3>1
      <3>3. QED
        BY <2>1, <3>1, <3>2
    <2>3. IsList(t)'
      BY <1>4 DEF IsList
    <2>4. QED
      BY <1>1, <2>2, <2>3 DEF Capturing
  <1>8. CASE Ours(Head(capture))
    <2>1. PICK f, p : f = s[1] /\ p = PacketNew(PACKET_READ_BYTES)
      OBVIOUS
    <2>2. /\ pc' = "parsing" /\ frame' = f /\ live' = p /\ at' = 0 /\ left' = 0
          /\ want' = [who |-> IF onWire THEN "layer2" ELSE "layer3", proto |-> None]
      BY <1>1, <1>5, <1>8, <2>1 DEF PacketSocketReceive, Goes
    <2>3. KernelFrame(f)
      <3>1. f.src = "kernel" /\ 1 \in 1 .. n
        BY <1>1, <1>3, <1>5, <1>8, <2>1 DEF Ours
      <3>2. QED
        BY <1>3, <2>1, <3>1
    <2>4. p = Parsed(0, 0, <<>>)
      BY <2>1 DEF PacketNew, Parsed
    <2>5. ParserOK(f, p, 0, 0, want')
      <3>1. CASE onWire
        BY <2>2, <2>3, <2>4, <3>1 DEF ParserOK
      <3>2. CASE ~onWire
        <4>1. GoodStack(f.stack) /\ f.payload \in Nat
          BY <2>3 DEF KernelFrame, WellFormed
        <4>2. PICK len \in Nat \ {0} : len = Len(f.stack)
          BY <4>1, TypesOfStack
        <4>3. Offset(f.stack, 1) = 0
          BY <4>1, SumsOfStack DEF SumFacts
        <4>4. L2 = 0
          BY <3>2 DEF L2
        <4>5. PICK hs : hs = <<>> /\ hs = p.headers /\ Len(hs) = 0 /\ hs = [i \in 1 .. 0 |-> hs[i]]
          BY <2>4 DEF Parsed
        <4>6. RowsOK(f, hs, 0)
          BY <4>5, HeadersAssumption DEF RowsOK, IsTuple
        <4>7. NotBeyond(f, 1, 0)
          BY <4>2 DEF NotBeyond
        <4>8. LeftOK(f, 1, 0)
          BY DEF LeftOK
        <4>9. AtHeader(f, 1, p, 0, 0)
          BY <2>4, <4>3, <4>4, <4>5, <4>6, <4>7, <4>8 DEF AtHeader
        <4>10. Coming(f, 1, want')
          BY <2>2, <3>2 DEF Coming
        <4>11. 1 \in 1 .. Len(f.stack)
          BY <4>2
        <4>12. QED
          BY <2>3, <4>9, <4>10, <4>11 DEF ParserOK
      <3>3. QED
        BY <3>1, <3>2
    <2>6. PICK w : w = want'
      OBVIOUS
    <2>7. ParserOK(f, p, 0, 0, w)'
      BY <1>2, <2>5, <2>6, SameDevice
    <2>8. QED
      BY <1>7, <2>2, <2>6, <2>7 DEF Judging
  <1>9. CASE ~Ours(Head(capture))
    <2>1. UNCHANGED <<pc, onWire, frame, live, at, want, left, result>>
      BY <1>9 DEF PacketSocketReceive, parser
    <2>2. QED
      BY <1>7, <2>1, JudgingStands
  <1>10. QED
    BY <1>8, <1>9

-----------------------------------------------------------------------------
(* What a script describes has headers that frames can be made of.         *)

GoodOuter(l) == l.type \in IpTypes \cup {"GRE", "MPLS"} /\ GoodLayer(l)
GoodInner(d) ==
    /\ Described(d)
    /\ L4Type(d) = "TCP" => L4Header(d) >= 20
    /\ L4Type(d) # "TCP" => L4Header(d) = 8

LEMMA DescribingIs ==
  Describing <=>
    (pc \notin {"script", "refused", "died"} =>
       /\ desc.outer \in Seq(Layers) /\ \A i \in 1 .. Len(desc.outer) : GoodOuter(desc.outer[i])
       /\ GoodInner(desc.inner))
  BY DEF Describing, GoodOuter, GoodInner

LEMMA InnerIsGood ==
  ASSUME NEW d \in Descriptions, Described(d)
  PROVE  GoodInner(d)
  <1>1. /\ d.family \in {"IPV4", "IPV6"} /\ d.type \in {"TCP", "UDP", "ICMP"} /\ d.options \in Nat
    BY HeadersAssumption
  <1>2. CASE d.type = "TCP"
    <2>1. L4Type(d) = "TCP" /\ L4Header(d) = HeaderBytes["TCP"] + d.options
      BY <1>2 DEF L4Type, L4Header
    <2>2. L4Header(d) >= 20
      BY <1>1, <2>1, BytesOfHeaders
    <2>3. QED
      BY <2>1, <2>2 DEF GoodInner
  <1>3. CASE d.type # "TCP"
    <2>1. L4Type(d) \in {"UDP", "ICMPV4", "ICMPV6"}
      BY <1>1, <1>3 DEF L4Type
    <2>2. L4Header(d) = HeaderBytes[L4Type(d)] + 0
      BY <1>3 DEF L4Header
    <2>3. L4Header(d) = 8 /\ L4Type(d) # "TCP"
      BY <2>1, <2>2, BytesOfHeaders
    <2>4. QED
      BY <2>3 DEF GoodInner
  <1>4. QED
    BY <1>2, <1>3

LEMMA BeginDescribes ==
  ASSUME Building, NEW d \in Descriptions, Begin(d)
  PROVE  Describing'
  <1> SUFFICES ASSUME pc' \notin {"script", "refused", "died"}
               PROVE  /\ desc'.outer \in Seq(Layers) /\ GoodInner(desc'.inner)
                      /\ \A i \in 1 .. Len(desc'.outer) : GoodOuter(desc'.outer[i])
    BY DEF Describing, GoodOuter, GoodInner
  <1>1. NewPacket(d).pc = "prefix"
    BY NewPacketGoesTo DEF Begin
  <1>2. desc = [outer |-> <<>>, inner |-> desc.inner]
    BY DEF Building, BuildOK, Begin
  <1>3. desc' = [outer |-> <<>>, inner |-> d]
    BY <1>2 DEF Begin
  <1>4. PICK e : e = <<>> /\ desc'.outer = e /\ desc'.inner = d
    BY <1>3
  <1>5. GoodInner(d)
    BY <1>1, NewPacketBuilds, InnerIsGood DEF TransportOK
  <1>6. e \in Seq(Layers) /\ Len(e) = 0
    BY <1>4
  <1>7. QED
    BY <1>4, <1>5, <1>6

LEMMA HeaderAppendDescribes ==
  ASSUME Building, Describing, NEW t \in IpTypes \cup {"GRE", "MPLS"}, NEW m \in Nat,
         GoodLayer([type |-> t, bytes |-> m]), NEW legal, HeaderAppend(Fields(t, m), legal)
  PROVE  Describing'
  <1> SUFFICES ASSUME pc' \notin {"script", "refused", "died"}
               PROVE  /\ desc'.outer \in Seq(Layers) /\ GoodInner(desc'.inner)
                      /\ \A i \in 1 .. Len(desc'.outer) : GoodOuter(desc'.outer[i])
    BY DEF Describing, GoodOuter, GoodInner
  <1>1. PICK f : f = Fields(t, m)
    OBVIOUS
  <1>2. f.type = t /\ f.bytes = m
    BY <1>1 DEF Fields
  <1>3. PICK l : l = [type |-> t, bytes |-> m]
    OBVIOUS
  <1>4. pc = "prefix" /\ desc' = [desc EXCEPT !.outer = Append(@, l)]
    <2>1. HeaderAppend(f, legal)
      BY <1>1
    <2>2. QED
      BY <1>2, <1>3, <2>1 DEF HeaderAppend
  <1>5. PICK ls, u : ls = desc.outer /\ u = Append(ls, l)
    OBVIOUS
  <1>6. desc = [outer |-> ls, inner |-> desc.inner]
    BY <1>4, <1>5 DEF Building, BuildOK
  <1>7. desc' = [outer |-> u, inner |-> desc.inner]
    BY <1>4, <1>5, <1>6
  <1>8. desc'.outer = u /\ desc'.inner = desc.inner
    BY <1>7
  <1>9. ls \in Seq(Layers) /\ GoodInner(desc.inner) /\ \A i \in 1 .. Len(ls) : GoodOuter(ls[i])
    BY <1>4, <1>5, DescribingIs
  <1>10. l \in Layers /\ GoodOuter(l)
    BY <1>3 DEF Layers, HeaderTypes, GoodOuter
  <1>11. PICK n \in Nat : n = Len(ls)
    BY <1>9
  <1>12. /\ u \in Seq(Layers) /\ Len(u) = n + 1 /\ u[n + 1] = l
         /\ \A i \in 1 .. n : u[i] = ls[i]
    BY <1>5, <1>9, <1>10, <1>11, AppendProperties
  <1>13. ASSUME NEW i \in 1 .. Len(u)
         PROVE  GoodOuter(u[i])
    <2>1. CASE i = n + 1
      BY <1>10, <1>12, <2>1
    <2>2. CASE i # n + 1
      <3>1. i \in 1 .. n
        BY <1>12, <2>2
      <3>2. QED
        BY <1>9, <1>11, <1>12, <3>1
    <2>3. QED
      BY <2>1, <2>2
  <1>14. QED
    BY <1>8, <1>9, <1>12, <1>13

LEMMA PrefixDescribes ==
  ASSUME Building, Describing, Prefix
  PROVE  Describing'
  <1>1. CASE \E legal \in BOOLEAN : Ipv4HeaderAppend(legal) \/ Ipv6HeaderAppend(legal)
    <2>1. PICK legal : Ipv4HeaderAppend(legal) \/ Ipv6HeaderAppend(legal)
      BY <1>1
    <2>2. PICK t \in IpTypes : HeaderAppend(Fields(t, HeaderBytes[t]), legal)
      BY <2>1 DEF Ipv4HeaderAppend, Ipv6HeaderAppend, IpTypes
    <2>3. PICK m \in Nat : m = HeaderBytes[t]
      BY BytesOfHeaders DEF IpTypes
    <2>4. PICK l : l = [type |-> t, bytes |-> m]
      OBVIOUS
    <2>5. l.type = t /\ l.bytes = m
      BY <2>4
    <2>6. GoodLayer(l)
      BY <2>3, <2>5, BytesOfHeaders DEF GoodLayer, IpTypes
    <2>7. QED
      BY <2>2, <2>3, <2>4, <2>6, HeaderAppendDescribes
  <1>2. CASE \E n \in GreLengths : GreHeaderAppend(n)
    <2>1. PICK n \in GreLengths : HeaderAppend(Fields("GRE", n), TRUE)
      BY <1>2 DEF GreHeaderAppend
    <2>2. n \in Nat /\ n >= 4
      BY HeadersAssumption
    <2>3. GoodLayer([type |-> "GRE", bytes |-> n])
      BY <2>2 DEF GoodLayer
    <2>4. QED
      BY <2>1, <2>2, <2>3, HeaderAppendDescribes
  <1>3. CASE \E n \in MplsEntries : MplsHeaderAppend(n)
    <2>1. PICK n \in MplsEntries : HeaderAppend(Fields("MPLS", 4 * n), TRUE)
      BY <1>3 DEF MplsHeaderAppend
    <2>2. PICK m \in Nat : m = 4 * n /\ m >= 1
      BY HeadersAssumption
    <2>3. GoodLayer([type |-> "MPLS", bytes |-> m])
      BY <2>2 DEF GoodLayer
    <2>4. QED
      BY <2>1, <2>2, <2>3, HeaderAppendDescribes
  <1>4. QED
    BY <1>1, <1>2, <1>3 DEF Prefix

-----------------------------------------------------------------------------
(* The invariant of the parser.                                            *)

LEMMA NextKeepsParser ==
  ASSUME Building, ParserInv, [Next]_vars
  PROVE  ParserInv'
  <1>1. Describing /\ Capturing /\ Judging
    BY DEF ParserInv
  <1>2. \A g : onWire' = onWire => (KernelFrame(g)' <=> KernelFrame(g))
    BY SameDevice
  <1>3. ASSUME UNCHANGED <<onWire, capture>>
        PROVE  Capturing'
    <2>1. \A i \in 1 .. Len(capture) : capture[i].src = "kernel" => KernelFrame(capture[i])'
      <3> SUFFICES ASSUME NEW i \in 1 .. Len(capture), capture[i].src = "kernel"
                   PROVE  KernelFrame(capture[i])'
        OBVIOUS
      <3>1. PICK g : g = capture[i] /\ g = capture[i]'
        BY <1>3
      <3>2. KernelFrame(g)
        BY <1>1, <3>1 DEF Capturing
      <3>3. KernelFrame(g)'
        BY <1>2, <1>3, <3>2
      <3>4. QED
        BY <3>1, <3>3
    <2>2. IsList(capture)'
      BY <1>1, <1>3 DEF Capturing, IsList
    <2>3. QED
      BY <1>3, <2>1, <2>2 DEF Capturing
  <1>4. ASSUME desc' = desc, pc \in {"script", "refused", "died"} => pc' \in {"script", "refused", "died"}
        PROVE  Describing'
    BY <1>1, <1>4, DescribingIs DEF Describing, GoodOuter, GoodInner
  <1>5. CASE Build \/ Inject
    <2>1. UNCHANGED <<onWire, capture, frame, live, at, want, left, result>>
      BY <1>5 DEF Build, Begin, Prefix, Ipv4HeaderAppend, Ipv6HeaderAppend, GreHeaderAppend,
         MplsHeaderAppend, HeaderAppend, Encapsulate, Inject, device, parser
    <2>2. {pc, pc'} \cap {"receiving", "parsing", "drain", "returned"} = {}
      BY <1>5, NewPacketGoesTo DEF Build, Begin, Prefix, Ipv4HeaderAppend, Ipv6HeaderAppend, GreHeaderAppend,
         MplsHeaderAppend, HeaderAppend, Encapsulate, Inject
    <2>3. Judging'
      BY <1>1, <2>1, <2>2, JudgingStands
    <2>4. Capturing'
      BY <1>3, <2>1
    <2>5. Describing'
      <3>1. CASE \E d \in Descriptions : Begin(d)
        BY <3>1, BeginDescribes
      <3>2. CASE Prefix
        BY <1>1, <3>2, PrefixDescribes
      <3>3. CASE Encapsulate \/ Inject
        BY <1>4, <3>3 DEF Encapsulate, Inject
      <3>4. QED
        BY <1>5, <3>1, <3>2, <3>3 DEF Build
    <2>6. QED
      BY <2>3, <2>4, <2>5 DEF ParserInv
  <1>6. CASE Receive \/ ReadQueue
    <2>1. UNCHANGED <<onWire, capture, desc, frame, live, at, want, left, result>>
      BY <1>6 DEF Receive, ReadQueue, script, device, parser
    <2>2. (pc = "built" /\ pc' = "receiving") \/ (pc = "drain" /\ pc' = "returned")
      BY <1>6 DEF Receive, ReadQueue
    <2>3. QED
      BY <1>1, <1>3, <1>4, <2>1, <2>2, JudgingStands DEF ParserInv
  <1>7. CASE KernelSends \/ OthersSend
    <2>1. PICK f : FrameArrives(f) /\ (f.src = "kernel" => KernelFrame(f))
      <3>1. CASE KernelSends
        <4>1. PICK s, n : s = Stack /\ n = Payload
          OBVIOUS
        <4>2. Listening /\ Sniffable(s, n) /\ \E f \in Frames(s, n) : FrameArrives(f)
          BY <3>1, <4>1 DEF KernelSends
        <4>3. Sendable(s, n)
          <5>1. pc \notin {"script", "refused", "died"}
            BY <4>2 DEF Listening
          <5>2. QED
            BY <1>1, <4>1, <4>2, <5>1, SniffableIsSendable
        <4>4. Total(s, n, 1) < U16 - 24
          BY <4>2 DEF Sniffable
        <4>5. QED
          BY <4>2, <4>3, <4>4, FramesAreKernels
      <3>2. CASE OthersSend
        BY <3>2, HeadersAssumption DEF OthersSend
      <3>3. QED
        BY <1>7, <3>1, <3>2
    <2>2. Capturing' /\ Judging'
      BY <1>1, <2>1, FrameArrivesStands
    <2>3. Describing'
      BY <1>4, <2>1 DEF FrameArrives, script
    <2>4. QED
      BY <2>2, <2>3 DEF ParserInv
  <1>8. CASE PacketSocketReceive
    <2>1. Describing'
      BY <1>4, <1>8 DEF PacketSocketReceive, script
    <2>2. QED
      BY <1>1, <1>8, <2>1, PacketSocketReceiveStands DEF ParserInv
  <1>9. CASE ParsePacket
    <2>1. UNCHANGED <<onWire, capture, desc>> /\ pc = "parsing"
      BY <1>9 DEF ParsePacket, ParseLayer2, ParseLayer3, ParseLayer3ByProto, ParseLayer4,
         ParseIpv4, ParseIpv6, ParseGre, ParseMpls, ParseTcp, ParseUdp, ParseIcmp, ParseDone,
         Parsing, script, device
    <2>2. QED
      BY <1>1, <1>3, <1>4, <1>9, <2>1, ParsePacketKeeps DEF ParserInv
  <1>10. CASE UNCHANGED vars
    <2>1. UNCHANGED <<pc, onWire, capture, desc, frame, live, at, want, left, result>>
      BY <1>10 DEF vars, script, device, parser
    <2>2. QED
      BY <1>1, <1>3, <1>4, <2>1, JudgingStands DEF ParserInv
  <1>11. QED
    BY <1>5, <1>6, <1>7, <1>8, <1>9, <1>10 DEF Next

LEMMA SpecParses == Spec => []ParserInv
  <1>1. Init => Building /\ ParserInv
    <2> SUFFICES ASSUME Init PROVE Building /\ ParserInv
      OBVIOUS
    <2>1. /\ pc = "script" /\ desc = [outer |-> <<>>, inner |-> None]
          /\ outer = PacketNew(PACKET_MAX_HEADER_BYTES)
      BY DEF Init, NoDescription
    <2>2. Building
      <3>1. desc = [outer |-> <<>>, inner |-> desc.inner]
        BY <2>1
      <3>2. QED
        BY <2>1, <3>1 DEF Building, BuildOK
    <2>3. Describing
      BY <2>1 DEF Describing
    <2>4. Capturing
      BY DEF Init, Capturing, IsList
    <2>5. Judging
      BY DEF Init, Judging
    <2>6. QED
      BY <2>2, <2>3, <2>4, <2>5 DEF ParserInv
  <1>2. Building /\ ParserInv /\ [Next]_vars => Building' /\ ParserInv'
    BY NextBuilds, NextKeepsParser
  <1>3. QED
    BY <1>1, <1>2, PTL DEF Spec

\* What netdev_receive_loop() makes of a frame of the kernel is right, for any
\* stack of headers: parse_packet() accepts it exactly when it is a whole
\* datagram of protocols that the tool knows, with lengths and checksums that
\* agree and no more headers than the table has rows; it rejects every frame
\* that is cut short, fragmented or has one wrong field; and a frame with a
\* foreign protocol never ends the receive.
THEOREM FramesAreJudged == Spec => []FrameJudged
  <1>1. ParserInv => FrameJudged
    <2> SUFFICES ASSUME ParserInv PROVE FrameJudged
      OBVIOUS
    <2>1. Judging
      BY DEF ParserInv
    <2>2. ASSUME pc \in {"drain", "returned"}
          PROVE  result = IF Len(frame.stack) <= PACKET_MAX_HEADERS THEN frame.means ELSE "BAD"
      <3>1. JudgedOK(frame, live, result)
        BY <2>1, <2>2 DEF Judging
      <3>2. QED
        BY <3>1 DEF JudgedOK, Accepted
    <2>3. pc = "receiving" /\ result # None => result = "UNKNOWN_L4" /\ frame.means = "UNKNOWN_L4"
      BY <2>1 DEF Judging
    <2>4. QED
      BY <2>2, <2>3 DEF FrameJudged
  <1>2. QED
    BY SpecParses, <1>1, PTL

\* The table of an accepted frame
LEMMA AcceptedTable ==
  ASSUME NEW f, NEW p, Accepted(f, p), NEW t, t = Table(f.stack, f.payload, p.l2),
         NEW padded, padded = (f.in > Total(f.stack, f.payload, 1))
  PROVE  /\ Len(p.headers) = Len(t) /\ p.l3 = t[Len(t) - 1].at
         /\ \A i \in DOMAIN t :
              p.headers[i] = IF padded /\ t[i].type = "MPLS" THEN [t[i] EXCEPT !.total = @ + 6] ELSE t[i]
  <1>1. PICK s, n, hs : s = f.stack /\ n = f.payload /\ hs = p.headers
    OBVIOUS
  <1>2. /\ GoodStack(s) /\ n \in Nat /\ f.means = "OK" /\ p.l2 = L2 /\ RowsOK(f, hs, Len(s))
        /\ p.l3 = L2 + Offset(s, Len(s) - 1) /\ f.in \in {Whole(f), Whole(f) + 6}
    BY <1>1 DEF Accepted
  <1>3. SumFacts(s, n)
    BY <1>2, SumsOfStack
  <1>4. PICK len \in Nat : len = Len(s) /\ len >= 2 /\ DOMAIN s = 1 .. len
    BY <1>2, <1>3 DEF SumFacts, GoodStack
  <1>5. t = [i \in 1 .. len |-> Row(s[i].type, L2 + Offset(s, i), s[i].bytes, Total(s, n, i))]
    BY <1>1, <1>2, <1>4 DEF Table, Row
  <1>6. Len(t) = len /\ DOMAIN t = 1 .. len
    BY <1>5
  <1>7. Len(hs) = len
    BY <1>2, <1>4 DEF RowsOK
  <1>8. p.l3 = t[len - 1].at
    <2>1. PICK k \in 1 .. len : k = len - 1
      BY <1>4
    <2>2. PICK a, b, c, d : /\ a = s[k].type /\ b = L2 + Offset(s, k) /\ c = s[k].bytes
                            /\ d = Total(s, n, k)
      OBVIOUS
    <2>3. t[k] = Row(a, b, c, d)
      BY <1>5, <2>2
    <2>4. t[k].at = b
      BY <2>3 DEF Row
    <2>5. QED
      BY <1>2, <1>4, <2>1, <2>2, <2>4
  <1>9. ASSUME NEW i \in 1 .. len
        PROVE  hs[i] = IF padded /\ t[i].type = "MPLS" THEN [t[i] EXCEPT !.total = @ + 6] ELSE t[i]
    <2>1. PICK a, b, c, d, o, w, h, x : /\ a = s[i].type /\ b = L2 + o /\ c = s[i].bytes /\ d = Total(s, n, i)
                                        /\ o = Offset(s, i) /\ w = Whole(f) /\ h = hs[i].total /\ x = t[i]
      OBVIOUS
    <2>2. x = Row(a, b, c, d)
      BY <1>5, <2>1
    <2>3. /\ hs[i] = Row(a, b, c, h)
          /\ h = IF a = "MPLS" THEN f.in - o ELSE d
      <3>1. i \in 1 .. Len(s)
        BY <1>4
      <3>2. /\ hs[i] = Row(s[i].type, L2 + Offset(s, i), s[i].bytes, hs[i].total)
            /\ hs[i].total = IF s[i].type = "MPLS" THEN f.in - Offset(s, i) ELSE Reach(f, i)
        BY <1>1, <1>2, <3>1 DEF RowsOK
      <3>3. Reach(f, i) = Total(s, n, i)
        BY <1>1 DEF Reach
      <3>4. QED
        BY <2>1, <3>2, <3>3
    <2>4. d \in Nat /\ o \in Nat /\ w \in Nat /\ d + o = w
      <3>1. Whole(f) = Total(s, n, 1)
        BY <1>1 DEF Whole
      <3>2. i \in 1 .. Len(s) /\ 1 \in 1 .. Len(s)
        BY <1>4
      <3>3. QED
        BY <1>3, <2>1, <3>1, <3>2 DEF SumFacts
    <2>5. f.in \in {w, w + 6} /\ (padded <=> f.in > w)
      BY <1>1, <1>2, <2>1 DEF Whole
    <2>6. x.type = a
      BY <2>2 DEF Row
    <2>7. [x EXCEPT !.total = @ + 6] = Row(a, b, c, d + 6)
      <3>1. x.total = d
        BY <2>2 DEF Row
      <3>2. [x EXCEPT !.total = d + 6] = Row(a, b, c, d + 6)
        BY <2>2 DEF Row
      <3>3. QED
        BY <3>1, <3>2
    <2>8. CASE padded /\ a = "MPLS"
      <3>1. h = d + 6
        BY <2>3, <2>4, <2>5, <2>8
      <3>2. QED
        BY <2>1, <2>3, <2>6, <2>7, <2>8, <3>1
    <2>9. CASE ~(padded /\ a = "MPLS")
      <3>1. h = d
        BY <2>3, <2>4, <2>5, <2>9
      <3>2. QED
        BY <2>1, <2>2, <2>3, <2>6, <2>9, <3>1
    <2>10. QED
      BY <2>8, <2>9
  <1>10. QED
    BY <1>1, <1>6, <1>7, <1>8, <1>9

\* The table that parse_packet() fills in, with the offsets that it counts
\* itself, is the one that the stack of headers gives, so that verify_header()
\* of run_packet.c compares like with like; the innermost IP header is the
\* primary one, the outermost gives the packet its length, and only an MPLS
\* stack counts the padding of the frame.
THEOREM TableIsFrames == Spec => []TableMatchesFrame
  <1>1. ParserInv => TableMatchesFrame
    <2> SUFFICES ASSUME ParserInv, pc \in {"drain", "returned"}, result = "OK",
                        NEW t, t = Table(frame.stack, frame.payload, live.l2),
                        NEW padded, padded = (frame.in > Total(frame.stack, frame.payload, 1))
                 PROVE  /\ Len(live.headers) = Len(t)
                        /\ \A i \in DOMAIN t :
                             live.headers[i] = IF padded /\ t[i].type = "MPLS" THEN [t[i] EXCEPT !.total = @ + 6]
                                               ELSE t[i]
                        /\ live.l3 = t[Len(t) - 1].at
                        /\ IpFirst => live.ip = Total(frame.stack, frame.payload, 1)
      BY DEF TableMatchesFrame
    <2>1. Accepted(frame, live)
      BY DEF ParserInv, Judging, JudgedOK
    <2>2. IpFirst => live.ip = Total(frame.stack, frame.payload, 1)
      BY <2>1 DEF Accepted, IpFirst, Whole
    <2>3. QED
      BY <2>1, <2>2, AcceptedTable
  <1>2. QED
    BY SpecParses, <1>1, PTL
-----------------------------------------------------------------------------
(* Types: the tables of the packet being built and of the one being parsed.*)

TableOK(p) ==
    /\ Len(p.headers) <= PACKET_MAX_HEADERS
    /\ \A i \in DOMAIN p.headers : p.headers[i].at \in Nat /\ p.headers[i].total \in Nat

Typed ==
    /\ pc \in {"script", "refused", "died", "prefix", "built", "injected",
               "receiving", "parsing", "drain", "returned"}
    /\ onWire \in BOOLEAN /\ result \in {None, "OK", "BAD", "UNKNOWN_L4"}
    /\ TableOK(outer) /\ TableOK(pkt)

LEMMA NewTable == \A n : TableOK(PacketNew(n))
  <1> SUFFICES ASSUME NEW n PROVE TableOK(PacketNew(n))
    OBVIOUS
  <1>1. PICK e : e = PacketNew(n).headers /\ e = <<>>
    BY DEF PacketNew
  <1>2. Len(e) = 0 /\ DOMAIN e = {}
    BY <1>1
  <1>3. QED
    BY <1>1, <1>2, HeadersAssumption DEF TableOK

TypedRows(hs, n, t, a, b, x) ==
    /\ n \in Nat /\ n <= PACKET_MAX_HEADERS
    /\ \A i \in 1 .. n : a[i] \in Nat /\ x[i] \in Nat
    /\ hs = [i \in 1 .. n |-> Row(t[i], a[i], b[i], x[i])]

LEMMA RowsAreTyped ==
  ASSUME NEW p, NEW n, NEW t, NEW a, NEW b, NEW x, TypedRows(p.headers, n, t, a, b, x)
  PROVE  TableOK(p)
  <1> USE DEF TypedRows
  <1>1. PICK hs : hs = p.headers
    OBVIOUS
  <1>2. Len(hs) = n /\ DOMAIN hs = 1 .. n
    BY <1>1
  <1>3. ASSUME NEW i \in 1 .. n
        PROVE  hs[i].at \in Nat /\ hs[i].total \in Nat
    <2>1. PICK t1, a1, b1, x1 : t1 = t[i] /\ a1 = a[i] /\ b1 = b[i] /\ x1 = x[i]
      OBVIOUS
    <2>2. hs[i] = Row(t1, a1, b1, x1)
      BY <1>1, <2>1
    <2>3. hs[i].at = a1 /\ hs[i].total = x1
      BY <2>2 DEF Row
    <2>4. QED
      BY <2>1, <2>3
  <1>4. QED
    BY <1>1, <1>2, <1>3 DEF TableOK

\* What a frame has brought into the table so far
LEMMA ParsedIsTyped ==
  ASSUME NEW f, NEW hs, NEW k \in Nat, RowsOK(f, hs, k), GoodStack(f.stack), f.payload \in Nat,
         k <= Len(f.stack), NEW p, p.headers = hs
  PROVE  TableOK(p)
  <1>1. SumFacts(f.stack, f.payload)
    BY SumsOfStack
  <1>2. L2 \in Nat
    BY DEF L2, EtherBytes
  <1>3. IsTuple(hs) /\ Len(hs) = k /\ k <= PACKET_MAX_HEADERS
    BY DEF RowsOK
  <1>4. DOMAIN hs = 1 .. k
    BY <1>3 DEF IsTuple
  <1>5. ASSUME NEW i \in 1 .. k
        PROVE  hs[i].at \in Nat /\ hs[i].total \in Nat
    <2>1. PICK t, a, b, x, h : /\ t = f.stack[i].type /\ a = L2 + Offset(f.stack, i) /\ b = f.stack[i].bytes
                               /\ x = hs[i].total /\ h = hs[i]
      OBVIOUS
    <2>2. h = Row(t, a, b, x) /\ x \in Nat
      BY <2>1 DEF RowsOK
    <2>3. PICK len \in Nat : len = Len(f.stack) /\ i \in 1 .. len
      BY <1>1 DEF SumFacts
    <2>4. Offset(f.stack, i) \in Nat
      BY <1>1, <2>3 DEF SumFacts
    <2>5. a \in Nat
      BY <1>2, <2>1, <2>4
    <2>6. h.at = a
      BY <2>2 DEF Row
    <2>7. QED
      BY <2>1, <2>2, <2>5, <2>6
  <1>6. QED
    BY <1>3, <1>4, <1>5 DEF TableOK

LEMMA LiveIsTyped ==
  ASSUME ParserInv
  PROVE  TableOK(live)
  <1>1. Judging
    BY DEF ParserInv
  <1>2. CASE pc = "parsing"
    <2>1. PICK f, hs : f = frame /\ hs = live.headers
      OBVIOUS
    <2>2. ParserOK(f, live, at, left, want)
      BY <1>1, <1>2, <2>1 DEF Judging
    <2>3. GoodStack(f.stack) /\ f.payload \in Nat
      BY <2>2 DEF ParserOK, KernelFrame, WellFormed
    <2>4. PICK len \in Nat : len = Len(f.stack)
      BY <2>3, TypesOfStack
    <2>5. CASE live = Parsed(0, 0, <<>>)
      <3>1. live = PacketNew(PACKET_READ_BYTES)
        BY <2>5 DEF Parsed, PacketNew
      <3>2. QED
        BY <3>1, NewTable
    <2>6. CASE \E i \in 1 .. Len(f.stack) : AtHeader(f, i, live, at, left)
      <3>1. PICK i \in 1 .. len : RowsOK(f, hs, i - 1)
        BY <2>1, <2>4, <2>6 DEF AtHeader
      <3>2. i - 1 \in Nat /\ i - 1 <= Len(f.stack)
        BY <2>4
      <3>3. QED
        BY <2>1, <2>3, <3>1, <3>2, ParsedIsTyped
    <2>7. CASE ParsedAll(f, live)
      <3>1. RowsOK(f, hs, len)
        BY <2>1, <2>4, <2>7 DEF ParsedAll
      <3>2. QED
        BY <2>1, <2>3, <2>4, <3>1, ParsedIsTyped
    <2>8. QED
      BY <2>2, <2>5, <2>6, <2>7 DEF ParserOK
  <1>3. CASE pc \in {"drain", "returned"}
    <2>1. PICK f, hs : f = frame /\ hs = live.headers
      OBVIOUS
    <2>2. JudgedOK(f, live, result)
      BY <1>1, <1>3, <2>1 DEF Judging
    <2>3. CASE Accepted(f, live)
      <3>1. GoodStack(f.stack) /\ f.payload \in Nat /\ RowsOK(f, hs, Len(f.stack))
        BY <2>1, <2>3 DEF Accepted
      <3>2. PICK len \in Nat : len = Len(f.stack)
        BY <3>1, TypesOfStack
      <3>3. len <= Len(f.stack) /\ RowsOK(f, hs, len)
        BY <3>1, <3>2
      <3>4. QED
        BY <2>1, <3>1, <3>3, ParsedIsTyped
    <2>4. CASE live = PacketNew(0)
      BY <2>4, NewTable
    <2>5. QED
      BY <2>2, <2>3, <2>4 DEF JudgedOK
  <1>4. CASE pc \notin {"parsing", "drain", "returned"}
    <2>1. live = PacketNew(0)
      BY <1>1, <1>4 DEF Judging
    <2>2. QED
      BY <2>1, NewTable
  <1>5. QED
    BY <1>2, <1>3, <1>4

\* The prefix and the transport packet behind it
LEMMA OuterIsTyped ==
  ASSUME NEW o, NEW ls, OuterOK(o, ls), Len(ls) <= PACKET_MAX_HEADERS
  PROVE  TableOK(o)
  <1>1. PICK n \in Nat : n = Len(ls)
    BY DEF OuterOK
  <1>2. PICK t, a, b, x : /\ t = [i \in 1 .. n |-> ls[i].type] /\ a = [i \in 1 .. n |-> o.headers[i].at]
                          /\ b = [i \in 1 .. n |-> ls[i].bytes] /\ x = [i \in 1 .. n |-> 0]
    OBVIOUS
  <1>3. \A i \in 1 .. n : a[i] \in Nat /\ x[i] \in Nat
    BY <1>1, <1>2 DEF OuterOK
  <1>4. o.headers = [i \in 1 .. n |-> Row(t[i], a[i], b[i], x[i])]
    BY <1>1, <1>2 DEF OuterOK
  <1>5. n <= PACKET_MAX_HEADERS
    BY <1>1
  <1>6. TypedRows(o.headers, n, t, a, b, x)
    BY <1>3, <1>4, <1>5 DEF TypedRows
  <1>7. QED
    BY <1>6, RowsAreTyped

LEMMA TransportIsTyped ==
  ASSUME NEW p, NEW d, TransportOK(p, d)
  PROVE  TableOK(p) /\ Len(p.headers) = 2
  <1>1. PICK hb, lh, x, y : /\ hb = HeaderBytes[d.family] /\ lh = L4Header(d)
                            /\ x = IpBytes(d) % U16 /\ y = L4Bytes(d)
    OBVIOUS
  <1>2. PICK r1, r2 : /\ r1 = Row(d.family, 0, hb, x) /\ r2 = Row(L4Type(d), hb, lh, y)
                      /\ p.headers = <<r1, r2>>
    BY <1>1 DEF TransportOK, Packet
  <1>3. hb \in Nat /\ y \in Nat /\ x \in Nat
    <2>1. HeaderBytes[d.family] \in Nat /\ L4Bytes(d) \in Nat
      BY DEF TransportOK, Described
    <2>2. IpBytes(d) \in Nat
      BY <2>1 DEF IpBytes
    <2>3. QED
      BY <1>1, <2>1, <2>2 DEF U16
  <1>4. r1.at = 0 /\ r1.total = x /\ r2.at = hb /\ r2.total = y
    BY <1>2 DEF Row
  <1>5. PICK hs : hs = <<r1, r2>>
    OBVIOUS
  <1>6. Len(hs) = 2 /\ DOMAIN hs = 1 .. 2 /\ hs[1] = r1 /\ hs[2] = r2
    BY <1>5
  <1>7. \A i \in 1 .. 2 : hs[i].at \in Nat /\ hs[i].total \in Nat
    <2>1. \A i \in 1 .. 2 : i = 1 \/ i = 2
      OBVIOUS
    <2>2. QED
      BY <1>3, <1>4, <1>6, <2>1
  <1>8. 2 <= PACKET_MAX_HEADERS
    BY HeadersAssumption
  <1>9. QED
    BY <1>2, <1>5, <1>6, <1>7, <1>8 DEF TableOK

\* packet_finish_encapsulation_headers() gives each header in front its length,
\* whatever the headers are
LEMMA FinishGivesLength ==
  ASSUME NEW t \in IpTypes \cup {"GRE", "MPLS"}, NEW m, t \in IpTypes => m = HeaderBytes[t],
         NEW a, NEW x, NEW f, f.bytes = m, NEW next
  PROVE  Finish(Row(t, a, m, x), f, next) =
           [header |-> Row(t, a, m, m + next.total), field |-> Finish(Row(t, a, m, x), f, next).field]
  <1>1. PICK h, y : h = Row(t, a, m, x) /\ y = m + next.total
    OBVIOUS
  <1>2. h.type = t /\ h.bytes = m /\ [h EXCEPT !.total = y] = Row(t, a, m, y)
    BY <1>1 DEF Row
  <1>3. CASE t = "IPV4"
    <2>1. Finish(h, f, next) = FinishIpv4(h, f, next) /\ m = HeaderBytes["IPV4"]
      BY <1>2, <1>3 DEF Finish, IpTypes
    <2>2. QED
      BY <1>1, <1>2, <2>1 DEF FinishIpv4
  <1>4. CASE t = "IPV6"
    <2>1. Finish(h, f, next) = FinishIpv6(h, f, next) /\ m = HeaderBytes["IPV6"]
      BY <1>2, <1>4 DEF Finish, IpTypes
    <2>2. QED
      BY <1>1, <1>2, <2>1 DEF FinishIpv6
  <1>5. CASE t = "GRE"
    <2>1. Finish(h, f, next) = FinishGre(h, f, next)
      BY <1>2, <1>5 DEF Finish
    <2>2. QED
      BY <1>1, <1>2, <2>1 DEF FinishGre
  <1>6. CASE t = "MPLS"
    <2>1. Finish(h, f, next) = FinishMpls(h, f, next)
      BY <1>2, <1>6 DEF Finish
    <2>2. QED
      BY <1>1, <1>2, <2>1 DEF FinishMpls
  <1>7. QED
    BY <1>3, <1>4, <1>5, <1>6 DEF IpTypes

LEMMA EncapsulatedIsTyped ==
  ASSUME NEW o, NEW ls, OuterOK(o, ls), NEW p, NEW d, TransportOK(p, d),
         Len(o.headers) + Len(p.headers) <= PACKET_MAX_HEADERS
  PROVE  TableOK(Encapsulated(o, p))
  <1>1. PICK n, s, end : n = Len(ls) /\ s = StackOf(ls, d) /\ end = EndOf(o, d)
    OBVIOUS
  <1>2. Described(d) /\ ls \in Seq(Layers) /\ o.ip \in Nat
    BY DEF TransportOK, OuterOK
  <1>3. StackFacts(s, ls, d, n)
    BY <1>1, <1>2, StackIs
  <1>4. PICK rows, raw, bits : rows = Rows(o, d, s, n, end) /\ raw = Raw(o, d, s, n) /\ bits = RawBits(d, s, n)
    OBVIOUS
  <1>5. n \in Nat /\ end \in Nat
    BY <1>1, <1>2, <1>3, RowsAreTable DEF StackFacts, RowFacts
  <1>6. PICK a : a = [i \in 1 .. n + 2 |-> Places(o, d, n, i)]
    OBVIOUS
  <1>7. /\ \A i \in 1 .. n + 2 : a[i] \in Nat /\ a[i] <= end /\ s[i].bytes \in Nat
        /\ \A i \in 1 .. n + 1 : a[i + 1] = a[i] + s[i].bytes
    <2>1. RowFacts(o, d, s, n, end)
      BY <1>1, <1>2, RowsAreTable
    <2>2. \A i \in 1 .. n + 2 : Places(o, d, n, i) \in Nat /\ Places(o, d, n, i) <= end /\ s[i].bytes \in Nat
      BY <2>1 DEF RowFacts
    <2>3. \A i \in 1 .. n + 1 : i \in 1 .. n + 2 /\ i + 1 \in 1 .. n + 2
      BY <1>5
    <2>4. \A i \in 1 .. n + 1 : Places(o, d, n, i + 1) = Places(o, d, n, i) + s[i].bytes
      BY <2>1 DEF RowFacts
    <2>5. QED
      BY <1>6, <2>2, <2>3, <2>4
  <1>8. /\ Len(rows) = n + 2
        /\ \A i \in 1 .. n + 2 : rows[i] = Row(s[i].type, a[i], s[i].bytes, end - a[i])
    BY <1>4, <1>5, <1>6 DEF Rows
  <1>9. /\ Len(raw) = n + 2
        /\ \A i \in 1 .. n + 2 : raw[i] = Row(s[i].type, a[i], s[i].bytes, raw[i].total)
    <2>1. PICK x : x = [i \in 1 .. n + 2 |-> IF i <= n THEN 0
                                             ELSE IF i = n + 1 THEN IpBytes(d) % U16 ELSE L4Bytes(d)]
      OBVIOUS
    <2>2. Len(raw) = n + 2 /\ \A i \in 1 .. n + 2 : raw[i] = Row(s[i].type, a[i], s[i].bytes, x[i])
      BY <1>4, <1>5, <1>6, <2>1 DEF Raw
    <2>3. ASSUME NEW i \in 1 .. n + 2
          PROVE  raw[i].total = x[i]
      <3>1. PICK t1, a1, b1, x1 : t1 = s[i].type /\ a1 = a[i] /\ b1 = s[i].bytes /\ x1 = x[i]
        OBVIOUS
      <3>2. raw[i] = Row(t1, a1, b1, x1)
        BY <2>2, <3>1
      <3>3. QED
        BY <3>1, <3>2 DEF Row
    <2>4. QED
      BY <2>2, <2>3
  <1>10. PICK joined : joined = Joined(o, p) /\ joined = Packet(o.ip + IpBytes(d), IpBytes(d), raw, bits, o.ip)
    BY <1>1, <1>4, JoinedIs
  <1>11. PICK g : g = [i \in 1 .. n + 2 |->
                         [header |-> rows[i],
                          field |-> IF i = n + 2 THEN bits[i] ELSE Finish(raw[i], bits[i], rows[i + 1]).field]]
    OBVIOUS
  <1>12. ASSUME NEW i \in 1 .. n + 1
         PROVE  Finish(raw[i], bits[i], rows[i + 1])
                  = [header |-> rows[i], field |-> Finish(raw[i], bits[i], rows[i + 1]).field]
    <2>1. i \in 1 .. n + 2 /\ i + 1 \in 1 .. n + 2
      BY <1>5
    <2>2. PICK t, m, b, x, f, next : /\ t = s[i].type /\ m = s[i].bytes /\ b = a[i] /\ x = raw[i].total
                                     /\ f = bits[i] /\ next = rows[i + 1]
      OBVIOUS
    <2>3. raw[i] = Row(t, b, m, x)
      BY <1>9, <2>1, <2>2
    <2>4. rows[i] = Row(t, b, m, end - b)
      BY <1>8, <2>1, <2>2
    <2>5. next.total = end - a[i + 1]
      <3>1. PICK t1, a1, b1, x1 : /\ t1 = s[i + 1].type /\ a1 = a[i + 1]
                                  /\ b1 = s[i + 1].bytes /\ x1 = end - a[i + 1]
        OBVIOUS
      <3>2. next = Row(t1, a1, b1, x1)
        BY <1>8, <2>1, <2>2, <3>1
      <3>3. QED
        BY <3>1, <3>2 DEF Row
    <2>6. m + next.total = end - b
      <3>1. b \in Nat /\ m \in Nat /\ a[i + 1] = b + m
        BY <1>7, <2>1, <2>2
      <3>2. m + (end - (b + m)) = end - b
        BY <1>5, <3>1
      <3>3. QED
        BY <2>5, <3>1, <3>2
    <2>7. /\ t \in IpTypes \cup {"GRE", "MPLS"}
          /\ t \in IpTypes => m = HeaderBytes[t]
          /\ f.bytes = m
      <3>1. CASE i \in 1 .. n
        <4>1. t = ls[i].type /\ m = ls[i].bytes
          BY <1>3, <2>2, <3>1 DEF StackFacts
        <4>2. f = Fields(t, m)
          BY <1>4, <1>5, <2>1, <2>2, <3>1 DEF RawBits
        <4>3. f.bytes = m
          BY <4>2 DEF Fields
        <4>4. /\ ls[i].type \in IpTypes \cup {"GRE", "MPLS"}
              /\ ls[i].type \in IpTypes => ls[i].bytes = HeaderBytes[ls[i].type]
          BY <1>1, <3>1 DEF OuterOK
        <4>5. QED
          BY <4>1, <4>3, <4>4
      <3>2. CASE i = n + 1
        <4>1. t = d.family /\ m = HeaderBytes[d.family]
          BY <1>3, <2>2, <3>2 DEF StackFacts
        <4>2. f = IpField(d)
          BY <1>4, <1>5, <2>1, <2>2, <3>2 DEF RawBits
        <4>3. f.bytes = m
          BY <4>1, <4>2 DEF IpField, AField
        <4>4. QED
          BY <1>2, <4>1, <4>3 DEF Described
      <3>3. QED
        BY <1>5, <3>1, <3>2
    <2>8. Finish(Row(t, b, m, x), f, next) =
            [header |-> Row(t, b, m, m + next.total), field |-> Finish(Row(t, b, m, x), f, next).field]
      BY <2>7, FinishGivesLength
    <2>9. QED
      BY <2>2, <2>3, <2>4, <2>6, <2>8
  <1>13. raw[n + 2] = rows[n + 2]
    <2>1. n + 2 \in 1 .. n + 2 /\ ~(n + 2 <= n) /\ n + 2 # n + 1
      BY <1>5
    <2>2. Places(o, d, n, n + 2) = o.ip + HeaderBytes[d.family]
      BY <2>1 DEF Places
    <2>3. PICK hb \in Nat, lb \in Nat, ip \in Nat : hb = HeaderBytes[d.family] /\ lb = L4Bytes(d) /\ ip = o.ip
      BY <1>2 DEF Described
    <2>4. end = (ip + hb) + lb
      BY <1>1, <2>3 DEF EndOf
    <2>5. end - Places(o, d, n, n + 2) = lb
      BY <2>2, <2>3, <2>4
    <2>6. raw[n + 2] = Row(s[n + 2].type, Places(o, d, n, n + 2), s[n + 2].bytes, lb)
      BY <1>4, <2>1, <2>3 DEF Raw
    <2>7. rows[n + 2] =
            Row(s[n + 2].type, Places(o, d, n, n + 2), s[n + 2].bytes, end - Places(o, d, n, n + 2))
      BY <1>4, <2>1 DEF Rows
    <2>8. QED
      BY <2>5, <2>6, <2>7
  <1>14. AllFinished(joined, g)
    <2>1. joined.headers = raw /\ joined.bits = bits
      BY <1>10 DEF Packet
    <2>2. \A i \in 1 .. n + 1 : i \in 1 .. n + 2 /\ i + 1 \in 1 .. n + 2 /\ i # n + 2
      BY <1>5
    <2>3. n + 2 \in Nat \ {0} /\ n + 2 \in 1 .. n + 2 /\ (n + 2) - 1 = n + 1
      BY <1>5
    <2>4. g[n + 2] = [header |-> raw[n + 2], field |-> bits[n + 2]]
      BY <1>11, <1>13, <2>3
    <2>5. ASSUME NEW i \in 1 .. n + 1
          PROVE  g[i] = Finish(raw[i], bits[i], g[i + 1].header)
      <3>1. g[i + 1].header = rows[i + 1]
        BY <1>11, <2>2
      <3>2. g[i] = [header |-> rows[i], field |-> Finish(raw[i], bits[i], rows[i + 1]).field]
        BY <1>11, <2>2
      <3>3. QED
        BY <1>12, <3>1, <3>2
    <2>6. QED
      BY <1>9, <2>1, <2>3, <2>4, <2>5 DEF AllFinished
  <1>15. PICK hs, fs : /\ FinishHeaders(joined) = Packet(o.ip + IpBytes(d), IpBytes(d), hs, fs, o.ip)
                       /\ hs = [i \in 1 .. Len(raw) |-> g[i].header]
    <2>1. PICK buf, ip, l3 : buf = o.ip + IpBytes(d) /\ ip = IpBytes(d) /\ l3 = o.ip
      OBVIOUS
    <2>2. joined = Packet(buf, ip, raw, bits, l3)
      BY <1>10, <2>1
    <2>3. AllFinished(Packet(buf, ip, raw, bits, l3), g)
      BY <1>14, <2>2
    <2>4. FinishHeaders(Packet(buf, ip, raw, bits, l3)) =
            Packet(buf, ip, [i \in 1 .. Len(raw) |-> g[i].header], [i \in 1 .. Len(raw) |-> g[i].field], l3)
      BY <2>3, FinishedPacket
    <2>5. QED
      BY <2>1, <2>2, <2>4
  <1>16. PICK e : e = Encapsulated(o, p) /\ e.headers = hs
    <2>1. PICK q, ip : q = FinishHeaders(joined) /\ ip = o.ip + p.ip
      OBVIOUS
    <2>2. q.headers = hs /\ q = Packet(q.buf, q.ip, q.headers, q.bits, q.l3)
      BY <1>15, <2>1 DEF Packet
    <2>3. Encapsulated(o, p) = [q EXCEPT !.ip = ip]
      BY <1>10, <2>1 DEF Encapsulated
    <2>4. [q EXCEPT !.ip = ip].headers = hs
      BY <2>2 DEF Packet
    <2>5. QED
      BY <2>3, <2>4
  <1>17. PICK t, b, x : /\ t = [i \in 1 .. n + 2 |-> s[i].type] /\ b = [i \in 1 .. n + 2 |-> s[i].bytes]
                        /\ x = [i \in 1 .. n + 2 |-> end - a[i]]
    OBVIOUS
  <1>18. \A i \in 1 .. n + 2 : a[i] \in Nat /\ x[i] \in Nat
    BY <1>5, <1>7, <1>17
  <1>19. e.headers = [i \in 1 .. n + 2 |-> Row(t[i], a[i], b[i], x[i])]
    <2>1. \A i \in 1 .. n + 2 : g[i].header = Row(t[i], a[i], b[i], x[i])
      BY <1>8, <1>11, <1>17
    <2>2. QED
      BY <1>9, <1>15, <1>16, <2>1
  <1>20. n + 2 \in Nat /\ n + 2 <= PACKET_MAX_HEADERS
    <2>1. Len(o.headers) = n
      BY <1>1, <1>5 DEF OuterOK
    <2>2. Len(p.headers) = 2
      BY TransportIsTyped
    <2>3. QED
      BY <1>5, <2>1, <2>2
  <1>21. TableOK(e)
    <2>1. TypedRows(e.headers, n + 2, t, a, b, x)
      BY <1>18, <1>19, <1>20 DEF TypedRows
    <2>2. QED
      BY <2>1, RowsAreTyped
  <1>22. QED
    BY <1>16, <1>21

\* The steps that build a packet
LEMMA BuildIsTyped ==
  ASSUME Building, Building', Typed, Build \/ Inject
  PROVE  Typed'
  <1>1. CASE \E d \in Descriptions : Begin(d)
    <2>1. PICK d \in Descriptions : Begin(d)
      BY <1>1
    <2>2. /\ UNCHANGED <<onWire, result, outer>> /\ pkt' = NewPacket(d).pkt
          /\ pc' = NewPacket(d).pc /\ pc' \in {"refused", "died", "prefix"}
      BY <2>1, NewPacketGoesTo DEF Begin, parser
    <2>3. TableOK(NewPacket(d).pkt)
      <3>1. CASE NewPacket(d).pc = "prefix"
        BY <3>1, NewPacketBuilds, TransportIsTyped
      <3>2. CASE NewPacket(d).pc # "prefix"
        <4>1. \A f : Built(d, f).pc = "prefix" \/ Built(d, f).pkt = PacketNew(0)
          BY DEF Built
        <4>2. Refused.pkt = PacketNew(0)
          BY DEF Refused
        <4>3. NewTcpPacket(d).pc = "prefix" \/ NewTcpPacket(d).pkt = PacketNew(0)
          BY <4>1, <4>2 DEF NewTcpPacket
        <4>4. NewUdpPacket(d).pc = "prefix" \/ NewUdpPacket(d).pkt = PacketNew(0)
          BY <4>1, <4>2 DEF NewUdpPacket
        <4>5. NewIcmpPacket(d).pc = "prefix" \/ NewIcmpPacket(d).pkt = PacketNew(0)
          BY <4>1, <4>2 DEF NewIcmpPacket
        <4>6. NewPacket(d).pkt = PacketNew(0)
          BY <3>2, <4>3, <4>4, <4>5 DEF NewPacket
        <4>7. QED
          BY <4>6, NewTable
      <3>3. QED
        BY <3>1, <3>2
    <2>4. PICK k : k = pkt' /\ TableOK(k)
      BY <2>2, <2>3
    <2>5. QED
      BY <2>2, <2>4 DEF Typed, TableOK
  <1>2. CASE Prefix
    <2>1. PICK f, legal : HeaderAppend(f, legal)
      BY <1>2 DEF Prefix, Ipv4HeaderAppend, Ipv6HeaderAppend, GreHeaderAppend, MplsHeaderAppend
    <2>2. /\ pc = "prefix" /\ UNCHANGED <<onWire, result, pkt>>
          /\ \/ pc' = "refused" /\ outer' = outer
             \/ /\ pc' = pc /\ Len(outer.headers) < PACKET_MAX_HEADERS
                /\ desc' = [desc EXCEPT !.outer = Append(@, [type |-> f.type, bytes |-> f.bytes])]
      BY <2>1 DEF HeaderAppend, CanAppend, parser
    <2>3. CASE pc' = "refused" /\ outer' = outer
      BY <2>2, <2>3 DEF Typed, TableOK
    <2>4. CASE pc' = pc /\ Len(outer.headers) < PACKET_MAX_HEADERS
               /\ desc' = [desc EXCEPT !.outer = Append(@, [type |-> f.type, bytes |-> f.bytes])]
      <3>1. PICK ls, n : /\ ls = desc.outer /\ n = Len(ls) /\ OuterOK(outer, ls)
                         /\ desc = [outer |-> ls, inner |-> desc.inner]
        BY <2>2 DEF Building, BuildOK
      <3>2. n \in Nat /\ Len(outer.headers) = n
        BY <3>1 DEF OuterOK
      <3>3. PICK l : l = [type |-> f.type, bytes |-> f.bytes]
        OBVIOUS
      <3>4. desc'.outer = Append(ls, l)
        BY <2>4, <3>1, <3>3
      <3>5. Len(desc'.outer) = n + 1
        <4>1. IsList(ls)
          BY <3>1 DEF OuterOK, IsList
        <4>2. QED
          BY <3>1, <3>2, <3>4, <4>1 DEF IsList
      <3>6. OuterOK(outer', desc'.outer)
        <4>1. pc' = "prefix"
          BY <2>2, <2>4
        <4>2. BuildOK(pc', desc', outer', pkt', sent')
          BY DEF Building
        <4>3. QED
          BY <4>1, <4>2 DEF BuildOK
      <3>7. Len(desc'.outer) <= PACKET_MAX_HEADERS
        BY <2>4, <3>2, <3>5, HeadersAssumption
      <3>8. PICK o : o = outer' /\ TableOK(o)
        BY <3>6, <3>7, OuterIsTyped
      <3>9. QED
        BY <2>2, <2>4, <3>8 DEF Typed, TableOK
    <2>5. QED
      BY <2>2, <2>3, <2>4
  <1>3. CASE Encapsulate
    <2>1. /\ pc = "prefix" /\ pc' \in {"died", "built"} /\ UNCHANGED <<onWire, result, outer>>
          /\ \/ pkt' = pkt
             \/ /\ pkt' = Encapsulated(outer, pkt)
                /\ ~(Len(outer.headers) + Len(pkt.headers) > PACKET_MAX_HEADERS)
      BY <1>3 DEF Encapsulate, parser
    <2>2. CASE pkt' = pkt
      BY <2>1, <2>2 DEF Typed, TableOK
    <2>3. CASE pkt' = Encapsulated(outer, pkt) /\ ~(Len(outer.headers) + Len(pkt.headers) > PACKET_MAX_HEADERS)
      <3>1. OuterOK(outer, desc.outer) /\ TransportOK(pkt, desc.inner)
        BY <2>1 DEF Building, BuildOK
      <3>2. PICK x \in Nat : x = Len(outer.headers)
        BY <3>1 DEF OuterOK
      <3>3. Len(pkt.headers) = 2
        BY <3>1, TransportIsTyped
      <3>4. Len(outer.headers) + Len(pkt.headers) <= PACKET_MAX_HEADERS
        BY <2>3, <3>2, <3>3, HeadersAssumption
      <3>5. PICK k : k = pkt' /\ TableOK(k)
        BY <2>3, <3>1, <3>4, EncapsulatedIsTyped
      <3>6. QED
        BY <2>1, <3>5 DEF Typed, TableOK
    <2>4. QED
      BY <2>1, <2>2, <2>3
  <1>4. CASE Inject
    BY <1>4 DEF Inject, parser, Typed, TableOK
  <1>5. QED
    BY <1>1, <1>2, <1>3, <1>4 DEF Build

LEMMA NextKeepsTypes ==
  ASSUME Building, Building', Typed, [Next]_vars
  PROVE  Typed'
  <1>1. CASE Build \/ Inject
    BY <1>1, BuildIsTyped
  <1>2. CASE ~(Build \/ Inject)
    <2>1. UNCHANGED <<onWire, outer, pkt>>
      BY <1>2 DEF Next, Receive, ReadQueue, KernelSends, OthersSend, FrameArrives, PacketSocketReceive, ParsePacket,
         ParseLayer2, ParseLayer3, ParseLayer3ByProto, ParseLayer4, ParseIpv4, ParseIpv6, ParseGre, ParseMpls,
         ParseTcp, ParseUdp, ParseIcmp, ParseDone, vars, script
    <2>2. /\ pc' = pc \/ pc' \in {"receiving", "parsing", "drain", "returned"}
          /\ result' = result \/ result' \in {"OK", "BAD", "UNKNOWN_L4"}
      BY <1>2 DEF Next, Receive, ReadQueue, KernelSends, OthersSend, FrameArrives, PacketSocketReceive, ParsePacket,
         ParseLayer2, ParseLayer3, ParseLayer3ByProto, ParseLayer4, ParseIpv4, ParseIpv6, ParseGre, ParseMpls,
         ParseTcp, ParseUdp, ParseIcmp, ParseDone, vars, parser, Concludes, GoesOn, Advances, Ends
    <2>3. QED
      BY <2>1, <2>2 DEF Typed, TableOK
  <1>3. QED
    BY <1>1, <1>2

\* The tables of both packets never have more rows than struct packet has, and
\* their places and lengths are numbers, whatever is described and whatever is
\* sniffed; and never are more packets counted or waiting than have passed.
THEOREM PacketTypes == Spec => []TypeOK
  <1>1. Init => Building /\ Typed
    <2> SUFFICES ASSUME Init PROVE Building /\ Typed
      OBVIOUS
    <2>1. /\ pc = "script" /\ desc = [outer |-> <<>>, inner |-> None]
          /\ outer = PacketNew(PACKET_MAX_HEADER_BYTES)
      BY DEF Init, NoDescription
    <2>2. Building
      <3>1. desc = [outer |-> <<>>, inner |-> desc.inner]
        BY <2>1
      <3>2. QED
        BY <2>1, <3>1 DEF Building, BuildOK
    <2>3. Typed
      BY NewTable DEF Init, Typed
    <2>4. QED
      BY <2>2, <2>3
  <1>2. Building /\ Typed /\ [Next]_vars => Building' /\ Typed'
    BY NextBuilds, NextKeepsTypes
  <1>3. Typed /\ ParserInv /\ Queues => TypeOK
    <2> SUFFICES ASSUME Typed, ParserInv, Queues PROVE TypeOK
      OBVIOUS
    <2>1. \A p \in {outer, pkt, live} : TableOK(p)
      BY LiveIsTyped DEF Typed
    <2>2. Waiting \in Nat
      BY FramesAreFinite DEF Queues, Waiting
    <2>3. tun \in 0 .. MaxFrames /\ num_packets \in 0 .. MaxFrames
      <3>1. PICK w \in Nat : w = Waiting
        BY <2>2
      <3>2. /\ tun \in Nat /\ num_packets \in Nat /\ passed \in 0 .. MaxFrames /\ num_packets + w <= passed
            /\ onWire => tun = 0
            /\ ~onWire => tun = w + (IF pc = "returned" THEN 0 ELSE num_packets)
        BY <3>1 DEF Queues
      <3>3. QED
        BY <3>1, <3>2, HeadersAssumption
    <2>4. QED
      BY <2>1, <2>3 DEF TypeOK, Typed, TableOK
  <1>4. QED
    BY <1>1, <1>2, <1>3, SpecParses, SpecQueues, PTL DEF Spec
=============================================================================
