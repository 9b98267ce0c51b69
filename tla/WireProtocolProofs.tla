------------------------- MODULE WireProtocolProofs -------------------------
(***************************************************************************)
(* Proofs about WireProtocol, for any number of sessions, scripts of any   *)
(* length and every combination of faults.                                 *)
(*                                                                         *)
(* Client and server walk through the same script and agree on nothing but *)
(* a few messages.  IInv says, session by session, what each side's        *)
(* counters mean (Counted), which messages can wait for the server         *)
(* (Queued), how far the sides are apart when the client is in no batch of *)
(* packets (Synced), and how far in a batch that it has asked for          *)
(* (InBatch).  The server runs ahead over events that are no packets, the  *)
(* client over the packets of one batch, and neither can pass the other by *)
(* more than that.                                                         *)
(***************************************************************************)
EXTENDS WireProtocol, TLAPS, SequenceTheorems, WellFoundedInduction

\* Time for each leaf of a proof, in seconds
USE SMTT(20), ZenonT(40)

Events(s) == Len(script[s])
Packet(s, e) == Kind(s, e) = "packet"

Stopped == {"free", "close", "closed"}
BeforeRun == {"none", "args", "path", "script", "hwaddr", "setup", "ready", "wait_starting"}

\* What the position of the client says of its counters
ClientCounted(s) ==
    /\ cnum[s] <= Events(s) /\ cevent[s] <= Events(s) + 1
    /\ cdone[s] <= cnum[s] /\ cnum[s] <= cdone[s] + 1
    /\ clast[s] = IF cnum[s] = 0 THEN "invalid" ELSE Kind(s, cnum[s])
    /\ \A e \in 1..cnum[s] : Kind(s, e) # "backward"
    /\ client[s] \in {"connect", "hello", "wait_ready", "starting"} =>
          cevent[s] = 0 /\ cnum[s] = 0
    /\ client[s] = "next" => cevent[s] = cnum[s] /\ cdone[s] = cnum[s]
    /\ client[s] = "run" => cevent[s] = cnum[s] /\ cdone[s] + 1 = cnum[s]
    /\ client[s] = "wait_done" =>
          /\ cevent[s] = cnum[s] + 1 /\ cdone[s] = cnum[s]
          /\ Kind(s, cevent[s]) \in {"other", "end"} /\ clast[s] = "packet"
    /\ client[s] = "finish" => cnum[s] = Events(s) /\ cdone[s] = Events(s)
    /\ cexit[s] = "ok" => cnum[s] = Events(s) /\ cdone[s] = Events(s)
    /\ cexit[s] = "none" <=> client[s] # "exited"
    /\ cexit[s] \notin {"bad_count", "bad_op"}

\* ... and of the server thread.  A thread that is killed in the middle of a
\* step stays where it was.
ServerCounted(s) ==
    /\ snum[s] <= Events(s) /\ sevent[s] \in {snum[s], snum[s] + 1}
    /\ slast[s] = IF snum[s] = 0 THEN "invalid" ELSE Kind(s, snum[s])
    /\ \A e \in 1..snum[s] : Kind(s, e) # "backward"
    /\ server[s] \in BeforeRun => sevent[s] = 0
    /\ server[s] = "next" =>
          \/ sevent[s] = snum[s]
          \/ daemon = "killed" /\ ~Packet(s, sevent[s])
    /\ server[s] = "packet" => sevent[s] = snum[s] /\ slast[s] = "packet"
    /\ server[s] = "wait_start" =>
          sevent[s] = snum[s] + 1 /\ Packet(s, sevent[s]) /\ slast[s] # "packet"
    /\ server[s] \notin Stopped => serror[s] = "none"
    /\ serror[s] = "script" => Kind(s, sevent[s]) = "backward"
    /\ serror[s] \notin {"bad_count", "bad_op"}

\* A batch that the client has asked for starts where the server comes next
StartFits(s, m) ==
    /\ snum[s] <= m /\ m <= cdone[s] /\ slast[s] # "packet"
    /\ Packet(s, m + 1)
    /\ \A e \in snum[s] + 1..m : Kind(s, e) = "other"

HelloOps == <<"ARGS", "PATH", "SCRIPT", "HWADDR">>
HelloNext == [args |-> 1, path |-> 2, script |-> 3, hwaddr |-> 4, setup |-> 5, ready |-> 5]

\* The messages that wait for a server thread that is alive
Queued(s) ==
    /\ server[s] \in DOMAIN HelloNext =>
          /\ Len(toServer[s]) + HelloNext[server[s]] <= 5
          /\ \A i \in 1..Len(toServer[s]) :
                toServer[s][i].op = HelloOps[HelloNext[server[s]] + i - 1]
    /\ server[s] = "wait_starting" =>
          \/ toServer[s] = <<>> \/ toServer[s] = <<Msg("STARTING")>>
          \/ \E m \in 0..Events(s) : StartFits(s, m)
                /\ toServer[s] = <<Msg("STARTING"), Start(m)>>
    /\ server[s] \in {"next", "wait_start"} =>
          \/ toServer[s] = <<>>
          \/ \E m \in 0..Events(s) : StartFits(s, m) /\ toServer[s] = <<Start(m)>>
    /\ server[s] = "packet" => toServer[s] = <<>>

\* The set-up, up to the run of the script
Greeted(s) ==
    /\ client[s] = "connect" =>
          server[s] = "none" /\ toServer[s] = <<>> /\ toClient[s] = <<>>
    /\ client[s] = "hello" =>
          server[s] = "args" /\ toServer[s] = <<>> /\ toClient[s] = <<>>
    /\ client[s] = "wait_ready" =>
          /\ server[s] \in (BeforeRun \ {"none"}) \union {"close", "closed"}
          /\ toClient[s] = IF server[s] = "wait_starting" THEN <<Msg("READY")>> ELSE <<>>
          /\ daemon = "up" /\ server[s] = "wait_starting" => toServer[s] = <<>>
    /\ client[s] = "starting" =>
          /\ server[s] = "wait_starting" /\ toClient[s] = <<>>
          /\ daemon = "up" => toServer[s] = <<>>

\* The server is past batch and number m, and in no later batch
PastBatch(s, m) ==
    /\ server[s] \in {"next", "wait_start"} \union Stopped
    /\ serror[s] \in {"none", "script"}
    /\ server[s] = "next" => slast[s] # "packet"
    /\ \A e \in m + 1..snum[s] : ~Packet(s, e)
    /\ daemon = "up" /\ server[s] \in {"next", "wait_start"} => toServer[s] = <<>>

\* The client waits for no verdict: all its packets have been run
InSync(s) == \/ client[s] \in {"next", "run"} /\ clast[s] # "packet"
             \/ client[s] = "finish"
             \/ cexit[s] = "ok"
AllRunUpTo(s, m) == \A e \in 1..m : Packet(s, e) => e < sevent[s]
Synced(s) ==
    InSync(s) => /\ toClient[s] = <<>>
                 /\ AllRunUpTo(s, cnum[s])
                 /\ \/ PastBatch(s, cnum[s])
                    \/ /\ server[s] = "wait_starting"
                       /\ daemon = "up" => toServer[s] = <<Msg("STARTING")>>

OnlyWarnings(q) == \A i \in 1..Len(q) : q[i].op = "WARN"
EndsWith(q, m) == /\ q # <<>> /\ q[Len(q)] = m
                  /\ \A i \in 1..Len(q) - 1 : q[i].op = "WARN"

\* The batch that begins at b: asked for, being run, run, or given up
Asked(s, b) ==
    /\ daemon = "up" /\ toClient[s] = <<>>
    /\ \/ server[s] = "wait_starting" /\ toServer[s] = <<Msg("STARTING"), Start(b - 1)>>
       \/ server[s] \in {"next", "wait_start"} /\ toServer[s] = <<Start(b - 1)>>
BeingRun(s, b) ==
    /\ daemon = "up" /\ OnlyWarnings(toClient[s])
    /\ server[s] \in {"next", "packet"} /\ slast[s] = "packet"
    /\ snum[s] >= b /\ \A e \in b..snum[s] : Packet(s, e)
HasRun(s, b, m) ==
    /\ EndsWith(toClient[s], Done(m, "OK"))
    /\ \A e \in b..m : Packet(s, e)
    /\ Kind(s, m + 1) \in {"other", "end"}
    /\ m < sevent[s] /\ PastBatch(s, m)
GivenUp(s) ==
    /\ daemon = "killed" \/ server[s] \in Stopped
    /\ \/ OnlyWarnings(toClient[s])
       \/ \E m \in 0..MaxEvents : EndsWith(toClient[s], Done(m, "ERR"))

InBatch(s) ==
    client[s] \in {"next", "run", "wait_done"} /\ clast[s] = "packet" =>
        \E b \in 1..cnum[s] :
            /\ \A e \in b..cnum[s] : Packet(s, e)
            /\ AllRunUpTo(s, b - 1)
            /\ \/ Asked(s, b) \/ BeingRun(s, b) \/ GivenUp(s)
               \/ \E m \in b..Events(s) : HasRun(s, b, m)

\* Packets that have begun, and events that the client has executed, leave
\* none of the other side's behind
Ordered(s) ==
    /\ \A e \in 1..snum[s] : Packet(s, e) =>
          \A f \in 1..e - 1 : ~Packet(s, f) => f <= cdone[s]
    /\ \A f \in 1..cdone[s] : ~Packet(s, f) => AllRunUpTo(s, f - 1)

SessionInv(s) ==
    /\ ClientCounted(s) /\ ServerCounted(s) /\ Greeted(s) /\ Synced(s) /\ InBatch(s)
    /\ Ordered(s)
    /\ daemon = "up" => Queued(s)

IInv == TypeOK /\ \A s \in Sessions : SessionInv(s)

-----------------------------------------------------------------------------
(* Scripts, messages and queues.                                           *)

LEMMA ScriptFacts ==
  ASSUME TypeOK, NEW s \in Sessions
  PROVE  /\ Events(s) \in Nat /\ Events(s) >= 1 /\ Events(s) <= MaxEvents
         /\ \A e : Kind(s, e) \in {"packet", "other", "backward", "end"}
         /\ \A e \in 1..Events(s) : Kind(s, e) = script[s][e] /\ Kind(s, e) # "end"
         /\ \A e : e \notin 1..Events(s) => Kind(s, e) = "end"
  <1>0. script[s] \in Scripts
    BY DEF TypeOK
  <1>1. PICK n \in 1..MaxEvents : script[s] \in [1..n -> Kinds]
    BY <1>0 DEF Scripts
  <1>2. MaxEvents \in Nat /\ n \in Nat /\ n >= 1 /\ n <= MaxEvents
    BY MaxEventsAssumption
  <1>3. script[s] \in Seq(Kinds) /\ Len(script[s]) = n
    BY <1>1, <1>2
  <1>4. \A e \in 1..n : script[s][e] \in {"packet", "other", "backward"}
    BY <1>1, KindsAssumption DEF AllKinds
  <1>5. QED
    BY <1>2, <1>3, <1>4 DEF Events, Kind

LEMMA MessageFacts ==
  /\ \A op \in {"ARGS", "PATH", "SCRIPT", "HWADDR", "READY", "STARTING", "WARN"} :
        Msg(op) \in Messages /\ Msg(op).op = op
  /\ \A n \in 0..MaxEvents :
        Start(n) \in Messages /\ Start(n).op = "START" /\ Start(n).num = n
  /\ \A n \in 0..MaxEvents : \A r \in {"OK", "ERR"} :
        /\ Done(n, r) \in Messages
        /\ Done(n, r).op = "DONE" /\ Done(n, r).num = n /\ Done(n, r).result = r
  <1>1. 0 \in 0..MaxEvents
    BY MaxEventsAssumption
  <1>2. QED
    BY <1>1 DEF Messages, Msg, Start, Done

LEMMA ShortQueues ==
  /\ <<>> \in Seq(Messages) /\ Len(<<>>) = 0
  /\ \A m \in Messages :
        /\ <<m>> \in Seq(Messages) /\ <<m>> # <<>> /\ Len(<<m>>) = 1
        /\ Head(<<m>>) = m /\ Tail(<<m>>) = <<>> /\ <<m>>[1] = m
        /\ <<>> \o <<m>> = <<m>>
  /\ \A m, n \in Messages :
        /\ <<m, n>> \in Seq(Messages) /\ <<m, n>> # <<>> /\ Len(<<m, n>>) = 2
        /\ Head(<<m, n>>) = m /\ Tail(<<m, n>>) = <<n>>
        /\ <<m>> \o <<n>> = <<m, n>>
  <1>1. <<>> \in Seq(Messages) /\ Len(<<>>) = 0
    OBVIOUS
  <1>2. ASSUME NEW m \in Messages
        PROVE  /\ <<m>> \in Seq(Messages) /\ <<m>> # <<>> /\ Len(<<m>>) = 1
               /\ Head(<<m>>) = m /\ <<m>>[1] = m
    OBVIOUS
  <1>3. ASSUME NEW m \in Messages PROVE Tail(<<m>>) = <<>> /\ <<>> \o <<m>> = <<m>>
    BY <1>2, HeadTailProperties, EmptySeq, ConcatEmptySeq
  <1>4. ASSUME NEW m \in Messages, NEW n \in Messages
        PROVE  /\ <<m, n>> \in Seq(Messages) /\ <<m, n>> # <<>> /\ Len(<<m, n>>) = 2
               /\ Head(<<m, n>>) = m
    OBVIOUS
  <1>5. ASSUME NEW m \in Messages, NEW n \in Messages
        PROVE  Tail(<<m, n>>) = <<n>> /\ <<m>> \o <<n>> = <<m, n>>
    <2>1. Tail(<<m, n>>) = <<n>>
      <3>1. /\ Tail(<<m, n>>) \in Seq(Messages) /\ Len(Tail(<<m, n>>)) = 1
            /\ Tail(<<m, n>>)[1] = n
        BY <1>4, HeadTailProperties
      <3>2. <<n>> \in Seq(Messages) /\ Len(<<n>>) = 1 /\ <<n>>[1] = n
        BY <1>2
      <3>3. QED
        BY <3>1, <3>2, SeqEqual
    <2>2. <<m>> \o <<n>> = <<m, n>>
      <3>1. /\ <<m>> \o <<n>> \in Seq(Messages) /\ Len(<<m>> \o <<n>>) = 2
            /\ \A i \in 1..2 : (<<m>> \o <<n>>)[i] = IF i <= 1 THEN m ELSE n
        BY <1>2, ConcatProperties
      <3>2. <<m, n>>[1] = m /\ <<m, n>>[2] = n
        OBVIOUS
      <3>3. \A i \in 1..2 : (<<m>> \o <<n>>)[i] = <<m, n>>[i]
        BY <3>1, <3>2
      <3>4. <<m, n>> \in Seq(Messages) /\ Len(<<m, n>>) = 2
        BY <1>4
      <3>5. QED
        BY <3>1, <3>3, <3>4, SeqEqual
    <2>3. QED
      BY <2>1, <2>2
  <1>6. QED
    BY <1>1, <1>2, <1>3, <1>4, <1>5, ZenonT(40)

\* A queue of warnings stays one when a warning is added or read.
LEMMA Warnings ==
  ASSUME NEW q \in Seq(Messages), OnlyWarnings(q)
  PROVE  /\ q # <<>> => Head(q).op = "WARN" /\ OnlyWarnings(Tail(q))
         /\ OnlyWarnings(q \o <<Msg("WARN")>>)
         /\ \A m \in Messages : EndsWith(q \o <<m>>, m)
  <1>1. q # <<>> => Head(q).op = "WARN" /\ OnlyWarnings(Tail(q))
    <2>1. SUFFICES ASSUME q # <<>>
                   PROVE  Head(q).op = "WARN" /\ OnlyWarnings(Tail(q))
      OBVIOUS
    <2>2. Len(q) \in Nat /\ Len(q) >= 1 /\ Head(q) = q[1]
      BY <2>1
    <2>3. Len(Tail(q)) = Len(q) - 1 /\ \A i \in 1..Len(Tail(q)) : Tail(q)[i] = q[i + 1]
      BY <2>1, HeadTailProperties
    <2>4. QED
      BY <2>2, <2>3 DEF OnlyWarnings
  <1>2. ASSUME NEW m \in Messages
        PROVE  /\ Len(q) \in Nat /\ Len(q \o <<m>>) = Len(q) + 1 /\ q \o <<m>> # <<>>
               /\ \A i \in 1..Len(q) : (q \o <<m>>)[i] = q[i]
               /\ (q \o <<m>>)[Len(q) + 1] = m
    BY AppendProperties, AppendIsConcat, LenProperties
  <1>3. OnlyWarnings(q \o <<Msg("WARN")>>)
    BY <1>2, MessageFacts DEF OnlyWarnings
  <1>4. \A m \in Messages : EndsWith(q \o <<m>>, m)
    BY <1>2 DEF OnlyWarnings, EndsWith
  <1>5. QED
    BY <1>1, <1>3, <1>4

\* Behind warnings the verdict is the last message to be read.
LEMMA VerdictQueue ==
  ASSUME NEW q \in Seq(Messages), NEW m \in Messages, EndsWith(q, m)
  PROVE  \/ Head(q).op = "WARN" /\ EndsWith(Tail(q), m)
         \/ Head(q) = m /\ Tail(q) = <<>>
  <1>1. q # <<>> /\ Len(q) \in Nat /\ Len(q) >= 1 /\ Head(q) = q[1]
    BY DEF EndsWith
  <1>2. /\ Tail(q) \in Seq(Messages) /\ Len(Tail(q)) = Len(q) - 1
        /\ \A i \in 1..Len(Tail(q)) : Tail(q)[i] = q[i + 1]
    BY <1>1, HeadTailProperties
  <1>3. CASE Len(q) = 1
    <2>1. Head(q) = m
      BY <1>1, <1>3 DEF EndsWith
    <2>2. Tail(q) = <<>>
      <3>1. Tail(q) \in Seq(Messages) /\ Len(Tail(q)) = 0
        BY <1>2, <1>3
      <3>2. QED
        BY <3>1, EmptySeq
    <2>3. QED
      BY <2>1, <2>2
  <1>4. CASE Len(q) > 1
    <2>1. Head(q).op = "WARN"
      BY <1>1, <1>4 DEF EndsWith
    <2>0. Len(Tail(q)) \in 1..Len(Tail(q))
      BY <1>1, <1>2, <1>4
    <2>2. Tail(q) # <<>> /\ Tail(q)[Len(Tail(q))] = m
      BY <2>0, <1>1, <1>2, <1>4, ShortQueues DEF EndsWith
    <2>3. \A i \in 1..Len(Tail(q)) - 1 : Tail(q)[i].op = "WARN"
      BY <1>1, <1>2, <1>4 DEF EndsWith
    <2>4. QED
      BY <2>1, <2>2, <2>3 DEF EndsWith
  <1>5. Len(q) = 1 \/ Len(q) > 1
    BY <1>1
  <1>6. QED
    BY <1>3, <1>4, <1>5, ZenonT(40)

-----------------------------------------------------------------------------
(* Steps of one session leave the others alone.                            *)

Same(t) ==
    /\ script'[t] = script[t]
    /\ toServer'[t] = toServer[t] /\ toClient'[t] = toClient[t]
    /\ client'[t] = client[t] /\ cevent'[t] = cevent[t] /\ cnum'[t] = cnum[t]
    /\ clast'[t] = clast[t] /\ cdone'[t] = cdone[t] /\ cexit'[t] = cexit[t]
    /\ server'[t] = server[t] /\ sevent'[t] = sevent[t] /\ snum'[t] = snum[t]
    /\ slast'[t] = slast[t] /\ serror'[t] = serror[t]

LEMMA Frame ==
  ASSUME NEW t \in Sessions, SessionInv(t), Same(t), daemon' \in {daemon, "killed"}
  PROVE  SessionInv(t)'
  <1>1. Events(t)' = Events(t) /\ \A e : Kind(t, e)' = Kind(t, e)
    BY DEF Same, Events, Kind
  <1>2. \A e : Packet(t, e)' = Packet(t, e)
    BY <1>1 DEF Packet
  <1> USE <1>1, <1>2 DEF Same, SessionInv
  <1>3. ClientCounted(t)' /\ ServerCounted(t)' /\ Greeted(t)'
    BY DEF ClientCounted, ServerCounted, Greeted
  <1>4. Ordered(t)'
    BY DEF Ordered, AllRunUpTo
  <1>5. Synced(t)'
    BY DEF Synced, InSync, AllRunUpTo, PastBatch
  <1>6. (daemon = "up" => Queued(t))'
    BY DEF Queued, StartFits
  <1>7. InBatch(t)'
    <2>1. ASSUME NEW b, Asked(t, b) PROVE (Asked(t, b) \/ GivenUp(t))'
      BY <2>1, ShortQueues DEF Asked, GivenUp, OnlyWarnings
    <2>2. ASSUME NEW b, BeingRun(t, b) PROVE (BeingRun(t, b) \/ GivenUp(t))'
      BY <2>2 DEF BeingRun, GivenUp, OnlyWarnings
    <2>3. ASSUME GivenUp(t) PROVE GivenUp(t)'
      BY <2>3 DEF GivenUp, OnlyWarnings, EndsWith
    <2>4. ASSUME NEW b, NEW m, HasRun(t, b, m) PROVE HasRun(t, b, m)'
      BY <2>4 DEF HasRun, EndsWith, PastBatch
    <2>5. QED
      BY <2>1, <2>2, <2>3, <2>4 DEF InBatch, AllRunUpTo
  <1>8. QED
    BY <1>3, <1>4, <1>5, <1>6, <1>7

LEMMA OneSession ==
  ASSUME IInv, NEW s \in Sessions, TypeOK', SessionInv(s)',
         \A t \in Sessions \ {s} : Same(t), daemon' \in {daemon, "killed"}
  PROVE  IInv'
  BY Frame DEF IInv

LEMMA InitIInv == Init => IInv
  <1> SUFFICES ASSUME Init PROVE IInv
    OBVIOUS
  <1>1. TypeOK
    BY MaxEventsAssumption, ShortQueues DEF Init, TypeOK, ClientReasons, ServerReasons
  <1>2. ASSUME NEW s \in Sessions PROVE SessionInv(s)
    <2> USE DEF Init
    <2>1. Events(s) \in Nat
      BY <1>1, ScriptFacts
    <2>2. ClientCounted(s) /\ ServerCounted(s) /\ Greeted(s) /\ Ordered(s)
      BY <2>1 DEF ClientCounted, ServerCounted, Greeted, Ordered, BeforeRun, Stopped
    <2>3. Synced(s) /\ InBatch(s) /\ Queued(s)
      BY DEF Synced, InSync, InBatch, Queued, HelloNext
    <2>4. QED
      BY <2>2, <2>3 DEF SessionInv
  <1>3. QED
    BY <1>1, <1>2 DEF IInv

-----------------------------------------------------------------------------
(* The client leaves.  It is then in no batch, and its thread on the server *)
(* owes it nothing.                                                         *)

LEMMA ClientLeaves ==
  ASSUME IInv, NEW s \in Sessions,
         client'[s] = "exited", cexit'[s] \in {"io", "died", "script", "packet_error"},
         cevent'[s] <= Events(s) + 1,
         script' = script, UNCHANGED serverVars, daemon' = daemon,
         cnum' = cnum, clast' = clast, cdone' = cdone,
         toServer'[s] = toServer[s] \/ (daemon = "up" => Queued(s)')
  PROVE  SessionInv(s)'
  <1>0. SessionInv(s) /\ TypeOK
    BY DEF IInv
  <1>1. Events(s)' = Events(s) /\ \A e : Kind(s, e)' = Kind(s, e)
    BY DEF Events, Kind
  <1>2. \A e : Packet(s, e)' = Packet(s, e)
    BY <1>1 DEF Packet
  <1> USE <1>0, <1>1, <1>2 DEF SessionInv, serverVars
  <1>3. ClientCounted(s)'
    BY DEF ClientCounted
  <1>4. ServerCounted(s)' /\ Greeted(s)' /\ Synced(s)' /\ InBatch(s)'
    BY DEF ServerCounted, Greeted, Synced, InSync, InBatch
  <1>5. Ordered(s)'
    BY DEF Ordered, AllRunUpTo
  <1>6. (daemon = "up" => Queued(s))'
    BY DEF Queued, StartFits
  <1>7. QED
    BY <1>3, <1>4, <1>5, <1>6

LEMMA Ranges ==
  ASSUME TypeOK, NEW s \in Sessions
  PROVE  /\ toServer[s] \in Seq(Messages) /\ toClient[s] \in Seq(Messages)
         /\ cevent[s] \in Nat /\ sevent[s] \in Nat
         /\ cnum[s] \in 0..MaxEvents /\ snum[s] \in 0..MaxEvents
         /\ cdone[s] \in 0..MaxEvents
         /\ cnum[s] \in Nat /\ snum[s] \in Nat /\ cdone[s] \in Nat
         /\ cevent[s] <= MaxEvents + 1 /\ sevent[s] <= MaxEvents + 1
         /\ MaxEvents \in Nat
  BY MaxEventsAssumption DEF TypeOK

LEMMA ClientLeavesQuietly ==
  ASSUME IInv, NEW s \in Sessions,
         ConnectFails(s) \/ ClientReadFails(s) \/ ClientWriteFails(s)
  PROVE  IInv'
  <1> USE DEF ConnectFails, ClientReadFails, ClientWriteFails, ExitClient, ClientAt
  <1>0. TypeOK /\ SessionInv(s)
    BY DEF IInv
  <1>1. \A t \in Sessions \ {s} : Same(t)
    BY <1>0 DEF TypeOK, Same, serverVars
  <1>2. client[s] = "next" => cevent[s] <= Events(s)
    BY <1>0 DEF SessionInv, ClientCounted
  <1>3. Events(s) \in Nat /\ Events(s) <= MaxEvents
    BY <1>0, ScriptFacts
  <1>4. cevent'[s] <= Events(s) + 1 /\ cevent' \in [Sessions -> 0..MaxEvents + 1]
    <2>1. cevent[s] \in Nat /\ cevent[s] <= Events(s) + 1 /\ MaxEvents \in Nat
      BY <1>0, Ranges DEF SessionInv, ClientCounted
    <2>2. CASE UNCHANGED cevent
      BY <1>0, <2>1, <2>2 DEF TypeOK
    <2>3. CASE cevent' = [cevent EXCEPT ![s] = @ + 1] /\ client[s] = "next"
      BY <1>0, <1>2, <1>3, <2>1, <2>3 DEF TypeOK
    <2>4. QED
      BY <2>2, <2>3
  <1>5. TypeOK'
    BY <1>0, <1>4 DEF TypeOK, ClientReasons, serverVars
  <1>6. SessionInv(s)'
    <2>1. client'[s] = "exited" /\ cexit'[s] = "io"
      BY <1>0 DEF TypeOK
    <2>2. QED
      BY <1>4, <2>1, ClientLeaves
  <1>7. QED
    BY <1>1, <1>5, <1>6, OneSession

\* The greeting, or the part of it that a client has written when it dies.
LEMMA Greeting ==
  ASSUME NEW n \in 1..4
  PROVE  /\ SubSeq(ClientHello, 1, n) \in Seq(Messages)
         /\ Len(SubSeq(ClientHello, 1, n)) = n
         /\ \A i \in 1..n : SubSeq(ClientHello, 1, n)[i].op = HelloOps[i]
         /\ SubSeq(ClientHello, 1, 4) = ClientHello
  <1>1. /\ ClientHello \in Seq(Messages) /\ Len(ClientHello) = 4
        /\ \A i \in 1..4 : ClientHello[i] \in Messages /\ ClientHello[i].op = HelloOps[i]
    <2>1. /\ Msg("ARGS") \in Messages /\ Msg("PATH") \in Messages
          /\ Msg("SCRIPT") \in Messages /\ Msg("HWADDR") \in Messages
      BY MessageFacts
    <2>2. /\ Msg("ARGS").op = "ARGS" /\ Msg("PATH").op = "PATH"
          /\ Msg("SCRIPT").op = "SCRIPT" /\ Msg("HWADDR").op = "HWADDR"
      BY MessageFacts
    <2>3. QED
      BY <2>1, <2>2 DEF ClientHello, HelloOps
  <1>2. \A i \in 1..n : ClientHello[i] \in Messages
    BY <1>1
  <1>3. /\ SubSeq(ClientHello, 1, n) \in Seq(Messages)
        /\ Len(SubSeq(ClientHello, 1, n)) = n
        /\ \A i \in 1..n : SubSeq(ClientHello, 1, n)[i] = ClientHello[i]
    BY <1>2, SubSeqProperties
  <1>4. SubSeq(ClientHello, 1, 4) = ClientHello
    BY <1>1, SubSeqFull
  <1>5. QED
    BY <1>1, <1>3, <1>4

\* What the server finds when a client in "hello" has sent n messages.
LEMMA GreetingSent ==
  ASSUME IInv, NEW s \in Sessions, client[s] = "hello", NEW n \in 1..4,
         SendToServer(s, SubSeq(ClientHello, 1, n)), UNCHANGED <<server, daemon>>
  PROVE  /\ toServer' \in [Sessions -> Seq(Messages)]
         /\ \A t \in Sessions \ {s} : toServer'[t] = toServer[t]
         /\ Queued(s)'
  <1>1. TypeOK /\ SessionInv(s)
    BY DEF IInv
  <1>2. server[s] = "args" /\ toServer[s] = <<>>
    BY <1>1 DEF SessionInv, Greeted
  <1>3. <<>> \o SubSeq(ClientHello, 1, n) = SubSeq(ClientHello, 1, n)
    BY Greeting, ConcatEmptySeq
  <1>4. /\ toServer'[s] = <<>> \/ toServer'[s] = SubSeq(ClientHello, 1, n)
        /\ \A t \in Sessions \ {s} : toServer'[t] = toServer[t]
        /\ toServer' \in [Sessions -> Seq(Messages)]
    <2>1. CASE ServerOpen(s)
      <3>1. toServer' = [toServer EXCEPT ![s] = SubSeq(ClientHello, 1, n)]
        BY <1>2, <1>3, <2>1 DEF SendToServer
      <3>2. SubSeq(ClientHello, 1, n) \in Seq(Messages)
        BY Greeting
      <3>3. QED
        BY <1>1, <3>1, <3>2 DEF TypeOK
    <2>2. CASE ~ServerOpen(s)
      BY <1>1, <1>2, <2>2 DEF TypeOK, SendToServer
    <2>3. QED
      BY <2>1, <2>2
  <1>5. Queued(s)'
    <2>1. server'[s] = "args"
      BY <1>2
    <2>2. /\ Len(toServer'[s]) \in 0..4
          /\ \A i \in 1..Len(toServer'[s]) : toServer'[s][i].op = HelloOps[i]
      <3>1. CASE toServer'[s] = <<>>
        BY <3>1, ShortQueues
      <3>2. CASE toServer'[s] = SubSeq(ClientHello, 1, n)
        BY <3>2, Greeting
      <3>3. QED
        BY <1>4, <3>1, <3>2
    <2>3. HelloNext["args"] = 1
      BY DEF HelloNext
    <2>4. QED
      BY <2>1, <2>2, <2>3 DEF Queued
  <1>6. QED
    BY <1>4, <1>5

LEMMA ClientDiesStep == ASSUME IInv, NEW s \in Sessions, ClientDies(s) PROVE IInv'
  <1> USE DEF ClientDies, ExitClient, ClientAt
  <1>0. TypeOK /\ SessionInv(s)
    BY DEF IInv
  <1>1. /\ toServer' \in [Sessions -> Seq(Messages)]
        /\ \A t \in Sessions \ {s} : toServer'[t] = toServer[t]
        /\ toServer'[s] = toServer[s] \/ Queued(s)'
    <2>1. CASE UNCHANGED toServer
      BY <1>0, <2>1 DEF TypeOK
    <2>2. CASE ~UNCHANGED toServer
      <3>1. PICK n \in 1..3 : SendToServer(s, SubSeq(ClientHello, 1, n))
        BY <2>2
      <3>2. n \in 1..4 /\ client[s] = "hello" /\ UNCHANGED <<server, daemon>>
        BY <2>2 DEF serverVars
      <3>3. QED
        BY <3>1, <3>2, GreetingSent
    <2>3. QED
      BY <2>1, <2>2
  <1>2. \A t \in Sessions \ {s} : Same(t)
    BY <1>0, <1>1 DEF TypeOK, Same, serverVars
  <1>3. TypeOK'
    BY <1>0, <1>1 DEF TypeOK, ClientReasons, serverVars
  <1>4. SessionInv(s)'
    <2>1. client'[s] = "exited" /\ cexit'[s] = "died"
      BY <1>0 DEF TypeOK
    <2>2. cevent'[s] <= Events(s) + 1
      BY <1>0 DEF SessionInv, ClientCounted
    <2>3. QED
      BY <1>1, <2>1, <2>2, ClientLeaves
  <1>5. QED
    BY <1>2, <1>3, <1>4, OneSession

-----------------------------------------------------------------------------
(* The client's set-up.                                                    *)

LEMMA ConnectStep == ASSUME IInv, NEW s \in Sessions, Connect(s) PROVE IInv'
  <1> USE DEF Connect, ClientAt
  <1>0. TypeOK /\ SessionInv(s)
    BY DEF IInv
  <1>1. \A t \in Sessions \ {s} : Same(t)
    BY <1>0 DEF TypeOK, Same
  <1>2. TypeOK'
    BY <1>0 DEF TypeOK
  <1>3. /\ server[s] = "none" /\ toServer[s] = <<>> /\ toClient[s] = <<>>
        /\ client'[s] = "hello" /\ server'[s] = "args"
    BY <1>0 DEF TypeOK, SessionInv, Greeted
  <1>4. SessionInv(s)'
    <2>1. Events(s)' = Events(s) /\ \A e : Kind(s, e)' = Kind(s, e)
      BY DEF Events, Kind
    <2>2. \A e : Packet(s, e)' = Packet(s, e)
      BY <2>1 DEF Packet
    <2> USE <1>0, <1>3, <2>1, <2>2 DEF SessionInv
    <2>3. ClientCounted(s)' /\ Greeted(s)'
      BY DEF ClientCounted, Greeted
    <2>4. ServerCounted(s)'
      BY DEF ServerCounted, BeforeRun, Stopped
    <2>5. Synced(s)' /\ InBatch(s)'
      BY DEF Synced, InSync, InBatch, ClientCounted
    <2>6. Ordered(s)'
      BY DEF Ordered, AllRunUpTo
    <2>7. Queued(s)'
      BY ShortQueues DEF Queued, HelloNext
    <2>8. QED
      BY <2>3, <2>4, <2>5, <2>6, <2>7
  <1>5. QED
    BY <1>1, <1>2, <1>4, OneSession

LEMMA ClientInitStep == ASSUME IInv, NEW s \in Sessions, ClientInit(s) PROVE IInv'
  <1> USE DEF ClientInit, ClientAt
  <1>0. TypeOK /\ SessionInv(s)
    BY DEF IInv
  <1>1. /\ toServer' \in [Sessions -> Seq(Messages)]
        /\ \A t \in Sessions \ {s} : toServer'[t] = toServer[t]
        /\ Queued(s)'
    <2>0. 4 \in 1..4
      OBVIOUS
    <2>1. SendToServer(s, SubSeq(ClientHello, 1, 4)) /\ 4 \in 1..4
      BY <2>0, Greeting
    <2>2. QED
      BY <2>1, GreetingSent DEF serverVars
  <1>2. \A t \in Sessions \ {s} : Same(t)
    BY <1>0, <1>1 DEF TypeOK, Same, serverVars
  <1>3. TypeOK'
    BY <1>0, <1>1 DEF TypeOK, serverVars
  <1>4. server[s] = "args" /\ toClient[s] = <<>> /\ client'[s] = "wait_ready"
    BY <1>0 DEF TypeOK, SessionInv, Greeted
  <1>5. SessionInv(s)'
    <2>1. Events(s)' = Events(s) /\ \A e : Kind(s, e)' = Kind(s, e)
      BY DEF Events, Kind
    <2>2. \A e : Packet(s, e)' = Packet(s, e)
      BY <2>1 DEF Packet
    <2> USE <1>0, <1>4, <2>1, <2>2 DEF SessionInv, serverVars
    <2>3. ClientCounted(s)' /\ ServerCounted(s)'
      BY DEF ClientCounted, ServerCounted
    <2>4. Greeted(s)'
      BY DEF Greeted, BeforeRun
    <2>5. Synced(s)' /\ InBatch(s)'
      BY DEF Synced, InSync, InBatch, ClientCounted
    <2>6. Ordered(s)'
      BY DEF Ordered, AllRunUpTo
    <2>7. QED
      BY <1>1, <2>3, <2>4, <2>5, <2>6
  <1>6. QED
    BY <1>2, <1>3, <1>5, OneSession

\* What no step of the client changes.
LEMMA ClientMoves ==
  ASSUME IInv, NEW s \in Sessions, UNCHANGED <<script, serverVars, daemon>>
  PROVE  /\ Events(s)' = Events(s) /\ \A e : Kind(s, e)' = Kind(s, e)
         /\ \A e : Packet(s, e)' = Packet(s, e)
         /\ \A m : AllRunUpTo(s, m)' = AllRunUpTo(s, m)
         /\ ServerCounted(s)'
  <1>1. Events(s)' = Events(s) /\ \A e : Kind(s, e)' = Kind(s, e)
    BY DEF Events, Kind
  <1>2. \A e : Packet(s, e)' = Packet(s, e)
    BY <1>1 DEF Packet
  <1>3. \A m : AllRunUpTo(s, m)' = AllRunUpTo(s, m)
    BY <1>2 DEF AllRunUpTo, serverVars
  <1>4. ServerCounted(s)'
    BY <1>1, <1>2 DEF IInv, SessionInv, ServerCounted, serverVars
  <1>5. QED
    BY <1>1, <1>2, <1>3, <1>4

LEMMA ReceiveServerReadyStep ==
  ASSUME IInv, NEW s \in Sessions, ReceiveServerReady(s) PROVE IInv'
  <1> USE DEF ReceiveServerReady, ClientAt
  <1>0. TypeOK /\ SessionInv(s)
    BY DEF IInv
  <1>1. /\ server[s] = "wait_starting" /\ toClient[s] = <<Msg("READY")>>
        /\ daemon = "up" => toServer[s] = <<>>
    BY <1>0 DEF SessionInv, Greeted
  <1>2. Head(toClient[s]).op = "READY" /\ Tail(toClient[s]) = <<>>
    <2>1. Msg("READY") \in Messages /\ Msg("READY").op = "READY"
      BY MessageFacts
    <2>2. QED
      BY <1>1, <2>1, ShortQueues
  <1>3. /\ client' = [client EXCEPT ![s] = "starting"] /\ cexit' = cexit
        /\ toClient' = [toClient EXCEPT ![s] = <<>>]
    BY <1>2
  <1>4. \A t \in Sessions \ {s} : Same(t)
    BY <1>0, <1>3 DEF TypeOK, Same, serverVars
  <1>5. TypeOK'
    BY <1>0, <1>3, ShortQueues DEF TypeOK, serverVars
  <1>6. client'[s] = "starting" /\ toClient'[s] = <<>>
    BY <1>0, <1>3 DEF TypeOK
  <1>7. SessionInv(s)'
    <2> USE <1>0, <1>1, <1>3, <1>6, ClientMoves DEF SessionInv, serverVars
    <2>1. ServerCounted(s)'
      OBVIOUS
    <2>2. ClientCounted(s)' /\ Greeted(s)'
      BY DEF ClientCounted, Greeted
    <2>3. Synced(s)' /\ InBatch(s)'
      BY DEF Synced, InSync, InBatch, ClientCounted
    <2>4. Ordered(s)'
      BY DEF Ordered
    <2>5. (daemon = "up" => Queued(s))'
      BY DEF Queued, StartFits
    <2>6. QED
      BY <2>1, <2>2, <2>3, <2>4, <2>5
  <1>8. QED
    BY <1>4, <1>5, <1>7, OneSession

LEMMA SendClientStartingStep ==
  ASSUME IInv, NEW s \in Sessions, SendClientStarting(s) PROVE IInv'
  <1> USE DEF SendClientStarting, ClientAt
  <1>0. TypeOK /\ SessionInv(s)
    BY DEF IInv
  <1>1. /\ server[s] = "wait_starting" /\ toClient[s] = <<>>
        /\ daemon = "up" => toServer[s] = <<>>
        /\ cnum[s] = 0 /\ cdone[s] = 0 /\ cevent[s] = 0 /\ clast[s] = "invalid"
    BY <1>0, Ranges DEF SessionInv, Greeted, ClientCounted
  <1>2. /\ toServer' \in [Sessions -> Seq(Messages)]
        /\ \A t \in Sessions \ {s} : toServer'[t] = toServer[t]
        /\ daemon = "up" => toServer'[s] = <<Msg("STARTING")>>
    <2>1. CASE daemon = "up"
      <3>1. Msg("STARTING") \in Messages
        BY MessageFacts
      <3>2. <<Msg("STARTING")>> \in Seq(Messages)
            /\ <<>> \o <<Msg("STARTING")>> = <<Msg("STARTING")>>
        BY <3>1, ShortQueues
      <3>3. toServer' = [toServer EXCEPT ![s] = <<Msg("STARTING")>>]
        BY <1>1, <2>1, <3>2 DEF SendToServer, ServerOpen
      <3>4. QED
        BY <1>0, <3>2, <3>3 DEF TypeOK
    <2>2. CASE daemon # "up"
      BY <1>0, <2>2 DEF SendToServer, ServerOpen, TypeOK
    <2>3. QED
      BY <2>1, <2>2
  <1>3. \A t \in Sessions \ {s} : Same(t)
    BY <1>0, <1>2 DEF TypeOK, Same, serverVars
  <1>4. TypeOK'
    BY <1>0, <1>2 DEF TypeOK, serverVars
  <1>5. client'[s] = "next" /\ toClient'[s] = <<>>
    BY <1>0, <1>1 DEF TypeOK
  <1>6. SessionInv(s)'
    <2> USE <1>0, <1>1, <1>2, <1>5, ClientMoves DEF SessionInv, serverVars
    <2>1. ServerCounted(s)'
      OBVIOUS
    <2>2. ClientCounted(s)' /\ Greeted(s)'
      BY DEF ClientCounted, Greeted
    <2>3. Synced(s)' /\ InBatch(s)'
      BY DEF Synced, InSync, InBatch, AllRunUpTo
    <2>4. Ordered(s)'
      BY DEF Ordered
    <2>5. (daemon = "up" => Queued(s))'
      BY DEF Queued, StartFits, HelloNext
    <2>6. QED
      BY <2>1, <2>2, <2>3, <2>4, <2>5
  <1>7. QED
    BY <1>3, <1>4, <1>6, OneSession

-----------------------------------------------------------------------------
(* The client's run.                                                       *)

LEMMA ClientFinishesStep ==
  ASSUME IInv, NEW s \in Sessions, ClientFinishes(s) PROVE IInv'
  <1> USE DEF ClientFinishes, ExitClient, ClientAt
  <1>0. TypeOK /\ SessionInv(s)
    BY DEF IInv
  <1>1. \A t \in Sessions \ {s} : Same(t)
    BY <1>0 DEF TypeOK, Same, serverVars
  <1>2. TypeOK'
    BY <1>0 DEF TypeOK, ClientReasons, serverVars
  <1>3. client'[s] = "exited" /\ cexit'[s] = "ok"
    BY <1>0 DEF TypeOK
  <1>4. SessionInv(s)'
    <2> USE <1>0, <1>3, ClientMoves DEF SessionInv, serverVars
    <2>1. ServerCounted(s)'
      OBVIOUS
    <2>2. ClientCounted(s)' /\ Greeted(s)' /\ InBatch(s)'
      BY DEF ClientCounted, Greeted, InBatch
    <2>3. Synced(s)'
      BY DEF Synced, InSync, PastBatch
    <2>4. Ordered(s)'
      BY DEF Ordered
    <2>5. (daemon = "up" => Queued(s))'
      BY DEF Queued, StartFits
    <2>6. QED
      BY <2>1, <2>2, <2>3, <2>4, <2>5
  <1>5. QED
    BY <1>1, <1>2, <1>4, OneSession

LEMMA ClientRunsEventStep ==
  ASSUME IInv, NEW s \in Sessions, ClientRunsEvent(s) PROVE IInv'
  <1> USE DEF ClientRunsEvent, ClientAt
  <1>0. TypeOK /\ SessionInv(s)
    BY DEF IInv
  <1>1. /\ cevent[s] = cnum[s] /\ cdone[s] + 1 = cnum[s] /\ cnum[s] \in 0..MaxEvents
        /\ cdone[s] \in Nat /\ cnum[s] \in Nat
    BY <1>0, Ranges DEF SessionInv, ClientCounted
  <1>2. cdone' = [cdone EXCEPT ![s] = cnum[s]]
    BY <1>1
  <1>3. \A t \in Sessions \ {s} : Same(t)
    BY <1>0, <1>2 DEF TypeOK, Same, serverVars
  <1>4. TypeOK'
    BY <1>0, <1>1, <1>2 DEF TypeOK, serverVars
  <1>5. client'[s] = "next" /\ cdone'[s] = cnum[s]
    BY <1>0, <1>2 DEF TypeOK
  <1>6. SessionInv(s)'
    <2> USE <1>0, <1>1, <1>5, ClientMoves DEF SessionInv, serverVars
    <2>1. ServerCounted(s)'
      OBVIOUS
    <2>2. ClientCounted(s)' /\ Greeted(s)'
      BY DEF ClientCounted, Greeted
    <2>3. Synced(s)'
      BY DEF Synced, InSync, PastBatch, ClientCounted
    <2>4. InBatch(s)'
      BY DEF InBatch, Asked, BeingRun, HasRun, GivenUp, PastBatch
    <2>5. Ordered(s)'
      <3>1. ASSUME NEW f \in 1..cnum[s], ~Packet(s, f) PROVE AllRunUpTo(s, f - 1)
        <4>1. CASE f <= cdone[s]
          BY <3>1, <4>1 DEF Ordered
        <4>2. CASE f = cnum[s]
          <5>1. InSync(s)
            BY <3>1, <4>2 DEF ClientCounted, InSync, Packet
          <5>2. QED
            BY <4>2, <5>1 DEF Synced, AllRunUpTo
        <4>3. QED
          BY <4>1, <4>2
      <3>2. snum[s] \in Nat
        BY Ranges
      <3>3. QED
        BY <3>1, <3>2 DEF Ordered
    <2>6. (daemon = "up" => Queued(s))'
      BY DEF Queued, StartFits
    <2>7. QED
      BY <2>1, <2>2, <2>3, <2>4, <2>5, <2>6
  <1>7. QED
    BY <1>3, <1>4, <1>6, OneSession

\* An event that begins is counted once, and the end of the script never.
LEMMA ClientEvent ==
  ASSUME TypeOK, NEW s \in Sessions, NEW n \in Nat, n = cnum[s] + 1, n <= Events(s) + 1,
         Kind(s, n) # "backward", ClientEventBegins(s, n)
  PROVE  /\ client' \in [Sessions -> {"connect", "hello", "wait_ready", "starting",
                                     "next", "wait_done", "run", "finish", "exited"}]
         /\ cnum' \in [Sessions -> 0..MaxEvents]
         /\ clast' \in [Sessions -> {"invalid", "packet", "other"}]
         /\ \A t \in Sessions \ {s} : /\ client'[t] = client[t] /\ cnum'[t] = cnum[t]
                                      /\ clast'[t] = clast[t]
         /\ \/ /\ Kind(s, n) = "end" /\ cnum[s] = Events(s)
               /\ client'[s] = "finish" /\ cnum'[s] = cnum[s] /\ clast'[s] = clast[s]
            \/ /\ Kind(s, n) \in {"packet", "other"} /\ n <= Events(s)
               /\ client'[s] = "run" /\ cnum'[s] = n /\ clast'[s] = Kind(s, n)
  <1>1. /\ Events(s) \in Nat /\ Events(s) <= MaxEvents
        /\ cnum[s] \in Nat /\ cnum[s] <= MaxEvents /\ MaxEvents \in Nat
    BY ScriptFacts, Ranges
  <1>2. CASE Kind(s, n) = "end"
    <2>1. cnum[s] = Events(s)
      BY <1>1, <1>2, ScriptFacts
    <2>2. QED
      BY <1>2, <2>1 DEF ClientEventBegins, TypeOK
  <1>3. CASE Kind(s, n) # "end"
    <2>1. n \in 1..Events(s) /\ Kind(s, n) \in {"packet", "other"}
      BY <1>3, ScriptFacts
    <2>2. /\ client' = [client EXCEPT ![s] = "run"]
          /\ clast' = [clast EXCEPT ![s] = Kind(s, n)]
          /\ cnum' = [cnum EXCEPT ![s] = n]
      BY <1>3 DEF ClientEventBegins
    <2>3. n \in 0..MaxEvents
      BY <1>1, <2>1
    <2>4. QED
      BY <2>1, <2>2, <2>3 DEF TypeOK
  <1>4. QED
    BY <1>2, <1>3

\* The message that asks for a batch is the server's next one, and names the
\* place where the server comes.
LEMMA BatchFits ==
  ASSUME IInv, NEW s \in Sessions, client[s] = "next", NEW n \in Nat, n = cnum[s] + 1,
         ClientBatchStarts(s, Kind(s, n))
  PROVE  /\ toClient[s] = <<>> /\ AllRunUpTo(s, cnum[s])
         /\ cdone[s] = cnum[s] /\ cnum[s] \in 0..Events(s) /\ Packet(s, n)
         /\ \/ daemon = "killed" \/ server[s] \in Stopped
            \/ /\ daemon = "up" /\ server[s] \in {"next", "wait_start"}
               /\ toServer[s] = <<>> /\ StartFits(s, cnum[s])
            \/ /\ daemon = "up" /\ server[s] = "wait_starting"
               /\ toServer[s] = <<Msg("STARTING")>> /\ StartFits(s, cnum[s])
  <1>0. TypeOK /\ SessionInv(s)
    BY DEF IInv
  <1>1. Packet(s, n) /\ clast[s] # "packet" /\ InSync(s)
    BY DEF ClientBatchStarts, Packet, InSync
  <1>2. /\ toClient[s] = <<>> /\ AllRunUpTo(s, cnum[s])
        /\ \/ PastBatch(s, cnum[s])
           \/ /\ server[s] = "wait_starting"
              /\ daemon = "up" => toServer[s] = <<Msg("STARTING")>>
    BY <1>0, <1>1 DEF SessionInv, Synced
  <1>3. /\ cnum[s] \in Nat /\ cdone[s] = cnum[s] /\ cnum[s] <= Events(s)
        /\ Events(s) \in Nat /\ snum[s] \in Nat /\ sevent[s] \in {snum[s], snum[s] + 1}
    BY <1>0, Ranges, ScriptFacts DEF SessionInv, ClientCounted, ServerCounted
  <1>4. \A e \in snum[s] + 1..cnum[s] : Kind(s, e) = "other"
    <2>1. SUFFICES ASSUME NEW e \in snum[s] + 1..cnum[s] PROVE Kind(s, e) = "other"
      OBVIOUS
    <2>2. e \in 1..cnum[s] /\ e \in 1..Events(s)
      BY <1>3
    <2>3. ~Packet(s, e)
      BY <1>2, <1>3, <2>1, <2>2 DEF AllRunUpTo
    <2>4. Kind(s, e) # "backward"
      BY <1>0, <2>2 DEF SessionInv, ClientCounted
    <2>5. QED
      BY <1>0, <2>2, <2>3, <2>4, ScriptFacts DEF Packet
  <1>5. ASSUME PastBatch(s, cnum[s]), server[s] \in {"next", "wait_start"}
        PROVE  StartFits(s, cnum[s])
    <2>1. snum[s] <= cnum[s]
      BY <1>1, <1>3, <1>5 DEF PastBatch
    <2>2. slast[s] # "packet"
      BY <1>0, <1>5 DEF SessionInv, ServerCounted, PastBatch
    <2>3. QED
      BY <1>1, <1>3, <1>4, <2>1, <2>2 DEF StartFits
  <1>6. ASSUME server[s] = "wait_starting" PROVE StartFits(s, cnum[s])
    <2>1. snum[s] = 0 /\ slast[s] = "invalid"
      BY <1>0, <1>3, <1>6 DEF SessionInv, ServerCounted, BeforeRun
    <2>2. QED
      BY <1>1, <1>3, <1>4, <2>1 DEF StartFits
  <1>7. daemon = "up" \/ daemon = "killed"
    BY <1>0 DEF TypeOK
  <1>8. QED
    BY <1>1, <1>2, <1>3, <1>5, <1>6, <1>7 DEF PastBatch, Stopped

\* The branches of ClientNextEvent, for the event n that comes next.
NextIs(s, n) ==
    /\ ClientAt(s, "next") /\ n \in Nat /\ n = cnum[s] + 1 /\ n <= Events(s) + 1
    /\ cdone[s] = cnum[s]
    /\ cevent' = [cevent EXCEPT ![s] = n]
    /\ UNCHANGED <<script, toClient, cdone, serverVars, daemon, addrs>>

LEMMA ScriptErrorStep ==
  ASSUME IInv, NEW s \in Sessions, NEW n, NextIs(s, n),
         ExitClient(s, "script"), UNCHANGED <<toServer, cnum, clast>>
  PROVE  IInv'
  <1> USE DEF NextIs, ExitClient
  <1>0. TypeOK /\ Events(s) \in Nat /\ Events(s) <= MaxEvents
    BY ScriptFacts DEF IInv
  <1>1. \A t \in Sessions \ {s} : Same(t)
    BY <1>0 DEF TypeOK, Same, serverVars
  <1>2. TypeOK'
    <2>1. n \in 0..(MaxEvents + 1)
      BY <1>0, MaxEventsAssumption
    <2>2. cevent' \in [Sessions -> 0..(MaxEvents + 1)]
      BY <1>0, <2>1 DEF TypeOK
    <2>3. client' = [client EXCEPT ![s] = "exited"] /\ cexit' = [cexit EXCEPT ![s] = "script"]
      OBVIOUS
    <2>4. QED
      BY <1>0, <2>2, <2>3 DEF TypeOK, ClientReasons, serverVars
  <1>3. client'[s] = "exited" /\ cexit'[s] = "script" /\ cevent'[s] <= Events(s) + 1
    BY <1>0 DEF TypeOK
  <1>4. SessionInv(s)'
    BY <1>3, ClientLeaves
  <1>5. QED
    BY <1>1, <1>2, <1>4, OneSession

LEMMA ClientBatchOverStep ==
  ASSUME IInv, NEW s \in Sessions, NEW n, NextIs(s, n),
         ClientBatchOver(s, Kind(s, n)),
         client' = [client EXCEPT ![s] = "wait_done"],
         UNCHANGED <<toServer, cnum, clast, cexit>>
  PROVE  IInv'
  <1> USE DEF NextIs, ClientAt, ClientBatchOver
  <1>0. TypeOK /\ SessionInv(s) /\ Events(s) \in Nat /\ Events(s) <= MaxEvents
    BY ScriptFacts DEF IInv
  <1>1. \A t \in Sessions \ {s} : Same(t)
    BY <1>0 DEF TypeOK, Same, serverVars
  <1>2. TypeOK'
    <2>1. n \in 0..(MaxEvents + 1)
      BY <1>0, MaxEventsAssumption
    <2>2. cevent' \in [Sessions -> 0..(MaxEvents + 1)]
      BY <1>0, <2>1 DEF TypeOK
    <2>3. QED
      BY <1>0, <2>2 DEF TypeOK, serverVars
  <1>3. client'[s] = "wait_done" /\ cevent'[s] = n
    BY <1>0 DEF TypeOK
  <1>4. SessionInv(s)'
    <2> USE <1>0, <1>3, ClientMoves DEF SessionInv, serverVars
    <2>1. ServerCounted(s)'
      OBVIOUS
    <2>2. ClientCounted(s)' /\ Greeted(s)' /\ Synced(s)'
      BY DEF ClientCounted, Greeted, Synced, InSync
    <2>3. InBatch(s)'
      <3>1. \A b : Asked(s, b)' = Asked(s, b)
        BY DEF Asked
      <3>2. \A b : BeingRun(s, b)' = BeingRun(s, b)
        BY DEF BeingRun
      <3>3. \A m : PastBatch(s, m)' = PastBatch(s, m)
        BY DEF PastBatch
      <3>4. \A b, m : HasRun(s, b, m)' = HasRun(s, b, m)
        BY <3>3 DEF HasRun
      <3>5. GivenUp(s)' = GivenUp(s)
        BY DEF GivenUp
      <3>6. QED
        BY <3>1, <3>2, <3>4, <3>5 DEF InBatch
    <2>4. Ordered(s)'
      BY DEF Ordered
    <2>5. (daemon = "up" => Queued(s))'
      BY DEF Queued, StartFits
    <2>6. QED
      BY <2>1, <2>2, <2>3, <2>4, <2>5
  <1>5. QED
    BY <1>1, <1>2, <1>4, OneSession

LEMMA ClientBatchStartsStep ==
  ASSUME IInv, NEW s \in Sessions, NEW n, NextIs(s, n),
         ClientBatchStarts(s, Kind(s, n)), SendToServer(s, <<Start(cnum[s])>>),
         ClientEventBegins(s, n), UNCHANGED cexit
  PROVE  IInv'
  <1> USE DEF NextIs, ClientAt
  <1>0. TypeOK /\ SessionInv(s) /\ Events(s) \in Nat /\ Events(s) <= MaxEvents
    BY ScriptFacts DEF IInv
  <1>1. /\ toClient[s] = <<>> /\ AllRunUpTo(s, cnum[s])
        /\ cdone[s] = cnum[s] /\ cnum[s] \in 0..Events(s) /\ Packet(s, n)
        /\ \/ daemon = "killed" \/ server[s] \in Stopped
           \/ /\ daemon = "up" /\ server[s] \in {"next", "wait_start"}
              /\ toServer[s] = <<>> /\ StartFits(s, cnum[s])
           \/ /\ daemon = "up" /\ server[s] = "wait_starting"
              /\ toServer[s] = <<Msg("STARTING")>> /\ StartFits(s, cnum[s])
    BY BatchFits
  <1>2. /\ Start(cnum[s]) \in Messages /\ Msg("STARTING") \in Messages
        /\ <<Start(cnum[s])>> \in Seq(Messages)
        /\ <<>> \o <<Start(cnum[s])>> = <<Start(cnum[s])>>
        /\ <<Msg("STARTING")>> \o <<Start(cnum[s])>> = <<Msg("STARTING"), Start(cnum[s])>>
    <2>1. Start(cnum[s]) \in Messages /\ Msg("STARTING") \in Messages
      BY <1>0, Ranges, MessageFacts
    <2>2. QED
      BY <2>1, ShortQueues
  <1>3. /\ toServer' \in [Sessions -> Seq(Messages)]
        /\ \A t \in Sessions \ {s} : toServer'[t] = toServer[t]
        /\ toServer'[s] = IF ServerOpen(s) THEN toServer[s] \o <<Start(cnum[s])>>
                                           ELSE toServer[s]
    <2>1. toServer[s] \o <<Start(cnum[s])>> \in Seq(Messages)
      BY <1>0, <1>2, Ranges, ConcatProperties
    <2>2. QED
      BY <1>0, <2>1 DEF SendToServer, TypeOK
  <1>4. /\ Kind(s, n) = "packet" /\ client'[s] = "run" /\ cnum'[s] = n
        /\ clast'[s] = "packet" /\ n <= Events(s)
        /\ client' \in [Sessions -> {"connect", "hello", "wait_ready", "starting",
                                     "next", "wait_done", "run", "finish", "exited"}]
        /\ cnum' \in [Sessions -> 0..MaxEvents]
        /\ clast' \in [Sessions -> {"invalid", "packet", "other"}]
        /\ \A t \in Sessions \ {s} : /\ client'[t] = client[t] /\ cnum'[t] = cnum[t]
                                     /\ clast'[t] = clast[t]
    BY <1>0, <1>1, ClientEvent DEF Packet
  <1>5. \A t \in Sessions \ {s} : Same(t)
    BY <1>0, <1>3, <1>4 DEF TypeOK, Same, serverVars
  <1>6. TypeOK'
    BY <1>0, <1>3, <1>4, MaxEventsAssumption, SMTT(20) DEF TypeOK, serverVars
  <1>7. cevent'[s] = n
    BY <1>0 DEF TypeOK
  <1>8. SessionInv(s)'
    <2> USE <1>0, <1>1, <1>4, <1>7, ClientMoves DEF SessionInv, serverVars
    <2>1. ServerCounted(s)'
      OBVIOUS
    <2>2. ClientCounted(s)' /\ Greeted(s)' /\ Synced(s)'
      BY DEF ClientCounted, Greeted, Synced, InSync
    <2>3. InBatch(s)'
      <3>1. Asked(s, n)' \/ GivenUp(s)'
        <4>1. CASE daemon = "killed" \/ server[s] \in Stopped
          BY <4>1, ShortQueues DEF GivenUp, OnlyWarnings
        <4>2. CASE daemon = "up" /\ server[s] \in {"next", "wait_start", "wait_starting"}
          <5>1. ServerOpen(s)
            BY <4>2 DEF ServerOpen
          <5>2. n - 1 = cnum[s]
            OBVIOUS
          <5>3. QED
            BY <1>2, <1>3, <4>2, <5>1, <5>2 DEF Asked, Stopped
        <4>3. QED
          BY <4>1, <4>2
      <3>2. AllRunUpTo(s, n - 1)' /\ \A e \in n..n : Packet(s, e)'
        BY DEF Packet
      <3>3. n \in 1..cnum'[s]
        OBVIOUS
      <3>4. QED
        BY <3>1, <3>2, <3>3 DEF InBatch
    <2>4. Ordered(s)'
      BY DEF Ordered
    <2>5. (daemon = "up" => Queued(s))'
      <3>1. ASSUME daemon = "up" PROVE Queued(s)'
        <4>1. CASE server[s] \in Stopped
          BY <4>1 DEF Queued, Stopped, HelloNext
        <4>2. CASE server[s] \in {"next", "wait_start", "wait_starting"}
          <5>1. ServerOpen(s) /\ StartFits(s, cnum[s])
            BY <3>1, <4>2 DEF ServerOpen, Stopped
          <5>2. StartFits(s, cnum[s]) => StartFits(s, n - 1)'
            BY DEF StartFits
          <5>3. n - 1 \in 0..Events(s)' /\ n - 1 = cnum[s]
            OBVIOUS
          <5>4. toServer'[s] = IF server[s] = "wait_starting"
                               THEN <<Msg("STARTING"), Start(cnum[s])>> ELSE <<Start(cnum[s])>>
            BY <1>2, <1>3, <3>1, <4>2, <5>1 DEF Stopped
          <5>5. QED
            BY <4>2, <5>1, <5>2, <5>3, <5>4 DEF Queued, HelloNext
        <4>3. QED
          BY <3>1, <4>1, <4>2
      <3>2. QED
        BY <3>1
    <2>6. QED
      BY <2>1, <2>2, <2>3, <2>4, <2>5
  <1>9. QED
    BY <1>5, <1>6, <1>8, OneSession

LEMMA ClientGoesOnStep ==
  ASSUME IInv, NEW s \in Sessions, NEW n, NextIs(s, n), Kind(s, n) # "backward",
         ~ClientBatchStarts(s, Kind(s, n)), ~ClientBatchOver(s, Kind(s, n)),
         ClientEventBegins(s, n), UNCHANGED <<toServer, cexit>>
  PROVE  IInv'
  <1> USE DEF NextIs, ClientAt
  <1>0. TypeOK /\ SessionInv(s) /\ Events(s) \in Nat /\ Events(s) <= MaxEvents
    BY ScriptFacts DEF IInv
  <1>1. /\ client' \in [Sessions -> {"connect", "hello", "wait_ready", "starting",
                                     "next", "wait_done", "run", "finish", "exited"}]
        /\ cnum' \in [Sessions -> 0..MaxEvents]
        /\ clast' \in [Sessions -> {"invalid", "packet", "other"}]
        /\ \A t \in Sessions \ {s} : /\ client'[t] = client[t] /\ cnum'[t] = cnum[t]
                                     /\ clast'[t] = clast[t]
        /\ \/ /\ Kind(s, n) = "end" /\ cnum[s] = Events(s)
              /\ client'[s] = "finish" /\ cnum'[s] = cnum[s] /\ clast'[s] = clast[s]
           \/ /\ Kind(s, n) \in {"packet", "other"} /\ n <= Events(s)
              /\ client'[s] = "run" /\ cnum'[s] = n /\ clast'[s] = Kind(s, n)
    BY <1>0, ClientEvent
  <1>2. (clast[s] = "packet") <=> Packet(s, n)
    BY <1>1 DEF Packet, ClientBatchStarts, ClientBatchOver
  <1>3. \A t \in Sessions \ {s} : Same(t)
    BY <1>0, <1>1 DEF TypeOK, Same, serverVars
  <1>4. TypeOK'
    BY <1>0, <1>1, MaxEventsAssumption DEF TypeOK, serverVars
  <1>5. cevent'[s] = n /\ cnum[s] \in Nat /\ cnum[s] = n - 1
    BY <1>0, Ranges DEF TypeOK
  <1>6. SessionInv(s)'
    <2> USE <1>0, <1>1, <1>2, <1>5, ClientMoves DEF SessionInv, serverVars
    <2>1. ServerCounted(s)'
      OBVIOUS
    <2>2. ClientCounted(s)' /\ Greeted(s)'
      <3>1. CASE Kind(s, n) = "end"
        <4>1. /\ client'[s] = "finish" /\ cnum'[s] = Events(s) /\ cdone'[s] = Events(s)
              /\ clast'[s] = clast[s] /\ cexit'[s] = "none" /\ cnum[s] = Events(s)
          BY <3>1 DEF ClientCounted
        <4>2. QED
          BY <4>1 DEF ClientCounted, Greeted
      <3>2. CASE Kind(s, n) \in {"packet", "other"}
        <4>1. client'[s] = "run" /\ cnum'[s] = n /\ clast'[s] = Kind(s, n)
              /\ cdone'[s] = n - 1 /\ cexit'[s] = "none" /\ n >= 1
          BY <3>2 DEF ClientCounted
        <4>2. \A e \in 1..n : Kind(s, e) # "backward"
          BY <3>2 DEF ClientCounted
        <4>3. QED
          BY <3>2, <4>1, <4>2 DEF ClientCounted, Greeted
      <3>3. QED
        BY <3>1, <3>2
    <2>3. Synced(s)'
      <3>1. CASE Packet(s, n)
        BY <3>1 DEF Synced, InSync, Packet, ClientCounted
      <3>2. CASE ~Packet(s, n)
        <4>1. InSync(s)
          BY <3>2 DEF InSync
        <4>2. AllRunUpTo(s, cnum'[s])
          BY <3>2, <4>1 DEF Synced, AllRunUpTo
        <4>3. \A m : PastBatch(s, m) => PastBatch(s, m)'
          BY DEF PastBatch
        <4>4. cnum'[s] = n - 1 \/ (cnum'[s] = n /\ ~Packet(s, n))
          BY <3>2
        <4>5. PastBatch(s, n - 1) => PastBatch(s, n)
          BY DEF PastBatch
        <4>6. PastBatch(s, cnum[s]) => PastBatch(s, cnum[s])'
          BY <4>3, <4>4, <4>5
        <4>7. QED
          BY <4>1, <4>2, <4>6 DEF Synced
      <3>3. QED
        BY <3>1, <3>2
    <2>4. InBatch(s)'
      <3>1. CASE ~Packet(s, n)
        BY <3>1 DEF InBatch, Packet
      <3>2. CASE Packet(s, n)
        <4>1. PICK b \in 1..cnum[s] :
                /\ \A e \in b..cnum[s] : Packet(s, e)
                /\ AllRunUpTo(s, b - 1)
                /\ \/ Asked(s, b) \/ BeingRun(s, b) \/ GivenUp(s)
                   \/ \E m \in b..Events(s) : HasRun(s, b, m)
          BY <3>2 DEF InBatch
        <4>2. b \in 1..cnum'[s] /\ \A e \in b..cnum'[s] : Packet(s, e)'
          BY <3>2, <4>1 DEF Packet
        <4>3. (\/ Asked(s, b) \/ BeingRun(s, b) \/ GivenUp(s)
               \/ \E m \in b..Events(s) : HasRun(s, b, m))'
          BY <4>1 DEF Asked, BeingRun, HasRun, GivenUp, PastBatch
        <4>4. AllRunUpTo(s, b - 1)'
          BY <4>1
        <4>5. QED
          BY <4>2, <4>3, <4>4 DEF InBatch
      <3>3. QED
        BY <3>1, <3>2
    <2>5. Ordered(s)'
      BY DEF Ordered
    <2>6. (daemon = "up" => Queued(s))'
      <3>1. \A m : StartFits(s, m)' = StartFits(s, m)
        BY DEF StartFits
      <3>2. QED
        BY <3>1 DEF Queued
    <2>7. QED
      BY <2>1, <2>2, <2>3, <2>4, <2>5, <2>6
  <1>7. QED
    BY <1>3, <1>4, <1>6, OneSession

LEMMA ClientNextEventStep ==
  ASSUME IInv, NEW s \in Sessions, ClientNextEvent(s) PROVE IInv'
  <1>0. /\ TypeOK /\ client[s] = "next" /\ cevent[s] = cnum[s] /\ cdone[s] = cnum[s]
        /\ cnum[s] \in Nat /\ cnum[s] <= Events(s)
    BY Ranges DEF IInv, SessionInv, ClientCounted, ClientNextEvent, ClientAt
  <1>1. PICK n \in Nat : n = cnum[s] + 1
    BY <1>0
  <1>2. NextIs(s, n)
    BY <1>0, <1>1, ScriptFacts DEF NextIs, ClientNextEvent
  <1>3. \/ ExitClient(s, "script") /\ UNCHANGED <<toServer, cnum, clast>>
        \/ /\ ClientBatchStarts(s, Kind(s, n))
           /\ SendToServer(s, <<Start(cnum[s])>>)
           /\ ClientEventBegins(s, n)
           /\ UNCHANGED cexit
        \/ /\ ClientBatchOver(s, Kind(s, n))
           /\ client' = [client EXCEPT ![s] = "wait_done"]
           /\ UNCHANGED <<toServer, cnum, clast, cexit>>
        \/ /\ Kind(s, n) # "backward"
           /\ ~ClientBatchStarts(s, Kind(s, n)) /\ ~ClientBatchOver(s, Kind(s, n))
           /\ ClientEventBegins(s, n)
           /\ UNCHANGED <<toServer, cexit>>
    BY <1>0, <1>1 DEF ClientNextEvent
  <1>4. QED
    BY <1>2, <1>3, ScriptErrorStep, ClientBatchStartsStep, ClientBatchOverStep,
       ClientGoesOnStep

\* A warning is read: the verdict is still to come.
LEMMA WarningStep ==
  ASSUME IInv, NEW s \in Sessions, ReceivePacketsDone(s), Head(toClient[s]).op = "WARN"
  PROVE  IInv'
  <1> USE DEF ReceivePacketsDone, ClientAt
  <1>0. TypeOK /\ SessionInv(s)
    BY DEF IInv
  <1>1. toClient[s] \in Seq(Messages) /\ toClient[s] # <<>>
    BY <1>0, Ranges
  <1>2. Tail(toClient[s]) \in Seq(Messages)
    BY <1>1, HeadTailProperties
  <1>3. UNCHANGED <<client, cexit, cnum, clast>>
    OBVIOUS
  <1>4. \A t \in Sessions \ {s} : Same(t)
    BY <1>0, <1>3 DEF TypeOK, Same, serverVars
  <1>5. TypeOK'
    BY <1>0, <1>2, <1>3 DEF TypeOK, serverVars
  <1>6. toClient'[s] = Tail(toClient[s])
    BY <1>0 DEF TypeOK
  <1>7. SessionInv(s)'
    <2> USE <1>0, <1>3, <1>6, ClientMoves DEF SessionInv, serverVars
    <2>1. ServerCounted(s)'
      OBVIOUS
    <2>2. ClientCounted(s)' /\ Greeted(s)' /\ Synced(s)'
      BY DEF ClientCounted, Greeted, Synced, InSync
    <2>3. InBatch(s)'
      <3>1. clast[s] = "packet"
        BY DEF ClientCounted
      <3>2. PICK b \in 1..cnum[s] :
              /\ \A e \in b..cnum[s] : Packet(s, e)
              /\ AllRunUpTo(s, b - 1)
              /\ \/ Asked(s, b) \/ BeingRun(s, b) \/ GivenUp(s)
                 \/ \E m \in b..Events(s) : HasRun(s, b, m)
        BY <3>1 DEF InBatch
      <3>3. ~Asked(s, b)
        BY <1>1 DEF Asked
      <3>4. BeingRun(s, b) => BeingRun(s, b)'
        <4>1. OnlyWarnings(toClient[s]) => OnlyWarnings(toClient'[s])
          BY <1>1, Warnings
        <4>2. QED
          BY <4>1 DEF BeingRun
      <3>5. ASSUME GivenUp(s) PROVE GivenUp(s)'
        <4>1. OnlyWarnings(toClient[s]) => OnlyWarnings(toClient'[s])
          BY <1>1, Warnings
        <4>2. ASSUME NEW m \in 0..MaxEvents, EndsWith(toClient[s], Done(m, "ERR"))
              PROVE  EndsWith(toClient'[s], Done(m, "ERR"))
          <5>1. Done(m, "ERR") \in Messages /\ Done(m, "ERR").op = "DONE"
            BY MessageFacts
          <5>2. QED
            BY <1>1, <4>2, <5>1, VerdictQueue
        <4>3. QED
          BY <3>5, <4>1, <4>2 DEF GivenUp
      <3>6. ASSUME NEW m \in b..Events(s), HasRun(s, b, m) PROVE HasRun(s, b, m)'
        <4>1. m \in 0..MaxEvents
          BY Ranges, ScriptFacts
        <4>2. Done(m, "OK") \in Messages /\ Done(m, "OK").op = "DONE"
          BY <4>1, MessageFacts
        <4>3. EndsWith(toClient[s], Done(m, "OK"))
          BY <3>6 DEF HasRun
        <4>4. EndsWith(toClient'[s], Done(m, "OK"))
          BY <1>1, <4>2, <4>3, VerdictQueue
        <4>5. PastBatch(s, m)'
          BY <3>6 DEF HasRun, PastBatch
        <4>6. QED
          BY <3>6, <4>4, <4>5 DEF HasRun
      <3>7. (BeingRun(s, b) \/ GivenUp(s) \/ \E m \in b..Events(s) : HasRun(s, b, m))'
        BY <3>2, <3>3, <3>4, <3>5, <3>6
      <3>8. AllRunUpTo(s, b - 1)' /\ \A e \in b..cnum'[s] : Packet(s, e)'
        BY <3>2
      <3>9. QED
        BY <3>7, <3>8 DEF InBatch
    <2>4. Ordered(s)'
      BY DEF Ordered
    <2>5. (daemon = "up" => Queued(s))'
      BY DEF Queued, StartFits
    <2>6. QED
      BY <2>1, <2>2, <2>3, <2>4, <2>5
  <1>8. QED
    BY <1>4, <1>5, <1>7, OneSession

\* What else can be read is the verdict, and one that is good is about the
\* packets that the client has counted.
LEMMA VerdictRead ==
  ASSUME IInv, NEW s \in Sessions, client[s] = "wait_done", toClient[s] # <<>>,
         Head(toClient[s]).op # "WARN"
  PROVE  LET m == Head(toClient[s])
         IN  /\ m.op = "DONE"
             /\ \/ m.result = "ERR"
                \/ /\ m.result = "OK" /\ m.num = cnum[s] /\ Tail(toClient[s]) = <<>>
                   /\ AllRunUpTo(s, cnum[s]) /\ PastBatch(s, cnum[s])
  <1>0. TypeOK /\ SessionInv(s)
    BY DEF IInv
  <1>1. toClient[s] \in Seq(Messages)
    BY <1>0, Ranges
  <1>2. /\ cevent[s] = cnum[s] + 1 /\ ~Packet(s, cnum[s] + 1) /\ clast[s] = "packet"
        /\ cnum[s] \in Nat
    BY <1>0, Ranges DEF SessionInv, ClientCounted, Packet
  <1>3. PICK b \in 1..cnum[s] :
          /\ \A e \in b..cnum[s] : Packet(s, e)
          /\ AllRunUpTo(s, b - 1)
          /\ \/ Asked(s, b) \/ BeingRun(s, b) \/ GivenUp(s)
             \/ \E m \in b..Events(s) : HasRun(s, b, m)
    BY <1>0, <1>2 DEF SessionInv, InBatch
  <1>4. ~Asked(s, b) /\ ~BeingRun(s, b) /\ ~OnlyWarnings(toClient[s])
    BY <1>1, Warnings DEF Asked, BeingRun
  <1>5. CASE GivenUp(s)
    <2>1. PICK m \in 0..MaxEvents : EndsWith(toClient[s], Done(m, "ERR"))
      BY <1>4, <1>5 DEF GivenUp
    <2>2. /\ Done(m, "ERR") \in Messages /\ Done(m, "ERR").op = "DONE"
          /\ Done(m, "ERR").result = "ERR"
      BY MessageFacts
    <2>3. Head(toClient[s]) = Done(m, "ERR")
      BY <1>1, <2>1, <2>2, VerdictQueue
    <2>4. QED
      BY <2>2, <2>3
  <1>6. CASE \E m \in b..Events(s) : HasRun(s, b, m)
    <2>1. PICK m \in b..Events(s) : HasRun(s, b, m)
      BY <1>6
    <2>2. m \in 0..MaxEvents
      BY <1>0, Ranges, ScriptFacts
    <2>3. /\ Done(m, "OK") \in Messages /\ Done(m, "OK").op = "DONE"
          /\ Done(m, "OK").result = "OK" /\ Done(m, "OK").num = m
      BY <2>2, MessageFacts
    <2>4. EndsWith(toClient[s], Done(m, "OK"))
      BY <2>1 DEF HasRun
    <2>5. Head(toClient[s]) = Done(m, "OK") /\ Tail(toClient[s]) = <<>>
      BY <1>1, <2>3, <2>4, VerdictQueue
    <2>6. m = cnum[s]
      <3>1. ~Packet(s, m + 1) /\ \A e \in b..m : Packet(s, e)
        BY <2>1 DEF HasRun, Packet
      <3>2. m + 1 \notin b..cnum[s] /\ cnum[s] + 1 \notin b..m
        BY <1>2, <1>3, <3>1
      <3>3. QED
        BY <1>2, <2>2, <3>2
    <2>7. sevent[s] \in Nat /\ m < sevent[s] /\ PastBatch(s, m) /\ \A e \in b..m : Packet(s, e)
      BY <1>0, <2>1, Ranges DEF HasRun
    <2>8. AllRunUpTo(s, cnum[s])
      BY <1>2, <1>3, <2>6, <2>7 DEF AllRunUpTo
    <2>9. QED
      BY <2>3, <2>5, <2>6, <2>7, <2>8
  <1>7. QED
    BY <1>3, <1>4, <1>5, <1>6

LEMMA BadVerdictStep ==
  ASSUME IInv, NEW s \in Sessions, ReceivePacketsDone(s), ExitClient(s, "packet_error"),
         UNCHANGED <<cnum, clast>>
  PROVE  IInv'
  <1> USE DEF ReceivePacketsDone, ExitClient, ClientAt
  <1>0. TypeOK
    BY DEF IInv
  <1>1. Tail(toClient[s]) \in Seq(Messages)
    BY <1>0, Ranges, HeadTailProperties
  <1>2. /\ toClient' = [toClient EXCEPT ![s] = Tail(@)]
        /\ UNCHANGED <<script, toServer, cevent, cdone, serverVars, daemon, addrs>>
    OBVIOUS
  <1>3. \A t \in Sessions \ {s} : Same(t)
    BY <1>0, <1>2 DEF TypeOK, Same, serverVars
  <1>4. TypeOK'
    BY <1>0, <1>1, <1>2, SMTT(20) DEF TypeOK, ClientReasons, serverVars
  <1>5. client'[s] = "exited" /\ cexit'[s] = "packet_error"
    BY <1>0 DEF TypeOK
  <1>6. cevent'[s] <= Events(s) + 1
    BY <1>2 DEF IInv, SessionInv, ClientCounted
  <1>7. SessionInv(s)'
    BY <1>2, <1>5, <1>6, ClientLeaves
  <1>8. QED
    BY <1>3, <1>4, <1>7, OneSession

LEMMA GoodVerdictStep ==
  ASSUME IInv, NEW s \in Sessions, ReceivePacketsDone(s), Head(toClient[s]).op = "DONE",
         Head(toClient[s]).result = "OK"
  PROVE  IInv'
  <1> USE DEF ReceivePacketsDone, ClientAt
  <1>0. TypeOK /\ SessionInv(s) /\ Events(s) \in Nat /\ Events(s) <= MaxEvents
    BY ScriptFacts DEF IInv
  <1>1. /\ Head(toClient[s]).num = cnum[s] /\ Tail(toClient[s]) = <<>>
        /\ AllRunUpTo(s, cnum[s]) /\ PastBatch(s, cnum[s])
    BY VerdictRead
  <1>2. /\ cevent[s] = cnum[s] + 1 /\ cdone[s] = cnum[s] /\ clast[s] = "packet"
        /\ Kind(s, cevent[s]) \in {"other", "end"} /\ cnum[s] \in Nat
        /\ cevent[s] <= Events(s) + 1 /\ cevent[s] \in Nat
    BY <1>0, Ranges DEF SessionInv, ClientCounted
  <1>3. PICK n \in Nat : n = cevent[s]
    BY <1>2
  <1>4. ClientEventBegins(s, n) /\ UNCHANGED cexit
    BY <1>1, <1>3
  <1>5. /\ toClient' = [toClient EXCEPT ![s] = <<>>]
        /\ UNCHANGED <<script, toServer, cevent, cdone, serverVars, daemon, addrs>>
    BY <1>1
  <1>6. /\ client' \in [Sessions -> {"connect", "hello", "wait_ready", "starting",
                                     "next", "wait_done", "run", "finish", "exited"}]
        /\ cnum' \in [Sessions -> 0..MaxEvents]
        /\ clast' \in [Sessions -> {"invalid", "packet", "other"}]
        /\ \A t \in Sessions \ {s} : /\ client'[t] = client[t] /\ cnum'[t] = cnum[t]
                                     /\ clast'[t] = clast[t]
        /\ \/ /\ Kind(s, n) = "end" /\ cnum[s] = Events(s)
              /\ client'[s] = "finish" /\ cnum'[s] = cnum[s] /\ clast'[s] = clast[s]
           \/ /\ Kind(s, n) = "other" /\ n <= Events(s)
              /\ client'[s] = "run" /\ cnum'[s] = n /\ clast'[s] = Kind(s, n)
    BY <1>0, <1>2, <1>3, <1>4, ClientEvent
  <1>7. \A t \in Sessions \ {s} : Same(t)
    BY <1>0, <1>4, <1>5, <1>6 DEF TypeOK, Same, serverVars
  <1>8. TypeOK'
    <2>1. toClient' \in [Sessions -> Seq(Messages)]
      BY <1>0, <1>5, ShortQueues DEF TypeOK
    <2> HIDE DEF ReceivePacketsDone
    <2>2. QED
      BY <1>0, <1>4, <1>5, <1>6, <2>1 DEF TypeOK, serverVars
  <1>9. toClient'[s] = <<>> /\ cexit'[s] = "none" /\ n = cnum[s] + 1
    BY <1>0, <1>2, <1>3, <1>4, <1>5 DEF TypeOK, SessionInv, ClientCounted
  <1>10. SessionInv(s)'
    <2> USE <1>0, <1>2, <1>3, <1>5, <1>6, <1>9, ClientMoves DEF SessionInv, serverVars
    <2>1. ServerCounted(s)'
      OBVIOUS
    <2>2. ClientCounted(s)' /\ Greeted(s)'
      <3>1. CASE Kind(s, n) = "end"
        <4>1. /\ client'[s] = "finish" /\ cnum'[s] = Events(s) /\ cdone'[s] = Events(s)
              /\ clast'[s] = clast[s] /\ cexit'[s] = "none" /\ cnum[s] = Events(s)
          BY <3>1
        <4>2. QED
          BY <4>1 DEF ClientCounted, Greeted
      <3>2. CASE Kind(s, n) = "other"
        <4>1. client'[s] = "run" /\ cnum'[s] = n /\ clast'[s] = "other" /\ n <= Events(s)
          BY <3>2
        <4>2. \A e \in 1..n : Kind(s, e) # "backward"
          BY <3>2 DEF ClientCounted
        <4>3. QED
          BY <3>2, <4>1, <4>2 DEF ClientCounted, Greeted
      <3>3. QED
        BY <3>1, <3>2
    <2>3. Synced(s)'
      <3>1. ~Packet(s, n) /\ (cnum'[s] = n - 1 \/ cnum'[s] = n)
        BY DEF Packet
      <3>2. AllRunUpTo(s, n - 1) /\ AllRunUpTo(s, n)
        BY <1>1, <3>1 DEF AllRunUpTo
      <3>3. PastBatch(s, n - 1)' /\ PastBatch(s, n)'
        BY <1>1, <3>1 DEF PastBatch
      <3>4. QED
        BY <3>1, <3>2, <3>3 DEF Synced
    <2>4. InBatch(s)'
      BY DEF InBatch
    <2>5. Ordered(s)'
      BY DEF Ordered
    <2>6. (daemon = "up" => Queued(s))'
      <3>1. \A m : StartFits(s, m)' = StartFits(s, m)
        BY DEF StartFits
      <3>2. QED
        BY <3>1 DEF Queued
    <2>7. QED
      BY <2>1, <2>2, <2>3, <2>4, <2>5, <2>6
  <1>11. QED
    BY <1>7, <1>8, <1>10, OneSession

LEMMA ReceivePacketsDoneStep ==
  ASSUME IInv, NEW s \in Sessions, ReceivePacketsDone(s) PROVE IInv'
  <1>1. CASE Head(toClient[s]).op = "WARN"
    BY <1>1, WarningStep
  <1>2. CASE Head(toClient[s]).op # "WARN"
    <2>1. client[s] = "wait_done" /\ toClient[s] # <<>>
      BY DEF ReceivePacketsDone, ClientAt
    <2>2. /\ Head(toClient[s]).op = "DONE"
          /\ Head(toClient[s]).result = "ERR" \/ Head(toClient[s]).result = "OK"
      BY <1>2, <2>1, VerdictRead
    <2>3. CASE Head(toClient[s]).result = "ERR"
      <3>1. ExitClient(s, "packet_error") /\ UNCHANGED <<cnum, clast>>
        BY <2>2, <2>3 DEF ReceivePacketsDone
      <3>2. QED
        BY <3>1, BadVerdictStep
    <2>4. CASE Head(toClient[s]).result = "OK"
      BY <2>2, <2>4, GoodVerdictStep
    <2>5. QED
      BY <2>2, <2>3, <2>4
  <1>3. QED
    BY <1>1, <1>2

-----------------------------------------------------------------------------
(* The server's set-up.                                                    *)

\* What no step of a server thread changes.
LEMMA ServerMoves ==
  ASSUME IInv, NEW s \in Sessions, UNCHANGED <<script, clientVars>>
  PROVE  /\ Events(s)' = Events(s) /\ \A e : Kind(s, e)' = Kind(s, e)
         /\ \A e : Packet(s, e)' = Packet(s, e)
         /\ InSync(s)' = InSync(s)
         /\ ClientCounted(s)'
  <1>1. Events(s)' = Events(s) /\ \A e : Kind(s, e)' = Kind(s, e)
    BY DEF Events, Kind
  <1>2. \A e : Packet(s, e)' = Packet(s, e)
    BY <1>1 DEF Packet
  <1>3. InSync(s)' = InSync(s)
    BY DEF InSync, clientVars
  <1>4. ClientCounted(s)'
    BY <1>1 DEF IInv, SessionInv, ClientCounted, clientVars
  <1>5. QED
    BY <1>1, <1>2, <1>3, <1>4

\* A client that runs the script has been told that the server is ready.
LEMMA BeforeReady ==
  ASSUME IInv, NEW s \in Sessions, daemon = "up",
         server[s] \in {"args", "path", "script", "hwaddr", "setup", "ready"}
  PROVE  /\ ~InSync(s)
         /\ ~(client[s] \in {"next", "run", "wait_done"} /\ clast[s] = "packet")
         /\ client[s] \notin {"connect", "starting"}
  BY DEF IInv, SessionInv, Synced, InBatch, Greeted, PastBatch, Asked, BeingRun, GivenUp,
         HasRun, Stopped

\* The first message is the one that the thread expects.
LEMMA SetUpOpFits ==
  ASSUME IInv, NEW s \in Sessions, daemon = "up", server[s] \in DOMAIN SetUpOp,
         toServer[s] # <<>>
  PROVE  Head(toServer[s]).op = SetUpOp[server[s]]
  <1>0. TypeOK /\ Queued(s) /\ toServer[s] \in Seq(Messages)
    BY Ranges DEF IInv, SessionInv
  <1>1. CASE server[s] \in {"args", "path", "script", "hwaddr"}
    <2>1. Len(toServer[s]) \in Nat /\ 1 \in 1..Len(toServer[s]) /\ Head(toServer[s]) = toServer[s][1]
      BY <1>0
    <2>2. HelloNext[server[s]] \in 1..4
      BY <1>1 DEF HelloNext
    <2>3. toServer[s][1].op = HelloOps[HelloNext[server[s]]]
      BY <1>0, <1>1, <2>1, <2>2 DEF Queued, HelloNext
    <2>4. HelloOps[HelloNext[server[s]]] = SetUpOp[server[s]]
      BY <1>1 DEF HelloNext, HelloOps, SetUpOp
    <2>5. QED
      BY <2>1, <2>3, <2>4
  <1>2. CASE server[s] = "wait_starting"
    <2>1. Msg("STARTING") \in Messages /\ Msg("STARTING").op = "STARTING"
      BY MessageFacts
    <2>2. \A m \in 0..Events(s) : Start(m) \in Messages
      <3>1. \A m \in 0..Events(s) : m \in 0..MaxEvents
        BY <1>0, ScriptFacts, Ranges
      <3>2. QED
        BY <3>1, MessageFacts
    <2>3. Head(toServer[s]) = Msg("STARTING")
      BY <1>0, <1>2, <2>1, <2>2, ShortQueues DEF Queued
    <2>4. QED
      BY <1>2, <2>1, <2>3 DEF SetUpOp
  <1>3. QED
    BY <1>1, <1>2 DEF SetUpOp

LEMMA ReceiveGreetingStep ==
  ASSUME IInv, NEW s \in Sessions, ReceiveSetUp(s),
         server[s] \in {"args", "path", "script", "hwaddr"}
  PROVE  IInv'
  <1>0. TypeOK /\ SessionInv(s) /\ daemon = "up" /\ toServer[s] # <<>>
        /\ toServer[s] \in Seq(Messages)
    BY Ranges DEF IInv, ReceiveSetUp
  <1>1. PICK pc \in {"path", "script", "hwaddr", "setup"} :
          pc = AfterSetUpOp[server[s]] /\ HelloNext[pc] = HelloNext[server[s]] + 1
            /\ HelloNext[server[s]] \in 1..4
    BY DEF AfterSetUpOp, HelloNext
  <1>2. /\ server' = [server EXCEPT ![s] = pc] /\ serror' = serror
        /\ toServer' = [toServer EXCEPT ![s] = Tail(@)]
        /\ UNCHANGED <<script, toClient, clientVars, sevent, snum, slast, daemon, addrs>>
    BY <1>0, <1>1, SetUpOpFits DEF ReceiveSetUp
  <1>3. Tail(toServer[s]) \in Seq(Messages)
    BY <1>0, HeadTailProperties
  <1>4. \A t \in Sessions \ {s} : Same(t)
    BY <1>0, <1>2 DEF TypeOK, Same, clientVars
  <1>5. TypeOK'
    BY <1>0, <1>2, <1>3 DEF TypeOK, clientVars
  <1>6. server'[s] = pc /\ toServer'[s] = Tail(toServer[s])
    BY <1>0, <1>2 DEF TypeOK
  <1>7. SessionInv(s)'
    <2> USE <1>0, <1>2, <1>6, ServerMoves, BeforeReady DEF SessionInv, clientVars
    <2>1. ServerCounted(s)'
      BY DEF ServerCounted, BeforeRun, Stopped
    <2>2. ClientCounted(s)' /\ Synced(s)' /\ InBatch(s)'
      BY DEF Synced, InBatch
    <2>3. Greeted(s)'
      BY DEF Greeted, BeforeRun
    <2>4. Ordered(s)'
      BY DEF Ordered, AllRunUpTo
    <2>5. Queued(s)'
      <3>1. /\ Len(Tail(toServer[s])) = Len(toServer[s]) - 1 /\ Len(toServer[s]) \in Nat
            /\ \A i \in 1..Len(Tail(toServer[s])) : Tail(toServer[s])[i] = toServer[s][i + 1]
        BY HeadTailProperties
      <3>2. /\ Len(toServer[s]) + HelloNext[server[s]] <= 5
            /\ \A i \in 1..Len(toServer[s]) :
                  toServer[s][i].op = HelloOps[HelloNext[server[s]] + i - 1]
        BY DEF Queued, HelloNext
      <3>3. Len(Tail(toServer[s])) + HelloNext[pc] <= 5
        BY <1>1, <3>1, <3>2
      <3>4. ASSUME NEW i \in 1..Len(Tail(toServer[s]))
            PROVE  Tail(toServer[s])[i].op = HelloOps[HelloNext[pc] + i - 1]
        <4>1. i + 1 \in 1..Len(toServer[s])
          BY <3>1
        <4>2. HelloNext[server[s]] + (i + 1) - 1 = HelloNext[pc] + i - 1
          BY <1>1
        <4>3. QED
          BY <3>1, <3>2, <4>1, <4>2
      <3>5. QED
        BY <3>3, <3>4 DEF Queued
    <2>6. QED
      BY <2>1, <2>2, <2>3, <2>4, <2>5
  <1>8. QED
    BY <1>2, <1>4, <1>5, <1>7, OneSession

LEMMA ReceiveStartingStep ==
  ASSUME IInv, NEW s \in Sessions, ReceiveSetUp(s), server[s] = "wait_starting"
  PROVE  IInv'
  <1>0. TypeOK /\ SessionInv(s) /\ daemon = "up" /\ toServer[s] # <<>>
        /\ toServer[s] \in Seq(Messages)
    BY Ranges DEF IInv, ReceiveSetUp
  <1>1. /\ server' = [server EXCEPT ![s] = "next"] /\ serror' = serror
        /\ toServer' = [toServer EXCEPT ![s] = Tail(@)]
        /\ UNCHANGED <<script, toClient, clientVars, sevent, snum, slast, daemon, addrs>>
    BY <1>0, SetUpOpFits DEF ReceiveSetUp, SetUpOp, AfterSetUpOp
  <1>2. Tail(toServer[s]) \in Seq(Messages)
    BY <1>0, HeadTailProperties
  <1>3. \A t \in Sessions \ {s} : Same(t)
    BY <1>0, <1>1 DEF TypeOK, Same, clientVars
  <1>4. TypeOK'
    BY <1>0, <1>1, <1>2 DEF TypeOK, clientVars
  <1>5. server'[s] = "next" /\ toServer'[s] = Tail(toServer[s])
    BY <1>0, <1>1 DEF TypeOK
  <1>6. sevent[s] = 0 /\ snum[s] = 0 /\ slast[s] = "invalid" /\ serror[s] = "none"
    BY <1>0, Ranges DEF SessionInv, ServerCounted, BeforeRun, Stopped
  <1>7. /\ Tail(<<Msg("STARTING")>>) = <<>>
        /\ \A m \in 0..MaxEvents : Tail(<<Msg("STARTING"), Start(m)>>) = <<Start(m)>>
    <2>1. Msg("STARTING") \in Messages /\ \A m \in 0..MaxEvents : Start(m) \in Messages
      BY MessageFacts
    <2>2. QED
      BY <2>1, ShortQueues
  <1>8. Events(s) \in Nat /\ Events(s) <= MaxEvents /\ MaxEvents \in Nat
    BY <1>0, ScriptFacts, Ranges
  <1>9. SessionInv(s)'
    <2> USE <1>0, <1>1, <1>5, <1>6, ServerMoves DEF SessionInv, clientVars
    <2>1. ServerCounted(s)' /\ ClientCounted(s)'
      BY DEF ServerCounted, BeforeRun, Stopped
    <2>2. Greeted(s)'
      BY DEF Greeted
    <2>3. Synced(s)'
      <3>1. CASE ~InSync(s)
        BY <3>1 DEF Synced
      <3>2. CASE InSync(s)
        <4>1. toClient[s] = <<>> /\ AllRunUpTo(s, cnum[s]) /\ toServer'[s] = <<>>
          BY <1>7, <3>2 DEF Synced, PastBatch, Stopped
        <4>2. AllRunUpTo(s, cnum[s])'
          BY <4>1 DEF AllRunUpTo
        <4>3. PastBatch(s, cnum[s])'
          BY <4>1, Ranges DEF PastBatch
        <4>4. QED
          BY <4>1, <4>2, <4>3 DEF Synced
      <3>3. QED
        BY <3>1, <3>2
    <2>4. InBatch(s)'
      <3>1. ASSUME NEW b \in Nat, b >= 1, b <= Events(s), Asked(s, b) PROVE Asked(s, b)'
        <4>1. toServer[s] = <<Msg("STARTING"), Start(b - 1)>> /\ b - 1 \in 0..MaxEvents
          BY <1>8, <3>1 DEF Asked
        <4>2. toServer'[s] = <<Start(b - 1)>>
          BY <1>7, <4>1
        <4>3. QED
          BY <3>1, <4>2 DEF Asked
      <3>2. ASSUME NEW b PROVE ~BeingRun(s, b) /\ ~GivenUp(s) /\ \A m : ~HasRun(s, b, m)
        BY DEF BeingRun, GivenUp, HasRun, PastBatch, Stopped
      <3>3. cnum[s] <= Events(s) /\ cnum[s] \in Nat
        BY Ranges DEF ClientCounted
      <3>4. QED
        <4>1. SUFFICES ASSUME client[s] \in {"next", "run", "wait_done"}, clast[s] = "packet"
                       PROVE  InBatch(s)'
          BY DEF InBatch
        <4>2. PICK b \in 1..cnum[s] : /\ \A e \in b..cnum[s] : Packet(s, e)
                                     /\ AllRunUpTo(s, b - 1) /\ Asked(s, b)
          BY <3>2, <4>1 DEF InBatch
        <4>3. Asked(s, b)'
          <5>1. b \in Nat /\ b >= 1 /\ b <= Events(s)
            BY <1>8, <3>3
          <5>2. QED
            BY <3>1, <4>2, <5>1
        <4>4. AllRunUpTo(s, b - 1)' /\ \A e \in b..cnum'[s] : Packet(s, e)'
          BY <4>2 DEF AllRunUpTo
        <4>5. QED
          BY <4>3, <4>4 DEF InBatch
    <2>5. Ordered(s)'
      BY DEF Ordered, AllRunUpTo
    <2>6. Queued(s)'
      <3>1. \A m : StartFits(s, m)' = StartFits(s, m)
        BY DEF StartFits
      <3>2. QED
        <4>1. CASE toServer[s] = <<Msg("STARTING")>>
          BY <1>7, <4>1 DEF Queued, HelloNext
        <4>2. CASE \E m \in 0..Events(s) : StartFits(s, m)
                     /\ toServer[s] = <<Msg("STARTING"), Start(m)>>
          <5>1. PICK m \in 0..Events(s) : StartFits(s, m)
                     /\ toServer[s] = <<Msg("STARTING"), Start(m)>>
            BY <4>2
          <5>2. toServer'[s] = <<Start(m)>> /\ m \in 0..Events(s)'
            BY <1>7, <1>8, <5>1
          <5>3. QED
            BY <3>1, <5>1, <5>2 DEF Queued, HelloNext
        <4>3. QED
          BY <4>1, <4>2 DEF Queued
    <2>7. QED
      BY <2>1, <2>2, <2>3, <2>4, <2>5, <2>6
  <1>10. QED
    BY <1>1, <1>3, <1>4, <1>9, OneSession

LEMMA ReceiveSetUpStep ==
  ASSUME IInv, NEW s \in Sessions, ReceiveSetUp(s) PROVE IInv'
  BY ReceiveGreetingStep, ReceiveStartingStep DEF ReceiveSetUp, SetUpOp

\* A session whose script or configuration is refused has not been run.
LEMMA SetUpSessionStep ==
  ASSUME IInv, NEW s \in Sessions, SetUpSession(s) PROVE IInv'
  <1> USE DEF SetUpSession, ServerAt
  <1>0. TypeOK /\ SessionInv(s) /\ daemon = "up" /\ server[s] = "setup"
    BY DEF IInv
  <1>1. PICK pc \in {"close", "ready"}, reason \in {"parse", "none"} :
          /\ server' = [server EXCEPT ![s] = pc]
          /\ serror' = [serror EXCEPT ![s] = reason]
          /\ pc = "ready" => reason = "none"
    <2>1. serror[s] = "none"
      BY <1>0 DEF SessionInv, ServerCounted, Stopped
    <2>2. CASE StopServer(s, "parse")
      BY <1>0, <2>2 DEF StopServer
    <2>3. CASE server' = [server EXCEPT ![s] = "ready"] /\ serror' = serror
      BY <1>0, <2>1, <2>3 DEF TypeOK
    <2>4. QED
      BY <2>2, <2>3
  <1>2. addrs' \subseteq {Gateway[t] : t \in Sessions}
    BY <1>0 DEF TypeOK
  <1>3. UNCHANGED <<script, toServer, toClient, clientVars, sevent, snum, slast, daemon>>
    OBVIOUS
  <1> HIDE DEF SetUpSession
  <1>4. \A t \in Sessions \ {s} : Same(t)
    BY <1>0, <1>1, <1>3 DEF TypeOK, Same, clientVars
  <1>5. TypeOK'
    BY <1>0, <1>1, <1>2, <1>3 DEF TypeOK, ServerReasons, clientVars
  <1>6. server'[s] = pc /\ serror'[s] = reason
    BY <1>0, <1>1 DEF TypeOK
  <1>7. SessionInv(s)'
    <2> USE <1>0, <1>1, <1>3, <1>6, ServerMoves, BeforeReady DEF SessionInv, clientVars
    <2>1. ServerCounted(s)'
      BY DEF ServerCounted, BeforeRun, Stopped
    <2>2. ClientCounted(s)' /\ Synced(s)' /\ InBatch(s)'
      BY DEF Synced, InBatch
    <2>3. Greeted(s)'
      BY DEF Greeted, BeforeRun
    <2>4. Ordered(s)'
      BY DEF Ordered, AllRunUpTo
    <2>5. Queued(s)'
      BY DEF Queued, HelloNext
    <2>6. QED
      BY <2>1, <2>2, <2>3, <2>4, <2>5
  <1>8. QED
    BY <1>3, <1>4, <1>5, <1>7, OneSession

\* What is written to a client is the last message of its queue.
LEMMA ToClient ==
  ASSUME TypeOK, NEW s \in Sessions, NEW m \in Messages, SendToClient(s, <<m>>)
  PROVE  /\ toClient' \in [Sessions -> Seq(Messages)]
         /\ \A t \in Sessions \ {s} : toClient'[t] = toClient[t]
         /\ toClient'[s] = IF ClientOpen(s) THEN toClient[s] \o <<m>> ELSE toClient[s]
  <1>1. toClient[s] \o <<m>> \in Seq(Messages)
    BY Ranges, ShortQueues, ConcatProperties
  <1>2. QED
    BY <1>1 DEF SendToClient, TypeOK

LEMMA SendServerReadyStep ==
  ASSUME IInv, NEW s \in Sessions, SendServerReady(s) PROVE IInv'
  <1> USE DEF SendServerReady, ServerAt
  <1>0. TypeOK /\ SessionInv(s) /\ daemon = "up" /\ server[s] = "ready"
    BY DEF IInv
  <1>1. Msg("READY") \in Messages /\ <<>> \o <<Msg("READY")>> = <<Msg("READY")>>
    BY MessageFacts, ShortQueues
  <1>2. /\ toClient' \in [Sessions -> Seq(Messages)]
        /\ \A t \in Sessions \ {s} : toClient'[t] = toClient[t]
        /\ toClient'[s] = IF ClientOpen(s) THEN toClient[s] \o <<Msg("READY")>>
                                           ELSE toClient[s]
    BY <1>0, <1>1, ToClient
  <1>3. \A t \in Sessions \ {s} : Same(t)
    BY <1>0, <1>2 DEF TypeOK, Same, clientVars
  <1>4. TypeOK'
    BY <1>0, <1>2 DEF TypeOK, clientVars
  <1>5. server'[s] = "wait_starting"
    BY <1>0 DEF TypeOK
  <1>6. toServer[s] = <<>>
    <2>1. toServer[s] \in Seq(Messages) /\ Len(toServer[s]) + 5 <= 5
      BY <1>0, Ranges DEF SessionInv, Queued, HelloNext
    <2>2. Len(toServer[s]) = 0
      BY <2>1, LenProperties
    <2>3. QED
      BY <2>1, <2>2, EmptySeq
  <1>7. SessionInv(s)'
    <2> USE <1>0, <1>2, <1>5, <1>6, ServerMoves, BeforeReady DEF SessionInv, clientVars
    <2>1. ServerCounted(s)'
      BY DEF ServerCounted, BeforeRun, Stopped
    <2>2. ClientCounted(s)' /\ Synced(s)' /\ InBatch(s)'
      BY DEF Synced, InBatch
    <2>3. Greeted(s)'
      BY <1>1 DEF Greeted, BeforeRun, ClientOpen
    <2>4. Ordered(s)'
      BY DEF Ordered, AllRunUpTo
    <2>5. Queued(s)'
      BY DEF Queued, HelloNext
    <2>6. QED
      BY <2>1, <2>2, <2>3, <2>4, <2>5
  <1>8. QED
    BY <1>3, <1>4, <1>7, OneSession

-----------------------------------------------------------------------------
(* The end of a session.                                                   *)

LEMMA ServerEndStep ==
  ASSUME IInv, NEW s \in Sessions, FreeSession(s) \/ CloseConnection(s) PROVE IInv'
  <1> USE DEF FreeSession, CloseConnection, ServerAt
  <1>0. TypeOK /\ SessionInv(s) /\ daemon = "up" /\ server[s] \in {"free", "close"}
    BY DEF IInv
  <1>1. UNCHANGED <<script, toServer, toClient, clientVars, sevent, snum, slast, serror,
                    daemon>>
    OBVIOUS
  <1>2. /\ \A t \in Sessions \ {s} : server'[t] = server[t]
        /\ server'[s] \in {"close", "closed"}
        /\ server' \in [Sessions -> {"none", "args", "path", "script", "hwaddr",
                                "setup", "ready", "wait_starting", "next",
                                "wait_start", "packet", "free", "close", "closed"}]
        /\ addrs' \subseteq {Gateway[t] : t \in Sessions}
    BY <1>0 DEF TypeOK
  <1> HIDE DEF FreeSession, CloseConnection
  <1>3. \A t \in Sessions \ {s} : Same(t)
    BY <1>1, <1>2 DEF Same, clientVars
  <1>4. TypeOK'
    BY <1>0, <1>1, <1>2 DEF TypeOK, clientVars
  <1>5. SessionInv(s)'
    <2> USE <1>0, <1>1, <1>2, ServerMoves DEF SessionInv, clientVars
    <2>1. ServerCounted(s)' /\ ClientCounted(s)'
      BY DEF ServerCounted, BeforeRun, Stopped
    <2>2. Greeted(s)'
      BY DEF Greeted, BeforeRun
    <2>3. Synced(s)'
      BY DEF Synced, PastBatch, AllRunUpTo, Stopped
    <2>4. InBatch(s)'
      <3>1. ASSUME NEW b, NEW m, HasRun(s, b, m) PROVE HasRun(s, b, m)'
        BY <3>1 DEF HasRun, PastBatch, Stopped
      <3>2. ASSUME GivenUp(s) PROVE GivenUp(s)'
        BY <3>2 DEF GivenUp, Stopped
      <3>3. \A b : ~Asked(s, b) /\ ~BeingRun(s, b)
        BY DEF Asked, BeingRun
      <3>4. QED
        BY <3>1, <3>2, <3>3 DEF InBatch, AllRunUpTo
    <2>5. Ordered(s)'
      BY DEF Ordered, AllRunUpTo
    <2>6. Queued(s)'
      BY DEF Queued, HelloNext
    <2>7. QED
      BY <2>1, <2>2, <2>3, <2>4, <2>5, <2>6
  <1>6. QED
    BY <1>1, <1>3, <1>4, <1>5, OneSession

LEMMA ServerDiesStep ==
  ASSUME IInv, NEW s \in Sessions, ServerDies(s) PROVE IInv'
  <1>1. TypeOK'
    BY DEF IInv, TypeOK, ServerDies, clientVars, serverVars
  <1>2. \A t \in Sessions : Same(t) /\ SessionInv(t)
    BY DEF IInv, Same, ServerDies, clientVars, serverVars
  <1>3. \A t \in Sessions : SessionInv(t)'
    BY <1>2, Frame DEF ServerDies
  <1>4. QED
    BY <1>1, <1>3 DEF IInv

\* A read that fails: the client has not passed, as it still had to be served.
LEMMA ServerReadFailsStep ==
  ASSUME IInv, NEW s \in Sessions, ServerReadFails(s) PROVE IInv'
  <1> USE DEF ServerReadFails, NothingMore
  <1>0. TypeOK /\ SessionInv(s) /\ daemon = "up" /\ toServer[s] = <<>>
        /\ server[s] \in {"args", "path", "script", "hwaddr", "wait_starting", "wait_start"}
    BY DEF IInv, SetUpOp
  <1>1. client[s] = "exited"
    BY <1>0 DEF SessionInv, Greeted, ClientOpen
  <1>2. PICK pc \in {"close", "free"} : server' = [server EXCEPT ![s] = pc]
    BY <1>0 DEF StopServer
  <1>3. /\ serror' = [serror EXCEPT ![s] = "io"]
        /\ UNCHANGED <<script, toServer, toClient, clientVars, sevent, snum, slast, daemon,
                       addrs>>
    BY DEF StopServer
  <1> HIDE DEF ServerReadFails
  <1>4. cexit[s] # "ok"
    <2>1. SUFFICES ASSUME cexit[s] = "ok" PROVE FALSE
      OBVIOUS
    <2>2. AllRunUpTo(s, Events(s)) /\ server[s] = "wait_start"
      <3>1. cnum[s] = Events(s) /\ InSync(s)
        BY <1>0, <2>1 DEF SessionInv, ClientCounted, InSync
      <3>2. Msg("STARTING") \in Messages
        BY MessageFacts
      <3>3. <<Msg("STARTING")>> # <<>>
        BY <3>2, ShortQueues
      <3>4. QED
        BY <1>0, <3>1, <3>3 DEF SessionInv, Synced, PastBatch, Stopped
    <2>3. Packet(s, sevent[s]) /\ sevent[s] \in Nat
      BY <1>0, <2>2, Ranges DEF SessionInv, ServerCounted
    <2>4. sevent[s] \in 1..Events(s)
      BY <1>0, <2>3, ScriptFacts DEF Packet
    <2>5. QED
      BY <2>2, <2>3, <2>4 DEF AllRunUpTo
  <1>5. \A t \in Sessions \ {s} : Same(t)
    BY <1>0, <1>2, <1>3 DEF TypeOK, Same, clientVars
  <1>6. TypeOK'
    BY <1>0, <1>2, <1>3 DEF TypeOK, ServerReasons, clientVars
  <1>7. server'[s] = pc /\ serror'[s] = "io"
    BY <1>0, <1>2, <1>3 DEF TypeOK
  <1>8. SessionInv(s)'
    <2> USE <1>0, <1>1, <1>2, <1>3, <1>4, <1>7, ServerMoves DEF SessionInv, clientVars
    <2>1. ServerCounted(s)' /\ ClientCounted(s)'
      BY DEF ServerCounted, BeforeRun, Stopped
    <2>2. Greeted(s)' /\ Synced(s)' /\ InBatch(s)'
      BY DEF Greeted, Synced, InSync, InBatch
    <2>3. Ordered(s)'
      BY DEF Ordered, AllRunUpTo
    <2>4. Queued(s)'
      BY DEF Queued, HelloNext
    <2>5. QED
      BY <2>1, <2>2, <2>3, <2>4
  <1>9. QED
    BY <1>3, <1>5, <1>6, <1>8, OneSession

\* A client that is gone has not passed when a verdict is still to be written.
LEMMA ServerWriteFailsStep ==
  ASSUME IInv, NEW s \in Sessions, ServerWriteFails(s) PROVE IInv'
  <1>0. TypeOK /\ SessionInv(s) /\ daemon = "up" /\ Events(s) \in Nat
        /\ Events(s) <= MaxEvents /\ MaxEvents \in Nat
    BY ScriptFacts, Ranges DEF IInv, ServerWriteFails
  <1>1. /\ snum[s] \in Nat /\ snum[s] <= Events(s) /\ sevent[s] = snum[s]
        /\ server[s] \in {"next", "packet"} /\ slast[s] = "packet"
    BY <1>0, Ranges
       DEF SessionInv, ServerCounted, ServerWriteFails, ServerAt, ServerBatchOver
  <1>2. client[s] = "exited" /\ ~InSync(s)
    BY <1>0, <1>1 DEF SessionInv, Greeted, Synced, PastBatch, Stopped, ClientOpen,
                      ServerWriteFails
  <1>3. PICK n \in {snum[s], snum[s] + 1} :
          /\ sevent' = [sevent EXCEPT ![s] = n]
          /\ server[s] = "packet" => n = snum[s]
          /\ n = snum[s] + 1 => Kind(s, n) \in {"other", "end"}
    <2>1. CASE server[s] = "packet"
      <3>1. sevent' = sevent
        BY <2>1 DEF ServerWriteFails, ServerAt
      <3>2. sevent' = [sevent EXCEPT ![s] = snum[s]]
        BY <1>0, <1>1, <3>1 DEF TypeOK
      <3>3. snum[s] # snum[s] + 1
        BY <1>1
      <3>4. QED
        BY <3>2, <3>3
    <2>2. CASE server[s] = "next"
      BY <1>1, <2>2 DEF ServerWriteFails, ServerAt, ServerBatchOver
    <2>3. QED
      BY <1>1, <2>1, <2>2
  <1>4. PICK pc, reason, up :
          /\ server' = [server EXCEPT ![s] = pc]
          /\ serror' = [serror EXCEPT ![s] = reason]
          /\ daemon' = up
          /\ \/ pc = "free" /\ reason = "io" /\ up = "up"
             \/ pc = server[s] /\ reason = "none" /\ up = "killed"
    <2>1. CASE StopServer(s, "io") /\ UNCHANGED daemon
      BY <1>0, <1>1, <2>1 DEF StopServer
    <2>2. CASE daemon' = "killed" /\ UNCHANGED <<server, serror>>
      <3>1. serror[s] = "none"
        BY <1>0, <1>1 DEF SessionInv, ServerCounted, Stopped
      <3>2. /\ server' = [server EXCEPT ![s] = server[s]]
            /\ serror' = [serror EXCEPT ![s] = "none"]
        BY <1>0, <2>2, <3>1 DEF TypeOK
      <3>3. QED
        BY <2>2, <3>2
    <2>3. QED
      BY <2>1, <2>2 DEF ServerWriteFails
  <1>5. UNCHANGED <<script, toServer, toClient, clientVars, snum, slast, addrs>>
    BY DEF ServerWriteFails
  <1>6. \A t \in Sessions \ {s} : Same(t)
    BY <1>0, <1>3, <1>4, <1>5 DEF TypeOK, Same, clientVars
  <1>7. TypeOK'
    <2>1. n \in 0..MaxEvents + 1 /\ pc \in {"free", "next", "packet"} /\ reason \in ServerReasons
      BY <1>0, <1>1, <1>4 DEF ServerReasons
    <2>2. QED
      BY <1>0, <1>3, <1>4, <1>5, <2>1 DEF TypeOK, clientVars
  <1>8. server'[s] = pc /\ serror'[s] = reason /\ sevent'[s] = n
    BY <1>0, <1>3, <1>4 DEF TypeOK
  <1>9. SessionInv(s)'
    <2> USE <1>0, <1>1, <1>2, <1>3, <1>4, <1>5, <1>8, ServerMoves DEF SessionInv, clientVars
    <2>1. ServerCounted(s)'
      BY DEF ServerCounted, BeforeRun, Stopped, Packet
    <2>2. ClientCounted(s)' /\ Greeted(s)' /\ Synced(s)' /\ InBatch(s)'
      BY DEF Greeted, Synced, InBatch
    <2>3. Ordered(s)'
      BY DEF Ordered, AllRunUpTo
    <2>4. (daemon = "up" => Queued(s))'
      BY DEF Queued, HelloNext
    <2>5. QED
      BY <2>1, <2>2, <2>3, <2>4
  <1>10. QED
    BY <1>4, <1>6, <1>7, <1>9, <1>0, OneSession

-----------------------------------------------------------------------------
(* The server's run.                                                       *)

\* An event that begins is counted once.
LEMMA ServerEvent ==
  ASSUME TypeOK, NEW s \in Sessions, NEW n \in Nat, n = snum[s] + 1, n <= Events(s),
         Kind(s, n) # "backward", ServerEventBegins(s, n)
  PROVE  /\ server' \in [Sessions -> {"none", "args", "path", "script", "hwaddr",
                                "setup", "ready", "wait_starting", "next",
                                "wait_start", "packet", "free", "close", "closed"}]
         /\ snum' \in [Sessions -> 0..MaxEvents]
         /\ slast' \in [Sessions -> {"invalid", "packet", "other"}]
         /\ \A t \in Sessions \ {s} : /\ server'[t] = server[t] /\ snum'[t] = snum[t]
                                      /\ slast'[t] = slast[t]
         /\ server'[s] = IF Kind(s, n) = "packet" THEN "packet" ELSE "next"
         /\ snum'[s] = n /\ slast'[s] = Kind(s, n) /\ Kind(s, n) \in {"packet", "other"}
  <1>1. /\ Events(s) \in Nat /\ Events(s) <= MaxEvents /\ MaxEvents \in Nat
    BY ScriptFacts, Ranges
  <1>2. n \in 1..Events(s) /\ n \in 0..MaxEvents
    BY <1>1, Ranges
  <1>3. Kind(s, n) \in {"packet", "other"}
    BY <1>2, ScriptFacts
  <1>4. snum' = [snum EXCEPT ![s] = n]
    BY DEF ServerEventBegins
  <1>5. QED
    BY <1>2, <1>3, <1>4 DEF ServerEventBegins, TypeOK

\* While a packet is run, the client is in its batch and waits, or is gone.
LEMMA PacketRuns ==
  ASSUME IInv, NEW s \in Sessions, daemon = "up", slast[s] = "packet",
         server[s] \in {"next", "packet"}
  PROVE  /\ ~InSync(s) /\ toServer[s] = <<>> /\ serror[s] = "none"
         /\ client[s] \notin {"connect", "hello", "wait_ready", "starting"}
         /\ client[s] \in {"next", "run", "wait_done"} /\ clast[s] = "packet" =>
               \E b \in 1..cnum[s] :
                  /\ \A e \in b..cnum[s] : Packet(s, e)
                  /\ AllRunUpTo(s, b - 1) /\ BeingRun(s, b)
  <1>0. SessionInv(s)
    BY DEF IInv
  <1>1. ~InSync(s)
    BY <1>0 DEF SessionInv, Synced, PastBatch, Stopped
  <1>2. toServer[s] = <<>>
    BY <1>0 DEF SessionInv, Queued, StartFits
  <1>3. serror[s] = "none" /\ client[s] \notin {"connect", "hello", "wait_ready", "starting"}
    BY <1>0 DEF SessionInv, ServerCounted, Greeted, BeforeRun, Stopped
  <1>4. ASSUME NEW b, Asked(s, b) \/ GivenUp(s) \/ \E m : HasRun(s, b, m)
        PROVE  FALSE
    <2>1. ~Asked(s, b)
      <3>1. ASSUME Asked(s, b) PROVE FALSE
        <4>1. toServer[s] = <<Start(b - 1)>>
          BY <3>1 DEF Asked
        <4>2. \A m : <<m>> # <<>>
          OBVIOUS
        <4>3. QED
          BY <1>2, <4>1, <4>2
      <3>2. QED
        BY <3>1
    <2>2. ~GivenUp(s) /\ \A m : ~HasRun(s, b, m)
      BY DEF GivenUp, HasRun, PastBatch, Stopped
    <2>3. QED
      BY <1>4, <2>1, <2>2
  <1>5. ASSUME client[s] \in {"next", "run", "wait_done"}, clast[s] = "packet"
        PROVE  \E b \in 1..cnum[s] :
                  /\ \A e \in b..cnum[s] : Packet(s, e)
                  /\ AllRunUpTo(s, b - 1) /\ BeingRun(s, b)
    BY <1>0, <1>4, <1>5 DEF SessionInv, InBatch
  <1>6. QED
    BY <1>1, <1>2, <1>3, <1>5

\* A packet is what the script says, or looks fishy.
LEMMA PacketAcceptedStep ==
  ASSUME IInv, NEW s \in Sessions, ServerAt(s, "packet"),
         server' = [server EXCEPT ![s] = "next"],
         UNCHANGED toClient \/ SendToClient(s, <<Msg("WARN")>>),
         UNCHANGED <<script, toServer, clientVars, sevent, snum, slast, serror, daemon, addrs>>
  PROVE  IInv'
  <1> USE DEF ServerAt
  <1>0. TypeOK /\ SessionInv(s)
    BY DEF IInv
  <1>1. sevent[s] = snum[s] /\ slast[s] = "packet" /\ server'[s] = "next"
    BY <1>0 DEF TypeOK, SessionInv, ServerCounted
  <1>2. Msg("WARN") \in Messages
    BY MessageFacts
  <1>3. /\ toClient' \in [Sessions -> Seq(Messages)]
        /\ \A t \in Sessions \ {s} : toClient'[t] = toClient[t]
        /\ toClient'[s] \in {toClient[s], toClient[s] \o <<Msg("WARN")>>}
    <2>1. CASE UNCHANGED toClient
      BY <1>0, <2>1 DEF TypeOK
    <2>2. CASE SendToClient(s, <<Msg("WARN")>>)
      BY <1>0, <1>2, <2>2, ToClient
    <2>3. QED
      BY <2>1, <2>2
  <1>4. \A t \in Sessions \ {s} : Same(t)
    BY <1>0, <1>3 DEF TypeOK, Same, clientVars
  <1>5. TypeOK'
    BY <1>0, <1>3 DEF TypeOK, clientVars
  <1>6. SessionInv(s)'
    <2> USE <1>0, <1>1, PacketRuns, ServerMoves DEF SessionInv, clientVars
    <2>1. ServerCounted(s)' /\ ClientCounted(s)'
      BY DEF ServerCounted, BeforeRun, Stopped
    <2>2. Greeted(s)' /\ Synced(s)'
      BY DEF Greeted, Synced
    <2>3. InBatch(s)'
      <3>1. SUFFICES ASSUME client[s] \in {"next", "run", "wait_done"}, clast[s] = "packet"
                     PROVE  InBatch(s)'
        BY DEF InBatch
      <3>2. PICK b \in 1..cnum[s] : /\ \A e \in b..cnum[s] : Packet(s, e)
                                   /\ AllRunUpTo(s, b - 1) /\ BeingRun(s, b)
        BY <3>1
      <3>3. OnlyWarnings(toClient'[s])
        <4>1. OnlyWarnings(toClient[s]) /\ toClient[s] \in Seq(Messages)
          BY <3>2, Ranges DEF BeingRun
        <4>2. QED
          BY <1>3, <4>1, Warnings
      <3>4. BeingRun(s, b)'
        BY <3>2, <3>3 DEF BeingRun
      <3>5. AllRunUpTo(s, b - 1)' /\ \A e \in b..cnum'[s] : Packet(s, e)'
        BY <3>2 DEF AllRunUpTo
      <3>6. QED
        BY <3>4, <3>5 DEF InBatch
    <2>4. Ordered(s)'
      BY DEF Ordered, AllRunUpTo
    <2>5. Queued(s)'
      BY DEF Queued, HelloNext
    <2>6. QED
      BY <2>1, <2>2, <2>3, <2>4, <2>5
  <1>7. QED
    BY <1>4, <1>5, <1>6, OneSession

LEMMA PacketRefusedStep ==
  ASSUME IInv, NEW s \in Sessions, ServerAt(s, "packet"),
         SendToClient(s, <<Done(snum[s], "ERR")>>), StopServer(s, "packet"),
         UNCHANGED <<script, toServer, clientVars, sevent, snum, slast, daemon, addrs>>
  PROVE  IInv'
  <1> USE DEF ServerAt
  <1>0. TypeOK /\ SessionInv(s)
    BY DEF IInv
  <1>1. /\ sevent[s] = snum[s] /\ slast[s] = "packet"
        /\ server' = [server EXCEPT ![s] = "free"]
        /\ serror' = [serror EXCEPT ![s] = "packet"]
    BY <1>0 DEF SessionInv, ServerCounted, StopServer
  <1>2. Done(snum[s], "ERR") \in Messages /\ snum[s] \in 0..MaxEvents
    BY <1>0, Ranges, MessageFacts
  <1>3. /\ toClient' \in [Sessions -> Seq(Messages)]
        /\ \A t \in Sessions \ {s} : toClient'[t] = toClient[t]
        /\ toClient'[s] = IF ClientOpen(s) THEN toClient[s] \o <<Done(snum[s], "ERR")>>
                                           ELSE toClient[s]
    BY <1>0, <1>2, ToClient
  <1>4. \A t \in Sessions \ {s} : Same(t)
    BY <1>0, <1>1, <1>3 DEF TypeOK, Same, clientVars
  <1>5. TypeOK'
    BY <1>0, <1>1, <1>3 DEF TypeOK, ServerReasons, clientVars
  <1>6. server'[s] = "free" /\ serror'[s] = "packet"
    BY <1>0, <1>1 DEF TypeOK
  <1>7. SessionInv(s)'
    <2> USE <1>0, <1>1, <1>6, PacketRuns, ServerMoves DEF SessionInv, clientVars
    <2>1. ServerCounted(s)' /\ ClientCounted(s)'
      BY DEF ServerCounted, BeforeRun, Stopped
    <2>2. Greeted(s)' /\ Synced(s)'
      BY DEF Greeted, Synced
    <2>3. InBatch(s)'
      <3>1. SUFFICES ASSUME client[s] \in {"next", "run", "wait_done"}, clast[s] = "packet"
                     PROVE  InBatch(s)'
        BY DEF InBatch
      <3>2. PICK b \in 1..cnum[s] : /\ \A e \in b..cnum[s] : Packet(s, e)
                                   /\ AllRunUpTo(s, b - 1) /\ BeingRun(s, b)
        BY <3>1
      <3>3. EndsWith(toClient'[s], Done(snum[s], "ERR"))
        <4>1. OnlyWarnings(toClient[s]) /\ toClient[s] \in Seq(Messages)
          BY <3>2, Ranges DEF BeingRun
        <4>2. QED
          BY <1>2, <1>3, <3>1, <4>1, Warnings DEF ClientOpen
      <3>4. GivenUp(s)'
        BY <1>2, <3>3 DEF GivenUp, Stopped
      <3>5. AllRunUpTo(s, b - 1)' /\ \A e \in b..cnum'[s] : Packet(s, e)'
        BY <3>2 DEF AllRunUpTo
      <3>6. QED
        BY <3>4, <3>5 DEF InBatch
    <2>4. Ordered(s)'
      BY DEF Ordered, AllRunUpTo
    <2>5. Queued(s)'
      BY DEF Queued, HelloNext
    <2>6. QED
      BY <2>1, <2>2, <2>3, <2>4, <2>5
  <1>8. QED
    BY <1>4, <1>5, <1>7, OneSession

LEMMA RunPacketEventStep ==
  ASSUME IInv, NEW s \in Sessions, RunPacketEvent(s) PROVE IInv'
  BY PacketAcceptedStep, PacketRefusedStep DEF RunPacketEvent

\* The number that starts a batch is the server's own.
LEMMA ReceivePacketsStartStep ==
  ASSUME IInv, NEW s \in Sessions, ReceivePacketsStart(s) PROVE IInv'
  <1>0. /\ TypeOK /\ SessionInv(s) /\ daemon = "up" /\ server[s] = "wait_start"
        /\ toServer[s] # <<>> /\ Events(s) \in Nat /\ Events(s) <= MaxEvents
        /\ MaxEvents \in Nat
    BY ScriptFacts, Ranges DEF IInv, ReceivePacketsStart, ServerAt
  <1>1. /\ sevent[s] = snum[s] + 1 /\ Packet(s, sevent[s]) /\ serror[s] = "none"
        /\ snum[s] \in Nat /\ snum[s] <= Events(s)
    BY <1>0, Ranges DEF SessionInv, ServerCounted, Stopped
  <1>2. PICK n \in Nat : n = sevent[s]
    BY <1>1
  <1>3. n <= Events(s) /\ Kind(s, n) = "packet"
    BY <1>0, <1>1, <1>2, ScriptFacts DEF Packet
  <1>4. PICK m \in 0..Events(s) : StartFits(s, m) /\ toServer[s] = <<Start(m)>>
    BY <1>0 DEF SessionInv, Queued
  <1>5. m = snum[s]
    BY <1>1, <1>2, <1>3 , <1>4 DEF StartFits
  <1>6. /\ Head(toServer[s]).op = "START" /\ Head(toServer[s]).num = m
        /\ Tail(toServer[s]) = <<>>
    <2>1. m \in 0..MaxEvents
      BY <1>0
    <2>2. Start(m) \in Messages /\ Start(m).op = "START" /\ Start(m).num = m
      BY <2>1, MessageFacts
    <2>3. QED
      BY <1>4, <2>2, ShortQueues
  <1>7. /\ ServerEventBegins(s, n) /\ toServer' = [toServer EXCEPT ![s] = <<>>]
        /\ UNCHANGED <<script, toClient, clientVars, sevent, serror, daemon, addrs>>
    BY <1>2, <1>5, <1>6 DEF ReceivePacketsStart
  <1>8. /\ server' \in [Sessions -> {"none", "args", "path", "script", "hwaddr",
                                "setup", "ready", "wait_starting", "next",
                                "wait_start", "packet", "free", "close", "closed"}]
        /\ snum' \in [Sessions -> 0..MaxEvents]
        /\ slast' \in [Sessions -> {"invalid", "packet", "other"}]
        /\ \A t \in Sessions \ {s} : /\ server'[t] = server[t] /\ snum'[t] = snum[t]
                                     /\ slast'[t] = slast[t]
        /\ server'[s] = "packet" /\ snum'[s] = n /\ slast'[s] = "packet"
    BY <1>0, <1>1, <1>2, <1>3, <1>7, ServerEvent
  <1>9. \A t \in Sessions \ {s} : Same(t)
    BY <1>0, <1>7, <1>8 DEF TypeOK, Same, clientVars
  <1>10. TypeOK'
    <2>1. toServer' \in [Sessions -> Seq(Messages)]
      BY <1>0, <1>7, ShortQueues DEF TypeOK
    <2>2. QED
      BY <1>0, <1>7, <1>8, <2>1 DEF TypeOK, clientVars
  <1>11. toServer'[s] = <<>> /\ sevent'[s] = n
    BY <1>0, <1>2, <1>7 DEF TypeOK
  <1>12. ~InSync(s)
    BY <1>0 DEF SessionInv, Synced, PastBatch, Stopped
  <1>13. SessionInv(s)'
    <2> USE <1>0, <1>1, <1>2, <1>3, <1>7, <1>8, <1>11, <1>12, ServerMoves
        DEF SessionInv, clientVars
    <2>1. ServerCounted(s)' /\ ClientCounted(s)'
      <3>1. \A e \in 1..n : Kind(s, e) # "backward"
        BY DEF ServerCounted
      <3>2. QED
        BY <3>1 DEF ServerCounted, BeforeRun, Stopped
    <2>2. Greeted(s)' /\ Synced(s)'
      BY DEF Greeted, Synced, BeforeRun
    <2>3. InBatch(s)'
      <3>1. SUFFICES ASSUME client[s] \in {"next", "run", "wait_done"}, clast[s] = "packet"
                     PROVE  InBatch(s)'
        BY DEF InBatch
      <3>2. PICK b \in 1..cnum[s] : /\ \A e \in b..cnum[s] : Packet(s, e)
                                   /\ AllRunUpTo(s, b - 1)
                                   /\ \/ Asked(s, b) \/ BeingRun(s, b) \/ GivenUp(s)
                                      \/ \E i \in b..Events(s) : HasRun(s, b, i)
        BY <3>1 DEF InBatch
      <3>3. Asked(s, b)
        BY <3>2 DEF BeingRun, GivenUp, HasRun, PastBatch, Stopped
      <3>4. b = n /\ toClient[s] = <<>>
        <4>1. <<Start(b - 1)>> = <<Start(m)>> /\ toClient[s] = <<>>
          BY <1>4, <3>3 DEF Asked
        <4>2. Start(b - 1) = Start(m)
          BY <4>1
        <4>3. b - 1 = m
          BY <4>2 DEF Start
        <4>4. QED
          BY <1>5, <4>1, <4>3, Ranges
      <3>5. BeingRun(s, b)'
        BY <3>4, ShortQueues DEF BeingRun, OnlyWarnings, Packet
      <3>6. AllRunUpTo(s, b - 1)' /\ \A e \in b..cnum'[s] : Packet(s, e)'
        BY <3>2 DEF AllRunUpTo
      <3>7. QED
        BY <3>5, <3>6 DEF InBatch
    <2>4. Ordered(s)'
      <3>1. ASSUME NEW e \in 1..n, Packet(s, e), NEW f \in 1..e - 1, ~Packet(s, f)
            PROVE  f <= cdone[s]
        <4>1. CASE e <= snum[s]
          BY <3>1, <4>1 DEF Ordered
        <4>2. CASE e = n
          BY <1>4, <1>5, <4>2, Ranges DEF StartFits
        <4>3. QED
          BY <4>1, <4>2
      <3>2. QED
        BY <3>1 DEF Ordered, AllRunUpTo
    <2>5. Queued(s)'
      BY DEF Queued, HelloNext
    <2>6. QED
      BY <2>1, <2>2, <2>3, <2>4, <2>5
  <1>14. QED
    BY <1>7, <1>9, <1>10, <1>13, OneSession

\* The branches of ServerNextEvent, for the event n that comes next.
ServerNextIs(s, n) ==
    /\ ServerAt(s, "next") /\ n \in Nat /\ n = snum[s] + 1 /\ n <= Events(s) + 1
    /\ sevent[s] = snum[s]
    /\ sevent' = [sevent EXCEPT ![s] = n]
    /\ UNCHANGED <<script, toServer, clientVars, daemon, addrs>>

LEMMA ServerNextTypes ==
  ASSUME TypeOK, NEW s \in Sessions, NEW n, ServerNextIs(s, n), UNCHANGED toClient,
         Events(s) \in Nat, Events(s) <= MaxEvents, MaxEvents \in Nat,
         server' \in [Sessions -> {"none", "args", "path", "script", "hwaddr",
                                  "setup", "ready", "wait_starting", "next",
                                  "wait_start", "packet", "free", "close", "closed"}],
         snum' \in [Sessions -> 0..MaxEvents],
         slast' \in [Sessions -> {"invalid", "packet", "other"}],
         serror' \in [Sessions -> ServerReasons]
  PROVE  TypeOK'
  <1>1. n \in 0..(MaxEvents + 1)
    BY DEF ServerNextIs
  <1>2. sevent' \in [Sessions -> 0..(MaxEvents + 1)]
    BY <1>1 DEF ServerNextIs, TypeOK
  <1>3. UNCHANGED <<script, toServer, toClient, client, cevent, cnum, clast, cdone,
                    cexit, daemon, addrs>>
    BY DEF ServerNextIs, clientVars
  <1>4. QED
    BY <1>2, <1>3 DEF TypeOK

\* The server's thread leaves the run, or waits for a batch to be asked for.
LEMMA ServerPauses ==
  ASSUME IInv, NEW s \in Sessions, NEW n, ServerNextIs(s, n),
         slast[s] # "packet" \/ Kind(s, n) = "backward",
         UNCHANGED <<toClient, snum, slast>>, NEW pc, NEW reason,
         server' = [server EXCEPT ![s] = pc], serror' = [serror EXCEPT ![s] = reason],
         \/ pc = "free" /\ reason = "script" /\ Kind(s, n) = "backward"
         \/ pc = "free" /\ reason = "none" /\ Kind(s, n) = "end"
         \/ pc = "wait_start" /\ reason = "none" /\ Packet(s, n)
  PROVE  IInv'
  <1> USE DEF ServerNextIs, ServerAt
  <1>0. TypeOK /\ SessionInv(s) /\ Events(s) \in Nat /\ Events(s) <= MaxEvents
        /\ MaxEvents \in Nat /\ snum[s] \in Nat
    BY ScriptFacts, Ranges DEF IInv
  <1>1. \A t \in Sessions \ {s} : Same(t)
    BY <1>0 DEF TypeOK, Same, clientVars
  <1>2. TypeOK'
    <2>1. server' \in [Sessions -> {"none", "args", "path", "script", "hwaddr",
                                   "setup", "ready", "wait_starting", "next",
                                   "wait_start", "packet", "free", "close", "closed"}]
      BY <1>0 DEF TypeOK
    <2>2. serror' \in [Sessions -> ServerReasons]
      BY <1>0 DEF TypeOK, ServerReasons
    <2>3. /\ snum' \in [Sessions -> 0..MaxEvents]
          /\ slast' \in [Sessions -> {"invalid", "packet", "other"}]
      BY <1>0 DEF TypeOK
    <2>4. QED
      BY <1>0, <2>1, <2>2, <2>3, ServerNextTypes
  <1>3. server'[s] = pc /\ serror'[s] = reason /\ sevent'[s] = n
    BY <1>0 DEF TypeOK
  <1>4. SessionInv(s)'
    <2> USE <1>0, <1>3, ServerMoves DEF SessionInv, clientVars
    <2>1. ServerCounted(s)' /\ ClientCounted(s)'
      BY DEF ServerCounted, BeforeRun, Stopped, Packet
    <2>2. Greeted(s)'
      BY DEF Greeted, BeforeRun
    <2>3. Synced(s)'
      BY DEF Synced, PastBatch, AllRunUpTo, Stopped
    <2>4. InBatch(s)'
      <3>1. ASSUME NEW b, Asked(s, b) PROVE Asked(s, b)' \/ GivenUp(s)'
        BY <3>1, ShortQueues DEF Asked, GivenUp, Stopped, OnlyWarnings
      <3>2. ASSUME NEW b, BeingRun(s, b) \/ GivenUp(s) PROVE GivenUp(s)'
        BY <3>2 DEF BeingRun, GivenUp, Stopped, Packet
      <3>3. ASSUME NEW b, NEW m \in b..Events(s), HasRun(s, b, m) PROVE HasRun(s, b, m)'
        BY <3>3 DEF HasRun, PastBatch, Stopped
      <3>4. \A b : AllRunUpTo(s, b) => AllRunUpTo(s, b)'
        BY DEF AllRunUpTo
      <3>5. QED
        BY <3>1, <3>2, <3>3, <3>4 DEF InBatch
    <2>5. Ordered(s)'
      BY DEF Ordered, AllRunUpTo
    <2>6. Queued(s)'
      <3>1. \A m : StartFits(s, m)' = StartFits(s, m)
        BY DEF StartFits
      <3>2. QED
        BY <3>1 DEF Queued, HelloNext
    <2>7. QED
      BY <2>1, <2>2, <2>3, <2>4, <2>5, <2>6
  <1>5. QED
    BY <1>1, <1>2, <1>4, OneSession

\* An event of the batch begins, or one that is left to the client.
LEMMA ServerPassesStep ==
  ASSUME IInv, NEW s \in Sessions, NEW n, ServerNextIs(s, n), slast[s] # "packet",
         Kind(s, n) = "other", ServerEventBegins(s, n),
         UNCHANGED <<toClient, serror>>
  PROVE  IInv'
  <1> USE DEF ServerNextIs, ServerAt
  <1>0. TypeOK /\ SessionInv(s) /\ Events(s) \in Nat /\ Events(s) <= MaxEvents
        /\ MaxEvents \in Nat /\ snum[s] \in Nat
    BY ScriptFacts, Ranges DEF IInv
  <1>1. n <= Events(s)
    BY <1>0, ScriptFacts
  <1>2. /\ server' \in [Sessions -> {"none", "args", "path", "script", "hwaddr",
                                "setup", "ready", "wait_starting", "next",
                                "wait_start", "packet", "free", "close", "closed"}]
        /\ snum' \in [Sessions -> 0..MaxEvents]
        /\ slast' \in [Sessions -> {"invalid", "packet", "other"}]
        /\ \A t \in Sessions \ {s} : /\ server'[t] = server[t] /\ snum'[t] = snum[t]
                                     /\ slast'[t] = slast[t]
        /\ server'[s] = "next" /\ snum'[s] = n /\ slast'[s] = "other"
    BY <1>0, <1>1, ServerEvent
  <1>3. \A t \in Sessions \ {s} : Same(t)
    BY <1>0, <1>2 DEF TypeOK, Same, clientVars
  <1>4. TypeOK'
    <2>1. serror' \in [Sessions -> ServerReasons]
      BY <1>0 DEF TypeOK
    <2>2. QED
      BY <1>0, <1>2, <2>1, ServerNextTypes
  <1>5. sevent'[s] = n /\ ~Packet(s, n)
    BY <1>0 DEF TypeOK, Packet
  <1>6. SessionInv(s)'
    <2> USE <1>0, <1>1, <1>2, <1>5, ServerMoves DEF SessionInv, clientVars
    <2>1. ServerCounted(s)' /\ ClientCounted(s)'
      <3>1. \A e \in 1..n : Kind(s, e) # "backward"
        BY DEF ServerCounted
      <3>2. QED
        BY <3>1 DEF ServerCounted, BeforeRun, Stopped
    <2>2. Greeted(s)'
      BY DEF Greeted, BeforeRun
    <2>3. Synced(s)'
      BY DEF Synced, PastBatch, AllRunUpTo, Stopped
    <2>4. InBatch(s)'
      <3>1. ASSUME NEW b, Asked(s, b) PROVE Asked(s, b)'
        BY <3>1 DEF Asked
      <3>2. ASSUME NEW b PROVE ~BeingRun(s, b) /\ ~GivenUp(s)
        BY DEF BeingRun, GivenUp, Stopped
      <3>3. ASSUME NEW b, NEW m \in b..Events(s), HasRun(s, b, m) PROVE HasRun(s, b, m)'
        BY <3>3 DEF HasRun, PastBatch, Stopped
      <3>4. \A b : AllRunUpTo(s, b) => AllRunUpTo(s, b)'
        BY DEF AllRunUpTo
      <3>5. QED
        BY <3>1, <3>2, <3>3, <3>4 DEF InBatch
    <2>5. Ordered(s)'
      BY DEF Ordered, AllRunUpTo
    <2>6. Queued(s)'
      <3>1. ASSUME NEW m \in 0..Events(s), StartFits(s, m) PROVE StartFits(s, m)'
        <4>1. n <= m
          BY <3>1 DEF StartFits
        <4>2. QED
          BY <3>1, <4>1 DEF StartFits
      <3>2. QED
        BY <3>1 DEF Queued, HelloNext
    <2>7. QED
      BY <2>1, <2>2, <2>3, <2>4, <2>5, <2>6
  <1>7. QED
    BY <1>3, <1>4, <1>6, OneSession

LEMMA ServerBatchGoesOnStep ==
  ASSUME IInv, NEW s \in Sessions, NEW n, ServerNextIs(s, n), Kind(s, n) = "packet",
         slast[s] = "packet", ServerEventBegins(s, n), UNCHANGED <<toClient, serror>>
  PROVE  IInv'
  <1> USE DEF ServerNextIs, ServerAt
  <1>0. TypeOK /\ SessionInv(s) /\ Events(s) \in Nat /\ Events(s) <= MaxEvents
        /\ MaxEvents \in Nat /\ snum[s] \in Nat
    BY ScriptFacts, Ranges DEF IInv
  <1>1. n <= Events(s)
    BY <1>0, ScriptFacts
  <1>2. /\ server' \in [Sessions -> {"none", "args", "path", "script", "hwaddr",
                                "setup", "ready", "wait_starting", "next",
                                "wait_start", "packet", "free", "close", "closed"}]
        /\ snum' \in [Sessions -> 0..MaxEvents]
        /\ slast' \in [Sessions -> {"invalid", "packet", "other"}]
        /\ \A t \in Sessions \ {s} : /\ server'[t] = server[t] /\ snum'[t] = snum[t]
                                     /\ slast'[t] = slast[t]
        /\ server'[s] = "packet" /\ snum'[s] = n /\ slast'[s] = "packet"
    BY <1>0, <1>1, ServerEvent
  <1>3. \A t \in Sessions \ {s} : Same(t)
    BY <1>0, <1>2 DEF TypeOK, Same, clientVars
  <1>4. TypeOK'
    <2>1. serror' \in [Sessions -> ServerReasons]
      BY <1>0 DEF TypeOK
    <2>2. QED
      BY <1>0, <1>2, <2>1, ServerNextTypes
  <1>5. sevent'[s] = n /\ Packet(s, n)
    BY <1>0 DEF TypeOK, Packet
  <1>6. SessionInv(s)'
    <2> USE <1>0, <1>1, <1>2, <1>5, PacketRuns, ServerMoves DEF SessionInv, clientVars
    <2>1. ServerCounted(s)' /\ ClientCounted(s)'
      <3>1. \A e \in 1..n : Kind(s, e) # "backward"
        BY DEF ServerCounted
      <3>2. QED
        BY <3>1 DEF ServerCounted, BeforeRun, Stopped
    <2>2. Greeted(s)' /\ Synced(s)'
      BY DEF Greeted, Synced
    <2>3. InBatch(s)'
      <3>1. SUFFICES ASSUME client[s] \in {"next", "run", "wait_done"}, clast[s] = "packet"
                     PROVE  InBatch(s)'
        BY DEF InBatch
      <3>2. PICK b \in 1..cnum[s] : /\ \A e \in b..cnum[s] : Packet(s, e)
                                   /\ AllRunUpTo(s, b - 1) /\ BeingRun(s, b)
        BY <3>1
      <3>3. BeingRun(s, b)'
        BY <3>2 DEF BeingRun
      <3>4. AllRunUpTo(s, b - 1)' /\ \A e \in b..cnum'[s] : Packet(s, e)'
        BY <3>2 DEF AllRunUpTo
      <3>5. QED
        BY <3>3, <3>4 DEF InBatch
    <2>4. Ordered(s)'
      <3>1. ASSUME NEW e \in 1..n, Packet(s, e), NEW f \in 1..e - 1, ~Packet(s, f)
            PROVE  f <= cdone[s]
        <4>1. CASE e <= snum[s]
          BY <3>1, <4>1 DEF Ordered
        <4>2. CASE e = n
          <5>1. Packet(s, snum[s]) /\ snum[s] >= 1
            BY DEF ServerCounted, Packet
          <5>2. f \in 1..snum[s] - 1
            BY <3>1, <4>2, <5>1
          <5>3. QED
            BY <3>1, <5>1, <5>2, SMTT(20) DEF Ordered
        <4>3. QED
          BY <4>1, <4>2
      <3>2. QED
        BY <3>1 DEF Ordered, AllRunUpTo
    <2>5. Queued(s)'
      BY DEF Queued, HelloNext
    <2>6. QED
      BY <2>1, <2>2, <2>3, <2>4, <2>5
  <1>7. QED
    BY <1>3, <1>4, <1>6, OneSession

\* The batch is over: the verdict goes behind the warnings.
LEMMA ServerBatchOverStep ==
  ASSUME IInv, NEW s \in Sessions, NEW n, ServerNextIs(s, n),
         ServerBatchOver(s, Kind(s, n)), SendToClient(s, <<Done(snum[s], "OK")>>),
         IF Kind(s, n) = "end" THEN StopServer(s, "none") /\ UNCHANGED <<snum, slast>>
                               ELSE ServerEventBegins(s, n) /\ UNCHANGED serror
  PROVE  IInv'
  <1> USE DEF ServerNextIs, ServerAt
  <1>0. TypeOK /\ SessionInv(s) /\ Events(s) \in Nat /\ Events(s) <= MaxEvents
        /\ MaxEvents \in Nat /\ snum[s] \in Nat /\ snum[s] <= Events(s)
    BY ScriptFacts, Ranges DEF IInv, SessionInv, ServerCounted
  <1>1. slast[s] = "packet" /\ Kind(s, n) \in {"other", "end"} /\ ~Packet(s, n)
        /\ serror[s] = "none"
    BY <1>0 DEF ServerBatchOver, Packet, SessionInv, ServerCounted, Stopped
  <1>2. /\ server' \in [Sessions -> {"none", "args", "path", "script", "hwaddr",
                                "setup", "ready", "wait_starting", "next",
                                "wait_start", "packet", "free", "close", "closed"}]
        /\ snum' \in [Sessions -> 0..MaxEvents]
        /\ slast' \in [Sessions -> {"invalid", "packet", "other"}]
        /\ serror' = serror
        /\ \A t \in Sessions \ {s} : /\ server'[t] = server[t] /\ snum'[t] = snum[t]
                                     /\ slast'[t] = slast[t]
        /\ \/ /\ Kind(s, n) = "end" /\ server'[s] = "free"
              /\ snum'[s] = snum[s] /\ slast'[s] = slast[s]
           \/ /\ Kind(s, n) = "other" /\ n <= Events(s) /\ server'[s] = "next"
              /\ snum'[s] = n /\ slast'[s] = "other"
    <2>1. CASE Kind(s, n) = "end"
      <3>1. server' = [server EXCEPT ![s] = "free"] /\ UNCHANGED <<snum, slast>>
        BY <2>1 DEF StopServer
      <3>2. serror' = serror
        <4>1. serror' = [serror EXCEPT ![s] = "none"]
          BY <2>1 DEF StopServer
        <4>2. QED
          BY <1>0, <1>1, <4>1 DEF TypeOK
      <3>3. QED
        BY <1>0, <2>1, <3>1, <3>2 DEF TypeOK
    <2>2. CASE Kind(s, n) # "end"
      <3>1. Kind(s, n) = "other" /\ n <= Events(s)
        BY <1>0, <1>1, <2>2, ScriptFacts
      <3>2. QED
        BY <1>0, <2>2, <3>1, ServerEvent
    <2>3. QED
      BY <2>1, <2>2
  <1>3. snum[s] \in 0..MaxEvents /\ Done(snum[s], "OK") \in Messages
    BY <1>0, MessageFacts
  <1>4. /\ toClient' \in [Sessions -> Seq(Messages)]
        /\ \A t \in Sessions \ {s} : toClient'[t] = toClient[t]
        /\ toClient'[s] = IF ClientOpen(s) THEN toClient[s] \o <<Done(snum[s], "OK")>>
                                           ELSE toClient[s]
    BY <1>0, <1>3, ToClient
  <1>5. \A t \in Sessions \ {s} : Same(t)
    BY <1>0, <1>2, <1>4 DEF TypeOK, Same, clientVars
  <1>6. TypeOK'
    <2>1. sevent' \in [Sessions -> 0..MaxEvents + 1]
      BY <1>0 DEF TypeOK
    <2>2. /\ toClient' \in [Sessions -> Seq(Messages)]
          /\ server' \in [Sessions -> {"none", "args", "path", "script", "hwaddr",
                                "setup", "ready", "wait_starting", "next",
                                "wait_start", "packet", "free", "close", "closed"}]
          /\ snum' \in [Sessions -> 0..MaxEvents] /\ serror' = serror
          /\ slast' \in [Sessions -> {"invalid", "packet", "other"}]
      BY <1>2, <1>4
    <2>3. UNCHANGED <<script, toServer, clientVars, daemon, addrs>>
      OBVIOUS
    <2> HIDE DEF ServerNextIs
    <2>4. QED
      BY <1>0, <2>1, <2>2, <2>3 DEF TypeOK, clientVars
  <1>7. sevent'[s] = n
    BY <1>0 DEF TypeOK
  <1>8. SessionInv(s)'
    <2> USE <1>0, <1>1, <1>2, <1>7, PacketRuns, ServerMoves DEF SessionInv, clientVars
    <2>1. ServerCounted(s)' /\ ClientCounted(s)'
      BY DEF ServerCounted, BeforeRun, Stopped
    <2>2. Greeted(s)' /\ Synced(s)'
      BY DEF Greeted, Synced
    <2>3. InBatch(s)'
      <3>1. SUFFICES ASSUME client[s] \in {"next", "run", "wait_done"}, clast[s] = "packet"
                     PROVE  InBatch(s)'
        BY DEF InBatch
      <3>2. PICK b \in 1..cnum[s] : /\ \A e \in b..cnum[s] : Packet(s, e)
                                   /\ AllRunUpTo(s, b - 1) /\ BeingRun(s, b)
        BY <3>1
      <3>3. EndsWith(toClient'[s], Done(snum[s], "OK"))
        <4>1. OnlyWarnings(toClient[s]) /\ toClient[s] \in Seq(Messages)
          BY <3>2, Ranges DEF BeingRun
        <4>2. QED
          BY <1>3, <1>4, <3>1, <4>1, Warnings DEF ClientOpen
      <3>4. PICK m \in Nat : m = snum[s]
        OBVIOUS
      <3>5. m \in b..Events(s) /\ \A e \in b..m : Packet(s, e)
        BY <3>2, <3>4 DEF BeingRun
      <3>6. PastBatch(s, m)'
        BY <3>4 DEF PastBatch, Stopped
      <3>7. HasRun(s, b, m)'
        BY <3>3, <3>4, <3>5, <3>6 DEF HasRun
      <3>8. AllRunUpTo(s, b - 1)' /\ \A e \in b..cnum'[s] : Packet(s, e)'
        BY <3>2 DEF AllRunUpTo
      <3>9. QED
        BY <3>5, <3>7, <3>8 DEF InBatch
    <2>4. Ordered(s)'
      BY DEF Ordered, AllRunUpTo
    <2>5. Queued(s)'
      BY DEF Queued, HelloNext
    <2>6. QED
      BY <2>1, <2>2, <2>3, <2>4, <2>5
  <1>9. QED
    BY <1>5, <1>6, <1>8, OneSession

LEMMA ServerNextEventStep ==
  ASSUME IInv, NEW s \in Sessions, ServerNextEvent(s) PROVE IInv'
  <1>0. /\ TypeOK /\ daemon = "up" /\ server[s] = "next" /\ sevent[s] = snum[s]
        /\ snum[s] \in Nat /\ snum[s] <= Events(s) /\ serror[s] = "none"
    BY Ranges DEF IInv, SessionInv, ServerCounted, ServerNextEvent, ServerAt, Stopped
  <1>1. PICK n \in Nat : n = snum[s] + 1
    BY <1>0
  <1>2. ServerNextIs(s, n) /\ Kind(s, n) \in {"packet", "other", "backward", "end"}
    BY <1>0, <1>1, ScriptFacts DEF ServerNextIs, ServerNextEvent
  <1>3. CASE Kind(s, n) = "backward"
    <2>1. /\ server' = [server EXCEPT ![s] = "free"]
          /\ serror' = [serror EXCEPT ![s] = "script"] /\ UNCHANGED <<toClient, snum, slast>>
      BY <1>0, <1>1, <1>3 DEF ServerNextEvent, StopServer, ServerBatchStarts
    <2>2. QED
      BY <1>2, <1>3, <2>1, ServerPauses
  <1>4. CASE ServerBatchStarts(s, Kind(s, n))
    <2>1. /\ server' = [server EXCEPT ![s] = "wait_start"] /\ serror' = serror
          /\ UNCHANGED <<toClient, snum, slast>> /\ slast[s] # "packet" /\ Packet(s, n)
      BY <1>0, <1>1, <1>4 DEF ServerNextEvent, ServerBatchStarts, Packet
    <2>2. serror' = [serror EXCEPT ![s] = "none"]
      BY <1>0, <2>1 DEF TypeOK
    <2>3. QED
      BY <1>2, <2>1, <2>2, ServerPauses
  <1>5. CASE Kind(s, n) # "backward" /\ ~ServerBatchStarts(s, Kind(s, n))
    <2>1. /\ IF ServerBatchOver(s, Kind(s, n))
             THEN SendToClient(s, <<Done(snum[s], "OK")>>)
             ELSE UNCHANGED toClient
          /\ IF Kind(s, n) = "end"
             THEN StopServer(s, "none") /\ UNCHANGED <<snum, slast>>
             ELSE ServerEventBegins(s, n) /\ UNCHANGED serror
      BY <1>0, <1>1, <1>5 DEF ServerNextEvent
    <2>2. CASE ServerBatchOver(s, Kind(s, n))
      BY <1>2, <2>1, <2>2, ServerBatchOverStep
    <2>3. CASE Kind(s, n) = "packet"
      <3>1. slast[s] = "packet" /\ ~ServerBatchOver(s, Kind(s, n))
        BY <1>5, <2>3 DEF ServerBatchStarts, ServerBatchOver
      <3>2. QED
        BY <1>2, <2>1, <2>3, <3>1, ServerBatchGoesOnStep
    <2>4. CASE Kind(s, n) = "other" /\ slast[s] # "packet"
      BY <1>2, <2>1, <2>4, ServerPassesStep DEF ServerBatchOver
    <2>5. CASE Kind(s, n) = "end" /\ slast[s] # "packet"
      <3>1. /\ server' = [server EXCEPT ![s] = "free"]
            /\ serror' = [serror EXCEPT ![s] = "none"] /\ UNCHANGED <<toClient, snum, slast>>
        BY <1>0, <2>1, <2>5 DEF StopServer, ServerBatchOver
      <3>2. QED
        BY <1>2, <2>5, <3>1, ServerPauses
    <2>6. QED
      BY <1>2, <1>5, <2>2, <2>3, <2>4, <2>5 DEF ServerBatchOver
  <1>6. QED
    BY <1>3, <1>4, <1>5

-----------------------------------------------------------------------------
(* The invariant holds, and what follows from it.                          *)

LEMMA IInvIsInductive == IInv /\ [Next]_vars => IInv'
  <1> SUFFICES ASSUME IInv, [Next]_vars PROVE IInv'
    OBVIOUS
  <1>1. ASSUME NEW s \in Sessions, ClientStep(s) \/ ClientDies(s) PROVE IInv'
    BY <1>1, ConnectStep, ClientLeavesQuietly, ClientInitStep, ReceiveServerReadyStep,
       SendClientStartingStep, ClientNextEventStep, ReceivePacketsDoneStep,
       ClientRunsEventStep, ClientFinishesStep, ClientDiesStep DEF ClientStep
  <1>2. ASSUME NEW s \in Sessions, ServerStep(s) \/ ServerDies(s) PROVE IInv'
    BY <1>2, ReceiveSetUpStep, SetUpSessionStep, SendServerReadyStep, ServerNextEventStep,
       ReceivePacketsStartStep, RunPacketEventStep, ServerReadFailsStep,
       ServerWriteFailsStep, ServerEndStep, ServerDiesStep DEF ServerStep
  <1>3. CASE UNCHANGED vars
    <2>1. TypeOK'
      BY <1>3 DEF IInv, TypeOK, vars, clientVars, serverVars
    <2>2. \A t \in Sessions : Same(t) /\ SessionInv(t)
      BY <1>3 DEF IInv, Same, vars, clientVars, serverVars
    <2>3. \A t \in Sessions : SessionInv(t)'
      BY <1>3, <2>2, Frame DEF vars
    <2>4. QED
      BY <2>1, <2>3 DEF IInv
  <1>4. QED
    BY <1>1, <1>2, <1>3 DEF Next, Finished

LEMMA SpecIInv == Spec => []IInv
  BY InitIInv, IInvIsInductive, PTL DEF Spec

\* Every variable keeps its type, whatever the script: the queues hold protocol
\* messages, and get_next_event() goes at most one past the script.
THEOREM WireTypes == Spec => []TypeOK
  <1>1. IInv => TypeOK
    BY DEF IInv
  <1>2. QED
    BY SpecIInv, <1>1, PTL

\* wire_client_next_event() and wire_server_next_event() count alike, and the
\* checks of the message counts and operations never strike.
THEOREM SidesStayInStep == Spec => []InStep
  <1>1. IInv => InStep
    BY DEF IInv, SessionInv, ClientCounted, ServerCounted, InStep
  <1>2. QED
    BY SpecIInv, <1>1, PTL

\* All events have been executed when the client has passed, and the server's
\* thread has found no fault with any of them.
LEMMA PassedMeansExecuted ==
  ASSUME IInv, NEW s \in Sessions, client[s] = "finish" \/ cexit[s] = "ok"
  PROVE  serror[s] = "none" /\ Executed(s) = 1..Events(s)
  <1>0. TypeOK /\ SessionInv(s) /\ sevent[s] \in Nat
    BY Ranges DEF IInv
  <1>1. /\ cnum[s] = Events(s) /\ cdone[s] = Events(s) /\ InSync(s)
        /\ Events(s) \in Nat
    BY <1>0, ScriptFacts DEF SessionInv, ClientCounted, InSync
  <1>2. AllRunUpTo(s, Events(s)) /\ serror[s] \in {"none", "script"}
    BY <1>0, <1>1 DEF SessionInv, Synced, PastBatch, ServerCounted, Stopped
  <1>3. serror[s] # "script"
    <2>1. SUFFICES ASSUME Kind(s, sevent[s]) = "backward" PROVE FALSE
      BY <1>0 DEF SessionInv, ServerCounted
    <2>2. sevent[s] \in 1..Events(s)
      BY <1>0, <2>1, ScriptFacts
    <2>3. QED
      BY <1>0, <1>1, <2>1, <2>2 DEF SessionInv, ClientCounted
  <1>4. ASSUME NEW e \in 1..Events(s)
        PROVE  IF script[s][e] = "packet" THEN ServerRan(s, e) ELSE ClientRan(s, e)
    <2>1. Kind(s, e) = script[s][e]
      BY <1>0, ScriptFacts
    <2>2. QED
      BY <1>1, <1>2, <2>1 DEF AllRunUpTo, Packet, ServerRan, ClientRan
  <1>5. QED
    BY <1>2, <1>3, <1>4 DEF Executed, Events

\* A client that exits with success was served in full: no thread of the server
\* has stopped early, and no packet is left.
THEOREM PassIsSound == Spec => []VerdictSound
  <1>1. IInv => VerdictSound
    BY PassedMeansExecuted DEF VerdictSound, Events
  <1>2. QED
    BY SpecIInv, <1>1, PTL

\* While a session runs, the device of the server has its gateway address,
\* provided that no two clients configure the same one.
THEOREM GatewayStays ==
  ASSUME \A s, t \in Sessions : Gateway[s] = Gateway[t] => s = t
  PROVE  Spec => []GatewayPresent
  <1> DEFINE Running == {"ready", "wait_starting", "next", "wait_start", "packet"}
  <1>1. Init => GatewayPresent
    BY DEF Init, GatewayPresent
  <1>2. ASSUME TypeOK, GatewayPresent, [Next]_vars PROVE GatewayPresent'
    <2>1. CASE daemon' # "up"
      BY <2>1 DEF GatewayPresent
    <2>2. CASE daemon' = daemon /\ server' = server /\ addrs' = addrs
      BY <1>2, <2>2 DEF GatewayPresent
    <2>3. ASSUME NEW s \in Sessions, ClientStep(s) \/ ClientDies(s) PROVE GatewayPresent'
      <3>1. CASE Connect(s)
        BY <1>2, <3>1 DEF Connect, TypeOK, GatewayPresent
      <3>2. CASE ~Connect(s)
        BY <2>2, <2>3, <3>2 DEF ClientStep, ConnectFails, ClientInit, ReceiveServerReady,
           SendClientStarting, ClientNextEvent, ReceivePacketsDone, ClientRunsEvent,
           ClientFinishes, ClientReadFails, ClientWriteFails, ClientDies, serverVars
      <3>3. QED
        BY <3>1, <3>2
    <2>4. ASSUME NEW s \in Sessions, ServerStep(s) PROVE GatewayPresent'
      <3> USE <1>2
      <3>1. CASE ReceiveSetUp(s)
        <4>1. PICK pc \in {"path", "script", "hwaddr", "setup", "next", "close", "free"} :
                server' = [server EXCEPT ![s] = pc] /\ (pc = "next" => server[s] = "wait_starting")
          BY <3>1 DEF ReceiveSetUp, StopServer, SetUpOp, AfterSetUpOp
        <4>2. UNCHANGED <<daemon, addrs>>
          BY <3>1 DEF ReceiveSetUp
        <4>3. QED
          BY <4>1, <4>2 DEF GatewayPresent, TypeOK
      <3>2. CASE SetUpSession(s)
        BY <3>2 DEF SetUpSession, StopServer, GatewayPresent, TypeOK
      <3>3. CASE FreeSession(s)
        <4>1. \A t \in Sessions \ {s} : Gateway[t] # Gateway[s]
          OBVIOUS
        <4>2. server'[s] = "close" /\ \A t \in Sessions \ {s} : server'[t] = server[t]
          BY <3>3 DEF FreeSession, TypeOK
        <4>3. addrs' = addrs \ {Gateway[s]} /\ daemon' = daemon
          BY <3>3 DEF FreeSession
        <4>4. QED
          BY <4>1, <4>2, <4>3 DEF GatewayPresent
      <3>4. CASE \/ SendServerReady(s) \/ ServerNextEvent(s) \/ ReceivePacketsStart(s)
                 \/ RunPacketEvent(s)
        <4>1. server[s] \in Running /\ UNCHANGED <<daemon, addrs>>
          BY <3>4 DEF SendServerReady, ServerNextEvent, ReceivePacketsStart, RunPacketEvent,
             ServerAt
        <4>2. \A t \in Sessions \ {s} : server'[t] = server[t]
          <5>1. CASE SendServerReady(s)
            BY <5>1 DEF SendServerReady, StopServer, TypeOK
          <5>2. CASE ServerNextEvent(s)
            BY <5>2 DEF ServerNextEvent, ServerEventBegins, StopServer, TypeOK
          <5>3. CASE ReceivePacketsStart(s)
            BY <5>3 DEF ReceivePacketsStart, ServerEventBegins, StopServer, TypeOK
          <5>4. CASE RunPacketEvent(s)
            BY <5>4 DEF RunPacketEvent, StopServer, TypeOK
          <5>5. QED
            BY <3>4, <5>1, <5>2, <5>3, <5>4
        <4>3. QED
          BY <4>1, <4>2 DEF GatewayPresent
      <3>5. CASE ServerReadFails(s) \/ ServerWriteFails(s) \/ CloseConnection(s)
        <4>1. /\ addrs' = addrs /\ \A t \in Sessions \ {s} : server'[t] = server[t]
              /\ server'[s] \in {"close", "closed", "free"} \/ daemon' = "killed"
          BY <3>5 DEF ServerReadFails, ServerWriteFails, CloseConnection, StopServer, TypeOK
        <4>2. daemon' = daemon \/ daemon' = "killed"
          BY <3>5 DEF ServerReadFails, ServerWriteFails, CloseConnection
        <4>3. QED
          BY <4>1, <4>2 DEF GatewayPresent
      <3>6. QED
        BY <2>4, <3>1, <3>2, <3>3, <3>4, <3>5 DEF ServerStep
    <2>5. ASSUME NEW s \in Sessions, ServerDies(s) PROVE GatewayPresent'
      BY <2>1, <2>5 DEF ServerDies
    <2>6. CASE UNCHANGED vars
      BY <2>2, <2>6 DEF vars, serverVars
    <2>7. QED
      BY <1>2, <2>3, <2>4, <2>5, <2>6 DEF Next, Finished
  <1>3. QED
    BY WireTypes, <1>1, <1>2, PTL DEF Spec

-----------------------------------------------------------------------------
(* The two machines implement RemoteScript.                                *)

\* What has been executed is the beginning of the script.
InOrder == \A s \in Sessions : \A e \in Executed(s) : \A f \in 1..e - 1 : f \in Executed(s)

LEMMA ExecutedInOrder == IInv => InOrder
  <1> SUFFICES ASSUME IInv, NEW s \in Sessions, NEW e \in Executed(s), NEW f \in 1..e - 1
               PROVE  f \in Executed(s)
    BY DEF InOrder
  <1>0. TypeOK /\ SessionInv(s) /\ Events(s) \in Nat
        /\ sevent[s] \in Nat /\ snum[s] \in Nat /\ cdone[s] \in Nat
    BY Ranges, ScriptFacts DEF IInv
  <1>1. e \in 1..Events(s) /\ f \in 1..Events(s) /\ f < e
    BY <1>0 DEF Executed, Events
  <1>2. \A i \in 1..Events(s) : Kind(s, i) = script[s][i]
    BY <1>0, ScriptFacts
  <1>3. SUFFICES IF Packet(s, f) THEN ServerRan(s, f) ELSE ClientRan(s, f)
    BY <1>1, <1>2 DEF Executed, Packet, Events
  <1>4. CASE Packet(s, e)
    <2>1. ServerRan(s, e)
      BY <1>1, <1>2, <1>4 DEF Executed, Packet
    <2>2. e <= snum[s] /\ e <= sevent[s]
      BY <1>0, <1>1, <1>4, <2>1 DEF ServerRan, SessionInv, ServerCounted
    <2>3. ~Packet(s, f) => f <= cdone[s]
      BY <1>0, <1>1, <1>4, <2>2 DEF SessionInv, Ordered
    <2>4. QED
      BY <1>0, <1>1, <2>2, <2>3 DEF ServerRan, ClientRan
  <1>5. CASE ~Packet(s, e)
    <2>1. e <= cdone[s]
      BY <1>1, <1>2, <1>5 DEF Executed, Packet, ClientRan
    <2>2. AllRunUpTo(s, e - 1)
      BY <1>0, <1>1, <1>5, <2>1 DEF SessionInv, Ordered
    <2>3. QED
      BY <1>0, <1>1, <2>1, <2>2 DEF AllRunUpTo, ServerRan, ClientRan
  <1>6. QED
    BY <1>4, <1>5

\* ... so that a step which executes one more event executes the next one.
LEMMA OneMoreIsNext ==
  ASSUME TypeOK, InOrder, InOrder', NEW s \in Sessions, NEW e \in 1..Events(s),
         e \notin Executed(s), Executed(s)' = Executed(s) \union {e}, script' = script
  PROVE  Executed(s) = 1..(e - 1) /\ Executed(s)' = 1..e
  <1>0. Events(s) \in Nat /\ Executed(s) \subseteq 1..Events(s)
    BY ScriptFacts DEF Executed, Events
  <1>1. \A g \in Executed(s) : g < e
    BY <1>0 DEF InOrder
  <1>2. \A f \in 1..e - 1 : f \in Executed(s)'
    <2>1. e \in Executed(s)'
      OBVIOUS
    <2>2. QED
      BY <2>1 DEF InOrder
  <1>3. \A f \in 1..e - 1 : f # e
    BY <1>0
  <1>4. 1..e - 1 \subseteq Executed(s)
    BY <1>2, <1>3
  <1>5. Executed(s) \subseteq 1..e - 1
    BY <1>0, <1>1
  <1>6. Executed(s) = 1..e - 1
    BY <1>4, <1>5
  <1>7. 1..e = (1..e - 1) \union {e}
    BY <1>0
  <1>8. QED
    BY <1>6, <1>7

\* The part of a session that the abstract variables are made of.
Unseen(t) ==
    /\ script'[t] = script[t] /\ cexit'[t] = cexit[t] /\ cdone'[t] = cdone[t]
    /\ sevent'[t] = sevent[t] /\ (server'[t] = "next" <=> server[t] = "next")

LEMMA UnseenSteps ==
  ASSUME NEW t \in Sessions, Unseen(t)
  PROVE  Executed(t)' = Executed(t) /\ Verdict(t)' = Verdict(t)
  BY DEF Unseen, Executed, ServerRan, ClientRan, Verdict

\* What a step of session s may do to it, in the abstract.
Abstracts(s) ==
    \/ Executed(s)' = Executed(s) /\ Verdict(s)' = Verdict(s)
    \/ /\ Verdict(s)' = Verdict(s) /\ Verdict(s) # "pass"
       /\ \E e \in 1..Events(s) : Executed(s) = 1..(e - 1) /\ Executed(s)' = 1..e
    \/ /\ Executed(s)' = Executed(s) /\ Verdict(s) = "none" /\ Verdict(s)' = "pass"
       /\ Executed(s) = 1..Events(s)
    \/ Executed(s)' = Executed(s) /\ Verdict(s) = "none" /\ Verdict(s)' = "fail"

LEMMA Lift ==
  ASSUME script' = script, NEW s \in Sessions, Abstracts(s),
         \A t \in Sessions \ {s} : Unseen(t)
  PROVE  [Abstract!Next]_(Abstract!vars)
  <1> DEFINE length == [t \in Sessions |-> Len(script[t])]
             executed == [t \in Sessions |-> Executed(t)]
             verdict == [t \in Sessions |-> Verdict(t)]
  <1>1. \A t \in Sessions \ {s} : Executed(t)' = Executed(t) /\ Verdict(t)' = Verdict(t)
    BY UnseenSteps
  <1>2. length' = length
    OBVIOUS
  <1>3. executed' = [executed EXCEPT ![s] = Executed(s)']
    BY <1>1
  <1>4. verdict' = [verdict EXCEPT ![s] = Verdict(s)']
    BY <1>1
  <1>5. /\ Executed(s)' = Executed(s) => executed' = executed
        /\ Verdict(s)' = Verdict(s) => verdict' = verdict
    BY <1>1
  <1>6. length[s] = Events(s) /\ executed[s] = Executed(s) /\ verdict[s] = Verdict(s)
    BY DEF Events
  <1>7. CASE Executed(s)' = Executed(s) /\ Verdict(s)' = Verdict(s)
    BY <1>2, <1>5, <1>7 DEF Abstract!vars
  <1>8. CASE /\ Verdict(s)' = Verdict(s) /\ Verdict(s) # "pass"
             /\ \E e \in 1..Events(s) : Executed(s) = 1..(e - 1) /\ Executed(s)' = 1..e
    <2>1. Abstract!Execute(s)
      BY <1>2, <1>3, <1>5, <1>6, <1>8 DEF Abstract!Execute
    <2>2. QED
      BY <2>1 DEF Abstract!Next
  <1>9. CASE /\ Executed(s)' = Executed(s) /\ Verdict(s) = "none" /\ Verdict(s)' = "pass"
             /\ Executed(s) = 1..Events(s)
    <2>1. Abstract!Pass(s)
      BY <1>2, <1>4, <1>5, <1>6, <1>9 DEF Abstract!Pass
    <2>2. QED
      BY <2>1 DEF Abstract!Next
  <1>10. CASE Executed(s)' = Executed(s) /\ Verdict(s) = "none" /\ Verdict(s)' = "fail"
    <2>1. Abstract!Fail(s)
      BY <1>2, <1>4, <1>5, <1>6, <1>10 DEF Abstract!Fail
    <2>2. QED
      BY <2>1 DEF Abstract!Next
  <1>11. QED
    BY <1>7, <1>8, <1>9, <1>10 DEF Abstracts

LEMMA ClientImplements ==
  ASSUME IInv, InOrder, InOrder', NEW s \in Sessions, ClientStep(s) \/ ClientDies(s)
  PROVE  [Abstract!Next]_(Abstract!vars)
  <1> USE DEF ExitClient
  <1>0. TypeOK /\ SessionInv(s)
    BY DEF IInv
  <1>1. script' = script /\ sevent' = sevent
    BY DEF ClientStep, Connect, ConnectFails, ClientInit, ReceiveServerReady,
       SendClientStarting, ClientNextEvent, ReceivePacketsDone, ClientRunsEvent,
       ClientFinishes, ClientReadFails, ClientWriteFails, ClientDies, serverVars
  <1>2. \A t \in Sessions : server'[t] = "next" <=> server[t] = "next"
    BY <1>0 DEF ClientStep, Connect, ConnectFails, ClientInit, ReceiveServerReady,
       SendClientStarting, ClientNextEvent, ReceivePacketsDone, ClientRunsEvent,
       ClientFinishes, ClientReadFails, ClientWriteFails, ClientDies, serverVars,
       TypeOK, SessionInv, Greeted, ClientAt
  <1>3. \A t \in Sessions \ {s} : cexit'[t] = cexit[t] /\ cdone'[t] = cdone[t]
    BY <1>0 DEF ClientStep, Connect, ConnectFails, ClientInit, ReceiveServerReady,
       SendClientStarting, ClientNextEvent, ReceivePacketsDone, ClientRunsEvent,
       ClientFinishes, ClientReadFails, ClientWriteFails, ClientDies, TypeOK
  <1>4. \A t \in Sessions \ {s} : Unseen(t)
    BY <1>1, <1>2, <1>3 DEF Unseen
  <1>5. CASE ClientRunsEvent(s)
    <2>1. /\ cevent[s] = cnum[s] /\ cdone[s] + 1 = cnum[s] /\ cnum[s] <= Events(s)
          /\ cnum[s] \in Nat /\ cdone[s] \in Nat /\ Events(s) \in Nat
          /\ cexit[s] = "none"
      BY <1>0, <1>5, Ranges, ScriptFacts
         DEF SessionInv, ClientCounted, ClientRunsEvent, ClientAt
    <2>2. PICK e \in 1..Events(s) : e = cnum[s]
      BY <2>1
    <2>3. cdone'[s] = e /\ cexit' = cexit /\ server' = server
      BY <1>0, <1>5, <2>1, <2>2 DEF ClientRunsEvent, TypeOK, serverVars
    <2>4. Verdict(s)' = Verdict(s) /\ Verdict(s) = "none"
      BY <2>1, <2>3 DEF Verdict
    <2>5. CASE script[s][e] = "packet"
      <3>1. Executed(s)' = Executed(s)
        BY <1>1, <2>1, <2>2, <2>3, <2>5 DEF Executed, ServerRan, ClientRan, Events
      <3>2. QED
        BY <1>1, <1>4, <2>4, <3>1, Lift DEF Abstracts
    <2>6. CASE script[s][e] # "packet"
      <3>1. e \notin Executed(s) /\ Executed(s)' = Executed(s) \union {e}
        BY <1>1, <2>1, <2>2, <2>3, <2>6 DEF Executed, ServerRan, ClientRan, Events
      <3>2. Executed(s) = 1..(e - 1) /\ Executed(s)' = 1..e
        BY <1>0, <1>1, <3>1, OneMoreIsNext
      <3>3. QED
        BY <1>1, <1>4, <2>4, <3>2, Lift DEF Abstracts
    <2>7. QED
      BY <2>5, <2>6
  <1>6. CASE ~ClientRunsEvent(s)
    <2>1. cdone' = cdone
      BY <1>6 DEF ClientStep, Connect, ConnectFails, ClientInit, ReceiveServerReady,
         SendClientStarting, ClientNextEvent, ReceivePacketsDone, ClientFinishes,
         ClientReadFails, ClientWriteFails, ClientDies
    <2>2. Executed(s)' = Executed(s)
      BY <1>1, <1>2, <2>1 DEF Executed, ServerRan, ClientRan
    <2>3. client[s] # "exited"
      BY <1>6 DEF ClientStep, Connect, ConnectFails, ClientInit, ReceiveServerReady,
         SendClientStarting, ClientNextEvent, ReceivePacketsDone, ClientFinishes,
         ClientReadFails, ClientWriteFails, ClientDies, ClientAt, ClientOpen
    <2>4. cexit[s] = "none" /\ Verdict(s) = "none"
      BY <1>0, <2>3 DEF SessionInv, ClientCounted, Verdict
    <2>5. CASE ClientFinishes(s)
      <3>1. cexit'[s] = "ok" /\ Executed(s) = 1..Events(s)
        BY <1>0, <2>5, PassedMeansExecuted DEF ClientFinishes, ClientAt, TypeOK
      <3>2. Verdict(s)' = "pass"
        BY <3>1 DEF Verdict
      <3>3. QED
        BY <1>1, <1>4, <2>2, <2>4, <3>1, <3>2, Lift DEF Abstracts
    <2>6. CASE ~ClientFinishes(s)
      <3>1. cexit'[s] = cexit[s] \/ cexit'[s] \notin {"none", "ok"}
        BY <1>0, <1>6, <2>6 DEF ClientStep, Connect, ConnectFails, ClientInit,
           ReceiveServerReady, SendClientStarting, ClientNextEvent, ReceivePacketsDone,
           ClientReadFails, ClientWriteFails, ClientDies, TypeOK
      <3>2. Verdict(s)' = Verdict(s) \/ Verdict(s)' = "fail"
        BY <3>1 DEF Verdict
      <3>3. QED
        BY <1>1, <1>4, <2>2, <2>4, <3>2, Lift DEF Abstracts
    <2>7. QED
      BY <2>5, <2>6
  <1>7. QED
    BY <1>5, <1>6

\* Of the server's steps only those that run a packet execute an event.
LEMMA ServerImplements ==
  ASSUME IInv, InOrder, InOrder', NEW s \in Sessions, ServerStep(s)
  PROVE  [Abstract!Next]_(Abstract!vars)
  <1>0. TypeOK /\ SessionInv(s) /\ Events(s) \in Nat /\ daemon = "up"
        /\ snum[s] \in Nat /\ sevent[s] \in Nat
    BY Ranges, ScriptFacts DEF IInv, ServerStep, ReceiveSetUp, SetUpSession, SendServerReady,
       ServerNextEvent, ReceivePacketsStart, RunPacketEvent, ServerReadFails,
       ServerWriteFails, FreeSession, CloseConnection, ServerAt
  <1>1. UNCHANGED <<script, clientVars>>
    BY DEF ServerStep, ReceiveSetUp, SetUpSession, SendServerReady, ServerNextEvent,
       ReceivePacketsStart, RunPacketEvent, ServerReadFails, ServerWriteFails, FreeSession,
       CloseConnection
  <1>2. \A t \in Sessions \ {s} : server'[t] = server[t] /\ sevent'[t] = sevent[t]
    <2> USE <1>0 DEF TypeOK, StopServer
    <2>1. CASE ReceiveSetUp(s) \/ SetUpSession(s)
      BY <2>1 DEF ReceiveSetUp, SetUpSession
    <2>2. CASE SendServerReady(s) \/ ReceivePacketsStart(s)
      BY <2>2 DEF SendServerReady, ReceivePacketsStart, ServerEventBegins
    <2>3. CASE ServerNextEvent(s)
      BY <2>3 DEF ServerNextEvent, ServerEventBegins
    <2>4. CASE RunPacketEvent(s)
      BY <2>4 DEF RunPacketEvent
    <2>5. CASE \/ ServerReadFails(s) \/ ServerWriteFails(s) \/ FreeSession(s)
               \/ CloseConnection(s)
      BY <2>5 DEF ServerReadFails, ServerWriteFails, FreeSession, CloseConnection
    <2>6. QED
      BY <2>1, <2>2, <2>3, <2>4, <2>5 DEF ServerStep
  <1>3. \A t \in Sessions \ {s} : Unseen(t)
    BY <1>1, <1>2 DEF Unseen, clientVars
  <1>4. Verdict(s)' = Verdict(s) /\ cdone' = cdone
    BY <1>1 DEF Verdict, clientVars
  <1>5. \A i \in 1..Events(s) : Kind(s, i) = script[s][i]
    BY <1>0, ScriptFacts
  <1>6. SUFFICES \/ Executed(s)' = Executed(s)
                 \/ \E e \in 1..Events(s) :
                       e \notin Executed(s) /\ Executed(s)' = Executed(s) \union {e}
    <2>1. CASE Executed(s)' = Executed(s)
      BY <1>1, <1>3, <1>4, <2>1, Lift DEF Abstracts
    <2>2. ASSUME NEW e \in 1..Events(s),
                 e \notin Executed(s), Executed(s)' = Executed(s) \union {e}
          PROVE  [Abstract!Next]_(Abstract!vars)
      <3>1. Executed(s) = 1..(e - 1) /\ Executed(s)' = 1..e
        BY <1>0, <1>1, <2>2, OneMoreIsNext
      <3>2. Verdict(s) # "pass"
        <4>1. cexit[s] # "ok"
          BY <2>2, PassedMeansExecuted
        <4>2. QED
          BY <4>1 DEF Verdict
      <3>3. QED
        BY <1>1, <1>3, <1>4, <3>1, <3>2, Lift DEF Abstracts
    <2>3. QED
      BY <1>6, <2>1, <2>2
  <1>7. CASE RunPacketEvent(s)
    <2>1. /\ server[s] = "packet" /\ sevent' = sevent /\ server'[s] \in {"next", "free"}
      BY <1>0, <1>7 DEF RunPacketEvent, ServerAt, StopServer, TypeOK
    <2>2. PICK e \in Nat : e = sevent[s]
      BY <1>0
    <2>3. e \in 1..Events(s) /\ script[s][e] = "packet"
      <3>1. Kind(s, e) = "packet"
        BY <1>0, <2>1, <2>2 DEF SessionInv, ServerCounted
      <3>2. QED
        BY <1>0, <1>5, <3>1, ScriptFacts
    <2>4. CASE server'[s] = "free"
      BY <1>1, <1>4, <2>1, <2>4 DEF Executed, ServerRan, ClientRan
    <2>5. CASE server'[s] = "next"
      BY <1>0, <1>1, <1>4, <2>1, <2>2, <2>3, <2>5 DEF Executed, ServerRan, ClientRan, Events
    <2>6. QED
      BY <2>1, <2>4, <2>5
  <1>8. CASE ServerNextEvent(s) \/ ServerWriteFails(s)
    <2>1. \A i \in 1..Events(s) : script[s][i] = "packet" =>
             (ServerRan(s, i)' <=> ServerRan(s, i))
      <3>1. CASE sevent' = sevent
        <4>1. server[s] = "packet" /\ server'[s] # "next"
          BY <1>0, <1>8, <3>1 DEF ServerNextEvent, ServerWriteFails, ServerAt, StopServer, TypeOK
        <4>2. QED
          BY <3>1, <4>1 DEF ServerRan
      <3>2. CASE sevent' # sevent
        <4>1. PICK n \in Nat : n = sevent[s] + 1
          BY <1>0
        <4>2. server[s] = "next" /\ sevent'[s] = n
          BY <1>0, <1>8, <3>2, <4>1 DEF ServerNextEvent, ServerWriteFails, ServerAt, TypeOK
        <4>3. server'[s] = "next" => ~Packet(s, n)
          BY <1>0, <1>8, <3>2, <4>1
             DEF ServerNextEvent, ServerWriteFails, ServerAt, TypeOK, StopServer,
                 ServerEventBegins, ServerBatchOver, Packet
        <4>4. QED
          BY <1>0, <1>5, <4>1, <4>2, <4>3 DEF ServerRan, Packet
      <3>3. QED
        BY <3>1, <3>2
    <2>2. QED
      BY <1>1, <1>4, <2>1 DEF Executed, ClientRan, Events
  <1>9. CASE ~RunPacketEvent(s) /\ ~ServerNextEvent(s) /\ ~ServerWriteFails(s)
    <2>1. sevent' = sevent /\ server[s] # "next"
      BY <1>9 DEF ServerStep, ReceiveSetUp, SetUpSession, SendServerReady, SetUpOp,
         ReceivePacketsStart, ServerReadFails, FreeSession, CloseConnection, ServerAt
    <2>2. server'[s] = "next" => server[s] = "wait_starting"
      <3>1. CASE ReceivePacketsStart(s)
        <4>1. server[s] = "wait_start" /\ Kind(s, sevent[s]) = "packet"
          BY <1>0, <3>1 DEF ReceivePacketsStart, ServerAt, SessionInv, ServerCounted, Packet
        <4>2. QED
          BY <1>0, <3>1, <4>1 DEF ReceivePacketsStart, ServerEventBegins, StopServer, TypeOK
      <3>2. CASE ~ReceivePacketsStart(s)
        BY <1>0, <1>9, <3>2 DEF ServerStep, ReceiveSetUp, SetUpSession, SendServerReady,
           SetUpOp, AfterSetUpOp, ServerReadFails, FreeSession, CloseConnection, ServerAt,
           StopServer, TypeOK
      <3>3. QED
        BY <3>1, <3>2
    <2>3. server'[s] = "next" => sevent[s] = 0
      BY <1>0, <2>2 DEF SessionInv, ServerCounted, BeforeRun
    <2>4. QED
      BY <1>1, <1>4, <2>1, <2>3 DEF Executed, ServerRan, ClientRan, Events
  <1>10. QED
    BY <1>7, <1>8, <1>9

LEMMA StepImplements ==
  ASSUME IInv, InOrder, InOrder', [Next]_vars PROVE [Abstract!Next]_(Abstract!vars)
  <1>1. ASSUME NEW s \in Sessions, ServerDies(s) PROVE [Abstract!Next]_(Abstract!vars)
    BY <1>1 DEF ServerDies, Abstract!vars, Executed, ServerRan, ClientRan, Verdict,
       clientVars, serverVars
  <1>2. CASE UNCHANGED vars
    BY <1>2 DEF vars, Abstract!vars, Executed, ServerRan, ClientRan, Verdict,
       clientVars, serverVars
  <1>3. QED
    BY <1>1, <1>2, ClientImplements, ServerImplements DEF Next, Finished

LEMMA InitImplements == Init => Abstract!Init
  <1> SUFFICES ASSUME Init PROVE Abstract!Init
    OBVIOUS
  <1>1. TypeOK
    BY InitIInv DEF IInv
  <1>2. \A s \in Sessions : Len(script[s]) \in Nat \ {0}
    <2>1. ASSUME NEW s \in Sessions PROVE Len(script[s]) \in Nat \ {0}
      <3>1. Events(s) \in Nat /\ Events(s) >= 1
        BY <1>1, ScriptFacts
      <3>2. QED
        BY <3>1 DEF Events
    <2>2. QED
      BY <2>1
  <1>3. \A s \in Sessions : Executed(s) = {} /\ Verdict(s) = "none"
    <2>1. ASSUME NEW s \in Sessions PROVE Executed(s) = {} /\ Verdict(s) = "none"
      <3>1. /\ cdone[s] = 0 /\ sevent[s] = 0 /\ server[s] = "none" /\ cexit[s] = "none"
            /\ Len(script[s]) \in Nat
        BY <1>2 DEF Init
      <3>2. Executed(s) = {}
        BY <3>1 DEF Executed, ServerRan, ClientRan
      <3>3. QED
        BY <3>1, <3>2 DEF Verdict
    <2>2. QED
      BY <2>1
  <1>4. QED
    BY <1>2, <1>3 DEF Abstract!Init

\* The events of every session are executed one after the other in the order of
\* its script, though client and server run ahead of each other, and a test
\* passes only when all have been: WireProtocol implements RemoteScript.
THEOREM WireImplementsRemoteScript == Spec => ExecutesInOrder
  BY SpecIInv, ExecutedInOrder, StepImplements, InitImplements, PTL
     DEF Spec, ExecutesInOrder
=============================================================================
