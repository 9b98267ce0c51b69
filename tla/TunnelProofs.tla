---------------------------- MODULE TunnelProofs ----------------------------
(***************************************************************************)
(* Proofs about Tunnel, for any number of starts of the service, attempts, *)
(* datagrams and packets.                                                  *)
(*                                                                         *)
(* The descriptors, the interface and the native threads are global, and   *)
(* nothing in them says whose they are.  IInv ties them to the place of    *)
(* the one session that is in run(): what is open is told by where it is.  *)
(* That a new session's thread starts outside run() depends in turn on the *)
(* sessions being started in order.                                        *)
(***************************************************************************)
EXTENDS Tunnel, TLAPS, FiniteSetTheorems, SequenceTheorems

\* Time for each leaf of a proof, in seconds
USE SMTT(20), ZenonT(40)

\* The sessions started so far come first
StartedInOrder ==
    \A s, t \in Sessions : s < t /\ session[t] # "idle" => session[s] # "idle"

OneInside ==
    \A s, t \in Sessions : session[s] \in Inside /\ session[t] \in Inside => s = t

Down == interface = "null" /\ vpn \in {"none", "closed"}
Up == interface = "open" /\ sock = "open" /\ vpn \in {"open", "revoked"}

\* What is open, by the place of the session that is in run()
OpenByPlace ==
    /\ \A s \in Sessions :
          /\ session[s] \in {"attempt", "probe", "sleep"} => Down
          /\ session[s] = "probe" => sock = "open"
          /\ session[s] \in {"connected", "looping"} => Up
          /\ session[s] = "final" => vpn \in {"none", "closed"}
    /\ (\A s \in Sessions : session[s] \notin Inside) => Down

\* A session goes on only while it has an attempt left
AttemptsLeft ==
    \A s \in Sessions :
        session[s] \in {"idle", "monitor", "attempt", "probe", "sleep"}
            => attempt[s] < MaxAttempts

LoopAlive == InAlive \/ OutAlive => \E s \in Sessions : session[s] = "looping"

\* A datagram that is written has been sent, and is no longer waiting
Handling == IF in \in {"lock", "set", "write"} THEN 1 ELSE 0
TrafficBounded == /\ written + Len(inbox) + Handling <= sent
                  /\ outbox <= offered

IInv == /\ TypeOK /\ StartedInOrder /\ OneInside /\ OpenByPlace
        /\ AttemptsLeft /\ LoopAlive /\ TrafficBounded

-----------------------------------------------------------------------------
LEMMA InitIInv == Init => IInv
  <1> SUFFICES ASSUME Init PROVE IInv
    OBVIOUS
  <1> USE BoundsAssumption
      DEF Init, Sessions, Datagrams, Inside, InAlive, OutAlive
  <1>1. TypeOK
    BY DEF TypeOK
  <1>2. StartedInOrder /\ OneInside /\ OpenByPlace /\ AttemptsLeft /\ LoopAlive
    BY DEF StartedInOrder, OneInside, OpenByPlace, Down, Up, AttemptsLeft,
           LoopAlive
  <1>3. TrafficBounded
    BY DEF TrafficBounded, Handling
  <1>4. QED
    BY <1>1, <1>2, <1>3 DEF IInv

\* The session that onStartCommand() starts has not been started before: as
\* many sessions as have been started are the first ones.
LEMMA NextIsIdle ==
  ASSUME TypeOK, StartedInOrder, Cardinality(Started) < MaxStarts
  PROVE  /\ Cardinality(Started) \in Nat
         /\ Cardinality(Started) + 1 \in Sessions
         /\ session[Cardinality(Started) + 1] = "idle"
         /\ \A t \in Sessions : t <= Cardinality(Started) => session[t] # "idle"
  <1> DEFINE n == Cardinality(Started)
  <1>1. IsFiniteSet(Started) /\ n \in Nat
    <2>1. IsFiniteSet(Sessions)
      BY FS_Interval, BoundsAssumption DEF Sessions
    <2>2. Started \in SUBSET Sessions
      BY DEF Started
    <2>3. QED
      BY <2>1, <2>2, FS_Subset, FS_CardinalityType
  <1>2. n + 1 \in Sessions
    BY <1>1, BoundsAssumption DEF Sessions
  <1>3. ASSUME session[n + 1] # "idle" PROVE FALSE
    <2>1. 1..n + 1 \in SUBSET Started
      BY <1>1, <1>2, <1>3, BoundsAssumption DEF StartedInOrder, Started, Sessions
    <2>2. Cardinality(1..n + 1) = n + 1
      BY <1>1, FS_Interval
    <2>3. Cardinality(1..n + 1) <= n
      BY <1>1, <2>1, FS_Subset
    <2>4. QED
      BY <1>1, <2>2, <2>3
  <1>4. ASSUME NEW t \in Sessions, t <= n, session[t] = "idle" PROVE FALSE
    <2>1. Started \in SUBSET (1..t - 1)
      BY <1>4, BoundsAssumption DEF StartedInOrder, Started, Sessions
    <2>2. IsFiniteSet(1..t - 1) /\ Cardinality(1..t - 1) = t - 1
      BY FS_Interval, BoundsAssumption DEF Sessions
    <2>3. n <= t - 1
      BY <2>1, <2>2, FS_Subset
    <2>4. QED
      BY <1>1, <1>4, <2>3, BoundsAssumption DEF Sessions
  <1>5. QED
    BY <1>1, <1>2, <1>3, <1>4

\* A new session and an interrupt leave alone what the others have.
LEMMA ServiceStep == IInv /\ Service => IInv'
  <1> SUFFICES ASSUME IInv, Service PROVE IInv'
    OBVIOUS
  <1> USE BoundsAssumption
      DEF IInv, TypeOK, StartedInOrder, OneInside, OpenByPlace, Down, Up,
          AttemptsLeft, LoopAlive, TrafficBounded, Handling, InAlive, OutAlive,
          Inside, javaVars, fdVars, trafficVars
  <1>1. CASE OnStartCommand
    <2> DEFINE s == Cardinality(Started) + 1
    <2>1. s \in Sessions /\ session[s] = "idle"
      BY <1>1, NextIsIdle DEF OnStartCommand
    <2>2. session' = [session EXCEPT ![s] = "monitor"]
      BY <1>1 DEF OnStartCommand, Goto
    <2>3. interrupted' \in [Sessions -> BOOLEAN]
      BY <1>1 DEF OnStartCommand, Interrupt
    <2>4. UNCHANGED <<attempt, interface, fdVars, running, lock, in, out,
                      trafficVars>>
      BY <1>1 DEF OnStartCommand
    <2>5. \A t \in Sessions : t < s => session[t] # "idle"
      BY <1>1, NextIsIdle DEF OnStartCommand, Sessions
    <2> HIDE DEF s
    <2>6. TypeOK'
      <3>1. session' \in [Sessions -> Inside \union {"idle", "monitor", "exited"}]
        BY <2>1, <2>2
      <3>2. QED
        BY <2>3, <2>4, <3>1
    <2>7. StartedInOrder'
      BY <2>1, <2>2, <2>5 DEF Sessions
    <2>8. OneInside' /\ AttemptsLeft'
      BY <2>1, <2>2, <2>4
    <2>9. OpenByPlace'
      BY <2>1, <2>2, <2>4
    <2>10. LoopAlive'
      BY <2>1, <2>2, <2>4
    <2>11. TrafficBounded'
      BY <2>4
    <2>12. QED
      BY <2>6, <2>7, <2>8, <2>9, <2>10, <2>11
  <1>2. CASE OnDestroy
    <2>1. interrupted' \in [Sessions -> BOOLEAN]
      BY <1>2 DEF OnDestroy, Interrupt
    <2>2. UNCHANGED <<session, attempt, interface, fdVars, running, lock, in,
                      out, trafficVars>>
      BY <1>2 DEF OnDestroy
    <2>3. QED
      BY <2>1, <2>2
  <1>3. CASE OnRevoke
    <2>1. vpn = "open" /\ vpn' = "revoked" /\ running' = FALSE
      BY <1>3 DEF OnRevoke
    <2>2. UNCHANGED <<session, attempt, interrupted, interface, sock, lock, in,
                      out, trafficVars>>
      BY <1>3 DEF OnRevoke
    <2>3. TypeOK' /\ StartedInOrder' /\ OneInside' /\ AttemptsLeft'
      <3>1. TypeOK'
        BY <2>1, <2>2
      <3>2. StartedInOrder' /\ OneInside'
        BY <2>1, <2>2
      <3>3. AttemptsLeft'
        BY <2>1, <2>2
      <3>4. QED
        BY <3>1, <3>2, <3>3
    <2>4. OpenByPlace'
      BY <2>1, <2>2
    <2>5. LoopAlive' /\ TrafficBounded'
      BY <2>2
    <2>6. QED
      BY <2>3, <2>4, <2>5
  <1>4. QED
    BY <1>1, <1>2, <1>3 DEF Service

\* A step of a session: the others are outside run() and stay there.
LEMMA SessionKeepsIInv ==
  ASSUME IInv, NEW s \in Sessions, SessionStep(s)
  PROVE  IInv'
  <1> USE BoundsAssumption
      DEF IInv, TypeOK, StartedInOrder, OneInside, OpenByPlace, Down, Up,
          AttemptsLeft, LoopAlive, TrafficBounded, Handling, InAlive, OutAlive,
          Inside, Goto, javaVars, fdVars, trafficVars
  <1>1. CASE EnterRun(s)
    BY <1>1 DEF EnterRun
  <1>2. CASE GetTunnelSock(s)
    <2>1. TypeOK'
      <3>1. session' \in [Sessions -> Inside \union {"idle", "monitor", "exited"}]
        BY <1>2 DEF GetTunnelSock
      <3>2. sock' = "open" /\ UNCHANGED <<attempt, interrupted, interface, vpn,
                                         running, lock, in, out, trafficVars>>
        BY <1>2 DEF GetTunnelSock
      <3>3. QED
        BY <3>1, <3>2
    <2>2. StartedInOrder' /\ OneInside'
      BY <1>2 DEF GetTunnelSock
    <2>3. OpenByPlace'
      BY <1>2 DEF GetTunnelSock
    <2>4. AttemptsLeft'
      BY <1>2 DEF GetTunnelSock
    <2>5. LoopAlive' /\ TrafficBounded'
      BY <1>2 DEF GetTunnelSock
    <2>6. QED
      BY <2>1, <2>2, <2>3, <2>4, <2>5
  <1>3. CASE Connected(s)
    BY <1>3 DEF Connected
  <1>4. CASE NotConnected(s)
    BY <1>4 DEF NotConnected
  <1>5. CASE NotPrepared(s)
    BY <1>5 DEF NotPrepared
  <1>6. CASE SleepAndRetry(s)
    <2>1. CASE interrupted[s]
      <3>1. TypeOK'
        <4>1. session' \in [Sessions -> Inside \union {"idle", "monitor", "exited"}]
          BY <1>6, <2>1 DEF SleepAndRetry
        <4>2. interrupted' \in [Sessions -> BOOLEAN]
          BY <1>6, <2>1 DEF SleepAndRetry
        <4>3. UNCHANGED <<attempt, interface, fdVars, running, lock, in, out,
                          trafficVars>>
          BY <1>6, <2>1 DEF SleepAndRetry
        <4>4. QED
          BY <4>1, <4>2, <4>3
      <3>2. StartedInOrder' /\ OneInside'
        BY <1>6, <2>1 DEF SleepAndRetry
      <3>3. OpenByPlace'
        BY <1>6, <2>1 DEF SleepAndRetry
      <3>4. AttemptsLeft'
        BY <1>6, <2>1 DEF SleepAndRetry
      <3>5. LoopAlive' /\ TrafficBounded'
        BY <1>6, <2>1 DEF SleepAndRetry
      <3>6. QED
        BY <3>1, <3>2, <3>3, <3>4, <3>5
    <2>2. CASE ~interrupted[s]
      <3>1. /\ session[s] = "sleep" /\ attempt[s] + 1 \in 0..MaxAttempts
            /\ attempt' = [attempt EXCEPT ![s] = attempt[s] + 1]
            /\ session' \in {[session EXCEPT ![s] = "final"],
                             [session EXCEPT ![s] = "attempt"]}
            /\ session'[s] = "attempt" => attempt[s] + 1 < MaxAttempts
            /\ UNCHANGED <<interrupted, interface, fdVars, running, lock, in,
                           out, trafficVars>>
        BY <1>6, <2>2 DEF SleepAndRetry
      <3>2. TypeOK'
        BY <3>1
      <3>3. AttemptsLeft'
        <4>1. CASE session' = [session EXCEPT ![s] = "final"]
          BY <3>1, <4>1
        <4>2. CASE session' = [session EXCEPT ![s] = "attempt"]
          BY <3>1, <4>2
        <4>3. QED
          BY <3>1, <4>1, <4>2
      <3>4. StartedInOrder' /\ OneInside' /\ LoopAlive' /\ TrafficBounded'
        BY <3>1
      <3>5. OpenByPlace'
        BY <3>1
      <3>6. QED
        BY <3>2, <3>3, <3>4, <3>5
    <2>3. QED
      BY <2>1, <2>2
  <1>7. CASE ExitRun(s)
    BY <1>7 DEF ExitRun
  <1>8. CASE StartLoop(s)
    BY <1>8 DEF StartLoop
  <1>9. CASE EndLoop(s)
    BY <1>9 DEF EndLoop
  <1>10. QED
    BY <1>1, <1>2, <1>3, <1>4, <1>5, <1>6, <1>7, <1>8, <1>9 DEF SessionStep

\* A step of a native thread or of what is around it: no session moves.
LEMMA NativeKeepsIInv ==
  ASSUME IInv, Incoming \/ Outgoing \/ Environment
  PROVE  IInv'
  <1> USE BoundsAssumption
      DEF IInv, TypeOK, StartedInOrder, OneInside, OpenByPlace, Down, Up,
          AttemptsLeft, LoopAlive, TrafficBounded, Handling, InAlive, OutAlive,
          Inside, Acquire, javaVars, fdVars, trafficVars
  <1>1. CASE InReceive
    BY <1>1 DEF InReceive
  <1>2. CASE InLock
    BY <1>2 DEF InLock
  <1>3. CASE InSetRunning
    BY <1>3 DEF InSetRunning
  <1>4. CASE InUnlock
    BY <1>4 DEF InUnlock
  <1>5. CASE InWrite
    BY <1>5 DEF InWrite
  <1>6. CASE InEnd
    <2>1. TypeOK'
      BY <1>6 DEF InEnd
    <2>2. StartedInOrder' /\ OneInside'
      BY <1>6 DEF InEnd
    <2>3. OpenByPlace'
      BY <1>6 DEF InEnd
    <2>4. AttemptsLeft'
      BY <1>6 DEF InEnd
    <2>5. LoopAlive' /\ TrafficBounded'
      BY <1>6 DEF InEnd
    <2>6. QED
      BY <2>1, <2>2, <2>3, <2>4, <2>5
  <1>7. CASE OutLock
    BY <1>7 DEF OutLock
  <1>8. CASE OutUnlock
    BY <1>8 DEF OutUnlock
  <1>9. CASE OutRead
    BY <1>9 DEF OutRead
  <1>10. CASE OutSend
    BY <1>10 DEF OutSend
  <1>11. CASE OutEnd
    <2>1. TypeOK'
      BY <1>11 DEF OutEnd
    <2>2. StartedInOrder' /\ OneInside'
      BY <1>11 DEF OutEnd
    <2>3. OpenByPlace'
      BY <1>11 DEF OutEnd
    <2>4. AttemptsLeft'
      BY <1>11 DEF OutEnd
    <2>5. LoopAlive' /\ TrafficBounded'
      BY <1>11 DEF OutEnd
    <2>6. QED
      BY <2>1, <2>2, <2>3, <2>4, <2>5
  <1>12. CASE DatagramArrives
    BY <1>12 DEF DatagramArrives
  <1>13. CASE PacketArrives
    BY <1>13 DEF PacketArrives
  <1>14. QED
    BY <1>1, <1>2, <1>3, <1>4, <1>5, <1>6, <1>7, <1>8, <1>9, <1>10, <1>11,
       <1>12, <1>13 DEF Incoming, Outgoing, Environment

-----------------------------------------------------------------------------
\* The invariant holds in every state.
LEMMA SpecIInv == Spec => []IInv
  <1>1. IInv /\ [Next]_vars => IInv'
    <2> SUFFICES ASSUME IInv, [Next]_vars PROVE IInv'
      OBVIOUS
    <2>1. CASE \E s \in Sessions : SessionStep(s)
      BY <2>1, SessionKeepsIInv
    <2>2. CASE Service
      BY <2>2, ServiceStep
    <2>3. CASE Incoming \/ Outgoing \/ Environment
      BY <2>3, NativeKeepsIInv
    <2>4. CASE UNCHANGED vars
      BY <2>4 DEF vars, javaVars, fdVars, trafficVars, IInv, TypeOK,
         StartedInOrder, OneInside, OpenByPlace, Down, Up, AttemptsLeft,
         LoopAlive, TrafficBounded, Handling, InAlive, OutAlive
    <2>5. QED
      BY <2>1, <2>2, <2>3, <2>4 DEF Next
  <1>2. QED
    BY InitIInv, <1>1, PTL DEF Spec

\* Every variable keeps its type: run() makes at most MaxAttempts attempts, and
\* what is written to the VPN was received before.
THEOREM TunnelTypes == Spec => []TypeOK
  <1>1. IInv => TypeOK
    BY DEF IInv
  <1>2. QED
    BY SpecIInv, <1>1, PTL

\* The native threads never use a descriptor that tunnelLoop() or run() has
\* closed.
THEOREM TunnelDescriptorsInUse == Spec => []DescriptorsInUse
  <1>1. IInv => DescriptorsInUse
    BY DEF IInv, LoopAlive, OpenByPlace, Up, DescriptorsInUse
  <1>2. QED
    BY SpecIInv, <1>1, PTL

\* One session at a time has the tunnel, and none keeps the interface when it
\* leaves run(), for any number of sessions.
THEOREM TunnelServesOne == Spec => []TunnelExclusive
  <1>1. IInv => TunnelExclusive
    <2> SUFFICES ASSUME IInv PROVE TunnelExclusive
      OBVIOUS
    <2> DEFINE I == {s \in Sessions : session[s] \in Inside}
    <2>1. Cardinality(I) <= 1
      <3>1. CASE I = {}
        BY <3>1, FS_EmptySet
      <3>2. CASE I # {}
        <4>1. PICK s \in I : TRUE
          BY <3>2
        <4>2. I = {s}
          BY <4>1 DEF IInv, OneInside
        <4>3. QED
          BY <4>2, FS_Singleton
      <3>3. QED
        BY <3>1, <3>2
    <2>2. InAlive \/ OutAlive => \E s \in Sessions : session[s] = "looping"
      BY DEF IInv, LoopAlive
    <2>3. interface = "open" => \E s \in Sessions :
                                   session[s] \in {"connected", "looping", "final"}
      BY DEF IInv, OpenByPlace, Down, Inside
    <2>4. (\A s \in Sessions : session[s] \notin Inside) =>
              interface = "null" /\ vpn \in {"none", "closed"}
      BY DEF IInv, OpenByPlace, Down
    <2>5. QED
      BY <2>1, <2>2, <2>3, <2>4 DEF TunnelExclusive
  <1>2. QED
    BY SpecIInv, <1>1, PTL
=============================================================================
