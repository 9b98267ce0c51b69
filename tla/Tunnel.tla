------------------------------- MODULE Tunnel -------------------------------
(***************************************************************************)
(* The VPN tunnel of the app: the sessions of the Android service          *)
(* (NativeTunnels.java), which try to connect and then hand the VPN's file *)
(* descriptor to native code, and the two native threads that carry        *)
(* packets between that descriptor and the UDP sockets (tunnelLoop(),      *)
(* threadIncoming(), threadOutgoing() in qosmos_native.cpp).               *)
(*                                                                         *)
(* The native state is global and belongs to whichever session is in       *)
(* tunnelLoop().  `running' is read and written with and without the lock, *)
(* so that each of its accesses is a step.  The mutex is a default one: a  *)
(* thread that locks it twice waits for ever.                              *)
(***************************************************************************)
EXTENDS Integers, Sequences, FiniteSets

CONSTANTS
    MaxStarts,      \* how often the service is started
    MaxAttempts,    \* attempts of a session (10 in the code)
    MaxDatagrams,   \* datagrams that the remote end sends
    MaxPackets      \* packets that the device's applications send

ASSUME BoundsAssumption ==
    /\ MaxStarts \in Nat \ {0} /\ MaxAttempts \in Nat \ {0}
    /\ MaxDatagrams \in Nat /\ MaxPackets \in Nat

VARIABLES
    session,        \* where each session's thread is
    attempt,        \* failed attempts of each session
    interrupted,    \* the interrupt status of each session's thread
    interface,      \* mInterface: "null" or "open"
    sock,           \* the seven sockets: "closed" (-1) or "open"
    vpn,            \* the descriptor vpnfd: "none", "open", "closed", or open
                    \* but "revoked" by the system
    running,        \* the global flag
    lock,           \* the holder of the mutex
    in, out,        \* where the two native threads are
    datagram,       \* the datagram that threadIncoming() is handling
    inbox,          \* datagrams that wait in class_zero_sockcs0
    sent,           \* how many datagrams have been sent to it
    outbox,         \* packets that wait in the VPN's descriptor
    offered,        \* how many packets have been written to it
    written         \* how many datagrams have been written to the VPN

javaVars == <<session, attempt, interrupted, interface>>
fdVars == <<sock, vpn>>
trafficVars == <<datagram, inbox, sent, outbox, offered, written>>
vars == <<javaVars, fdVars, running, lock, in, out, trafficVars>>

Sessions == 1..MaxStarts
Datagrams == {"data", "control", "empty"}

Inside == {"attempt", "probe", "connected", "looping", "sleep", "final"}
Started == {s \in Sessions : session[s] # "idle"}

-----------------------------------------------------------------------------
Init ==
    /\ session = [s \in Sessions |-> "idle"]
    /\ attempt = [s \in Sessions |-> 0]
    /\ interrupted = [s \in Sessions |-> FALSE]
    /\ interface = "null"
    /\ sock = "closed" /\ vpn = "none"
    /\ running = TRUE /\ lock = "none"
    /\ in = "none" /\ out = "none"
    /\ datagram = "data" /\ inbox = <<>> /\ sent = 0
    /\ outbox = 0 /\ offered = 0 /\ written = 0

-----------------------------------------------------------------------------
(* The service: onStartCommand(), onDestroy(), onRevoke().                 *)

Goto(s, pc) == session' = [session EXCEPT ![s] = pc]

\* mThread.interrupt(): no effect on a thread that has ended
Interrupt(s) == interrupted' = [interrupted EXCEPT ![s] =
                                    @ \/ session[s] # "exited"]

\* The previous session is interrupted and a thread for a new one started
OnStartCommand ==
    /\ Cardinality(Started) < MaxStarts
    /\ LET s == Cardinality(Started) + 1
       IN /\ Goto(s, "monitor")
          /\ IF s = 1 THEN UNCHANGED interrupted ELSE Interrupt(s - 1)
    /\ UNCHANGED <<attempt, interface, fdVars, running, lock, in, out,
                   trafficVars>>

OnDestroy ==
    /\ Started # {}
    /\ Interrupt(Cardinality(Started))
    /\ UNCHANGED <<session, attempt, interface, fdVars, running, lock, in, out,
                   trafficVars>>

\* tunnelStop(): the flag is cleared without the lock
OnRevoke ==
    /\ vpn = "open"
    /\ vpn' = "revoked"
    /\ running' = FALSE
    /\ UNCHANGED <<javaVars, sock, lock, in, out, trafficVars>>

-----------------------------------------------------------------------------
(* A session: the two run() methods of NativeTunnels.                      *)

\* run() is synchronized
EnterRun(s) ==
    /\ session[s] = "monitor"
    /\ \A t \in Sessions : session[t] \notin Inside
    /\ Goto(s, "attempt")
    /\ UNCHANGED <<attempt, interrupted, interface, fdVars, running, lock, in,
                   out, trafficVars>>

\* getTunnelSock() opens the sockets unless they are still open; protect()
\* may refuse, which ends the session
GetTunnelSock(s) ==
    /\ session[s] = "attempt"
    /\ sock' = "open"
    /\ Goto(s, "probe") \/ Goto(s, "final")
    /\ UNCHANGED <<attempt, interrupted, interface, vpn, running, lock, in, out,
                   trafficVars>>

\* startTunnel() got parameters, and configure() made an interface of them
Connected(s) ==
    /\ session[s] = "probe"
    /\ interface' = "open" /\ vpn' = "open"
    /\ Goto(s, "connected")
    /\ UNCHANGED <<attempt, interrupted, sock, running, lock, in, out,
                   trafficVars>>

\* No answer, or parameters that configure() rejects
NotConnected(s) ==
    /\ session[s] = "probe"
    /\ Goto(s, "sleep")
    /\ UNCHANGED <<attempt, interrupted, interface, fdVars, running, lock, in,
                   out, trafficVars>>

\* establish() gave no interface: mInterface.getFd() throws
NotPrepared(s) ==
    /\ session[s] = "probe"
    /\ Goto(s, "final")
    /\ UNCHANGED <<attempt, interrupted, interface, fdVars, running, lock, in,
                   out, trafficVars>>

\* Seeded faults: one attempt too many; attempts are not counted
OneMoreAttempt(s) ==
    /\ session[s] = "sleep"
    /\ attempt' = [attempt EXCEPT ![s] = @ + 1]
    /\ Goto(s, IF attempt[s] < MaxAttempts THEN "attempt" ELSE "final")
    /\ UNCHANGED <<interrupted, interface, fdVars, running, lock, in, out,
                   trafficVars>>
AttemptsUncounted(s) ==
    /\ session[s] = "sleep"
    /\ Goto(s, "attempt")
    /\ UNCHANGED <<attempt, interrupted, interface, fdVars, running, lock, in,
                   out, trafficVars>>

\* Thread.sleep(3000), which notices an interrupt, and the attempt counter
SleepAndRetry(s) ==
    /\ session[s] = "sleep"
    /\ IF interrupted[s]
       THEN /\ Goto(s, "final")
            /\ interrupted' = [interrupted EXCEPT ![s] = FALSE]
            /\ UNCHANGED attempt
       ELSE /\ attempt' = [attempt EXCEPT ![s] = @ + 1]
            /\ Goto(s, IF attempt[s] + 1 < MaxAttempts THEN "attempt"
                                                       ELSE "final")
            /\ UNCHANGED interrupted
    /\ UNCHANGED <<interface, fdVars, running, lock, in, out, trafficVars>>

\* Seeded fault: the session ends without its finally block
LeaveInterface(s) ==
    /\ session[s] = "final"
    /\ Goto(s, "exited")
    /\ UNCHANGED <<attempt, interrupted, interface, fdVars, running, lock, in,
                   out, trafficVars>>

\* The finally block: the interface is closed, if there is one
ExitRun(s) ==
    /\ session[s] = "final"
    /\ interface' = "null"
    /\ vpn' = IF interface = "open" THEN "closed" ELSE vpn
    /\ Goto(s, "exited")
    /\ UNCHANGED <<attempt, interrupted, sock, running, lock, in, out,
                   trafficVars>>

-----------------------------------------------------------------------------
(* tunnelLoop().                                                           *)

\* The flag is set again, the mutex is initialised, the threads are created
StartLoop(s) ==
    /\ session[s] = "connected"
    /\ running' = TRUE /\ lock' = "none"
    /\ in' = "recv" /\ out' = "lock"
    /\ Goto(s, "looping")
    /\ UNCHANGED <<attempt, interrupted, interface, fdVars, trafficVars>>

\* Seeded fault: only the incoming thread is joined
JoinIncoming(s) ==
    /\ session[s] = "looping" /\ in = "done"
    /\ sock' = "closed" /\ vpn' = "closed"
    /\ inbox' = <<>> /\ outbox' = 0
    /\ Goto(s, "final")
    /\ UNCHANGED <<attempt, interrupted, interface, running, lock, in, out,
                   datagram, sent, offered, written>>

\* Both threads are joined, and all descriptors closed
EndLoop(s) ==
    /\ session[s] = "looping" /\ in = "done" /\ out = "done"
    /\ sock' = "closed" /\ vpn' = "closed"
    /\ inbox' = <<>> /\ outbox' = 0
    /\ Goto(s, "final")
    /\ UNCHANGED <<attempt, interrupted, interface, running, lock, in, out,
                   datagram, sent, offered, written>>

-----------------------------------------------------------------------------
(* threadIncoming().                                                       *)

Acquire(t) == lock = "none" /\ lock' = t

\* recvfrom() has a datagram; after an empty one errno decides, which may
\* still be EAGAIN from an earlier call or not
InReceive ==
    /\ in = "recv" /\ inbox # <<>>
    /\ datagram' = Head(inbox) /\ inbox' = Tail(inbox)
    /\ in' \in IF datagram' = "empty" THEN {"recv", "end"} ELSE {"lock"}
    /\ UNCHANGED <<javaVars, fdVars, running, lock, out, sent, outbox, offered,
                   written>>

InLock ==
    /\ in = "lock" /\ Acquire("in")
    /\ in' = IF running THEN "set" ELSE "unlock_end"
    /\ UNCHANGED <<javaVars, fdVars, running, out, trafficVars>>

\* `running' is set again.  The time since the last packet, of which the code
\* would send a control packet or give up, is that since one line above.
InSetRunning ==
    /\ in = "set"
    /\ running' = TRUE /\ lock' = "none"
    /\ in' = IF datagram = "control" THEN "recv" ELSE "write"
    /\ UNCHANGED <<javaVars, fdVars, out, trafficVars>>

InUnlock ==
    /\ in = "unlock_end"
    /\ lock' = "none" /\ in' = "end"
    /\ UNCHANGED <<javaVars, fdVars, running, out, trafficVars>>

\* write() to the VPN, which may refuse the packet
InWrite ==
    /\ in = "write"
    /\ \/ in' = "recv" /\ written' = written + 1
       \/ in' = "end" /\ UNCHANGED written
    /\ UNCHANGED <<javaVars, fdVars, running, lock, out, datagram, inbox, sent,
                   outbox, offered>>

\* "notify other thread"
InEnd ==
    /\ in = "end"
    /\ running' = FALSE /\ in' = "done"
    /\ UNCHANGED <<javaVars, fdVars, lock, out, trafficVars>>

-----------------------------------------------------------------------------
(* threadOutgoing().  The lock taken at the top of the loop is released    *)
(* only when the tunnel is found stopped.                                  *)

OutLock ==
    /\ out = "lock" /\ Acquire("out")
    /\ out' = IF running THEN "read" ELSE "unlock_end"
    /\ UNCHANGED <<javaVars, fdVars, running, in, trafficVars>>

OutUnlock ==
    /\ out = "unlock_end"
    /\ lock' = "none" /\ out' = "end"
    /\ UNCHANGED <<javaVars, fdVars, running, in, trafficVars>>

\* read() from the VPN: a packet, nothing yet (EAGAIN), or an error
OutRead ==
    /\ out = "read"
    /\ \/ outbox > 0 /\ outbox' = outbox - 1 /\ out' = "send"
       \/ outbox = 0 /\ out' = "lock" /\ UNCHANGED outbox
       \/ vpn = "revoked" /\ out' = "end" /\ UNCHANGED outbox
    /\ UNCHANGED <<javaVars, fdVars, running, lock, in, datagram, inbox, sent,
                   offered, written>>

\* sendto() on the socket of the packet's class, which may fail
OutSend ==
    /\ out = "send"
    /\ out' \in {"lock", "end"}
    /\ UNCHANGED <<javaVars, fdVars, running, lock, in, trafficVars>>

\* "notify other thread"
OutEnd ==
    /\ out = "end"
    /\ running' = FALSE /\ out' = "done"
    /\ UNCHANGED <<javaVars, fdVars, lock, in, trafficVars>>

-----------------------------------------------------------------------------
(* The remote end and the device's applications.                           *)

DatagramArrives ==
    /\ sock = "open" /\ sent < MaxDatagrams
    /\ \E d \in Datagrams : inbox' = Append(inbox, d)
    /\ sent' = sent + 1
    /\ UNCHANGED <<javaVars, fdVars, running, lock, in, out, datagram, outbox,
                   offered, written>>

PacketArrives ==
    /\ vpn = "open" /\ offered < MaxPackets
    /\ outbox' = outbox + 1 /\ offered' = offered + 1
    /\ UNCHANGED <<javaVars, fdVars, running, lock, in, out, datagram, inbox,
                   sent, written>>

-----------------------------------------------------------------------------
SessionStep(s) ==
    \/ EnterRun(s) \/ GetTunnelSock(s) \/ Connected(s) \/ NotConnected(s)
    \/ NotPrepared(s) \/ SleepAndRetry(s) \/ ExitRun(s) \/ StartLoop(s)
    \/ EndLoop(s)

Incoming == InReceive \/ InLock \/ InSetRunning \/ InUnlock \/ InWrite \/ InEnd
Outgoing == OutLock \/ OutUnlock \/ OutRead \/ OutSend \/ OutEnd
Service == OnStartCommand \/ OnDestroy \/ OnRevoke
Environment == DatagramArrives \/ PacketArrives

Next == \/ \E s \in Sessions : SessionStep(s)
        \/ Incoming \/ Outgoing \/ Service \/ Environment

Spec == Init /\ [][Next]_vars

\* The threads are scheduled, and a mutex that is released again and again is
\* got at last
Fairness ==
    /\ \A s \in Sessions : WF_vars(SessionStep(s))
    /\ SF_vars(Incoming) /\ SF_vars(Outgoing)

FairSpec == Spec /\ Fairness

-----------------------------------------------------------------------------
(* Properties.                                                             *)

\* Every variable keeps its type; an attempt counter stays below its bound
\* (the for loop of run()).
TypeOK ==
    /\ session \in [Sessions -> Inside \union {"idle", "monitor", "exited"}]
    /\ attempt \in [Sessions -> 0..MaxAttempts]
    /\ interrupted \in [Sessions -> BOOLEAN]
    /\ interface \in {"null", "open"}
    /\ sock \in {"closed", "open"} /\ vpn \in {"none", "open", "revoked", "closed"}
    /\ running \in BOOLEAN /\ lock \in {"none", "in", "out"}
    /\ in \in {"none", "recv", "lock", "set", "unlock_end", "write", "end",
               "done"}
    /\ out \in {"none", "lock", "read", "send", "unlock_end", "end", "done"}
    /\ datagram \in Datagrams /\ inbox \in Seq(Datagrams)
    /\ sent \in 0..MaxDatagrams /\ written \in 0..MaxDatagrams
    /\ outbox \in 0..MaxPackets /\ offered \in 0..MaxPackets

InAlive == in \notin {"none", "done"}
OutAlive == out \notin {"none", "done"}

\* While a native thread is alive the sockets and the VPN's descriptor that
\* it uses are open: tunnelLoop() closes them only behind both threads, and
\* no start, interrupt or revocation closes them earlier.
DescriptorsInUse == InAlive \/ OutAlive => sock = "open" /\ vpn \in {"open", "revoked"}

\* The global native state serves one session at a time, however often the
\* service is started: the threads that run are those of the one session in
\* tunnelLoop(), the interface is that session's, and when no session is in
\* run() the VPN is down, as nothing keeps its descriptor.
TunnelExclusive ==
    /\ Cardinality({s \in Sessions : session[s] \in Inside}) <= 1
    /\ InAlive \/ OutAlive => \E s \in Sessions : session[s] = "looping"
    /\ interface = "open" => \E s \in Sessions :
                                session[s] \in {"connected", "looping", "final"}
    /\ (\A s \in Sessions : session[s] \notin Inside) =>
            interface = "null" /\ vpn \in {"none", "closed"}

\* A session that is refused or not answered gives up, and never blocks the
\* next one: only a session that loops in native code can do that.
ConnectsOrGivesUp ==
    \A s \in Sessions :
        session[s] = "monitor" ~> \/ session[s] = "exited"
                                  \/ \E t \in Sessions : session[t] = "looping"

\* "write the incoming packets to the VPN socket except the control packets"
\* (qosmos_native.cpp): once it has received a packet, the incoming thread
\* writes it, or the tunnel ends.
IncomingHandled == in = "lock" ~> in # "lock"
=============================================================================
