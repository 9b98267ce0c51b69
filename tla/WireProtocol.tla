---------------------------- MODULE WireProtocol ----------------------------
(***************************************************************************)
(* Remote on-the-wire tests.  A wire client executes the system calls,     *)
(* commands and code of a script on the machine under test, a wire server  *)
(* executes the packets of the same script on another machine, and the two *)
(* keep in step over a TCP connection (wire_client.c, wire_server.c).  One *)
(* server process serves any number of clients, one thread for each.       *)
(*                                                                         *)
(* A step is what a client or a server thread does up to its next read or  *)
(* the end of an event.  Messages are records; a connection is a pair of   *)
(* FIFO queues that drops nothing while both ends are open.                *)
(***************************************************************************)
EXTENDS Integers, Sequences

CONSTANTS
    Sessions,       \* the clients, and the server's thread for each
    MaxEvents,      \* longest script
    Kinds,          \* the kinds of events that scripts are made of
    Gateway,        \* the gateway address of each session's configuration
    Faults          \* what may go wrong in a run

\* "backward" is an event whose time is before that of the one in front of
\* it (or a first event not at time 0); "other" is all that is not a packet.
AllKinds == {"packet", "other", "backward"}

\* The client's process dies (an unexpected result of a system call, say); a
\* packet is not the expected one; the server rejects the script; the server
\* calls die().
AllFaults == {"client_dies", "bad_packet", "parse_fails", "server_dies"}

ASSUME MaxEventsAssumption == MaxEvents \in Nat \ {0}
ASSUME KindsAssumption == Kinds \subseteq AllKinds /\ Kinds # {}
ASSUME FaultsAssumption == Faults \subseteq AllFaults
ASSUME GatewayAssumption == DOMAIN Gateway = Sessions

VARIABLES
    script,     \* the kinds of the events of each session's script
    toServer,   \* messages under way to the server
    toClient,   \* messages under way to the client
    client,     \* where each client is
    cevent,     \* its state->event, as an index into the script
    cnum,       \* wire_client->num_events
    clast,      \* wire_client->last_event_type
    cdone,      \* its state->num_events
    cexit,      \* how it ended
    server,     \* where each server thread is
    sevent,     \* its state->event
    snum,       \* wire_server->num_events
    slast,      \* wire_server->last_event_type
    serror,     \* why it stopped early
    daemon,     \* the server's process: "up" or "killed"
    addrs       \* the addresses added to the server's device

clientVars == <<client, cevent, cnum, clast, cdone, cexit>>
serverVars == <<server, sevent, snum, slast, serror>>
vars == <<script, toServer, toClient, clientVars, serverVars, daemon, addrs>>

Scripts == UNION {[1..n -> Kinds] : n \in 1..MaxEvents}

ClientReasons == {"none", "ok", "packet_error", "bad_count", "bad_op", "io",
                  "script", "died"}
ServerReasons == {"none", "bad_count", "bad_op", "io", "script", "packet",
                  "parse"}

Msg(op) == [op |-> op, num |-> 0, result |-> "OK"]
Start(n) == [op |-> "START", num |-> n, result |-> "OK"]
Done(n, result) == [op |-> "DONE", num |-> n, result |-> result]

\* What each receive function of the server's set-up expects, and what follows
SetUpOp == [args |-> "ARGS", path |-> "PATH", script |-> "SCRIPT",
            hwaddr |-> "HWADDR", wait_starting |-> "STARTING"]
AfterSetUpOp == [args |-> "path", path |-> "script", script |-> "hwaddr",
                 hwaddr |-> "setup", wait_starting |-> "next"]

ClientHello == <<Msg("ARGS"), Msg("PATH"), Msg("SCRIPT"), Msg("HWADDR")>>

ClientOpen(s) == client[s] \notin {"connect", "exited"}
ServerOpen(s) == daemon = "up" /\ server[s] \notin {"none", "closed"}

ClientAt(s, pc) == client[s] = pc
ServerAt(s, pc) == daemon = "up" /\ server[s] = pc

Kind(s, e) == IF e \in 1..Len(script[s]) THEN script[s][e] ELSE "end"

-----------------------------------------------------------------------------
(* The connection: wire_conn.c.                                            *)

\* What is written to a peer that is gone is lost, or the write fails
SendToServer(s, ms) ==
    toServer' = IF ServerOpen(s) THEN [toServer EXCEPT ![s] = @ \o ms]
                                 ELSE toServer
SendToClient(s, ms) ==
    toClient' = IF ClientOpen(s) THEN [toClient EXCEPT ![s] = @ \o ms]
                                 ELSE toClient

\* A read from a connection that the peer has closed, once it is drained
NothingMore(queue, s, peerOpen) == queue[s] = <<>> /\ ~peerOpen

\* die(): the client's process ends
ExitClient(s, reason) ==
    /\ client' = [client EXCEPT ![s] = "exited"]
    /\ cexit' = [cexit EXCEPT ![s] = reason]

\* The server's thread gives up and cleans up, or only closes when it has no
\* interpreter state yet
StopServer(s, reason) ==
    /\ server' = [server EXCEPT ![s] =
          IF @ \in {"args", "path", "script", "hwaddr", "setup"}
          THEN "close" ELSE "free"]
    /\ serror' = [serror EXCEPT ![s] = reason]

-----------------------------------------------------------------------------
Init ==
    /\ script \in [Sessions -> Scripts]
    /\ toServer = [s \in Sessions |-> <<>>]
    /\ toClient = [s \in Sessions |-> <<>>]
    /\ client = [s \in Sessions |-> "connect"]
    /\ server = [s \in Sessions |-> "none"]
    /\ cevent = [s \in Sessions |-> 0] /\ sevent = [s \in Sessions |-> 0]
    /\ cnum = [s \in Sessions |-> 0] /\ snum = [s \in Sessions |-> 0]
    /\ clast = [s \in Sessions |-> "invalid"]
    /\ slast = [s \in Sessions |-> "invalid"]
    /\ cdone = [s \in Sessions |-> 0]
    /\ cexit = [s \in Sessions |-> "none"]
    /\ serror = [s \in Sessions |-> "none"]
    /\ daemon = "up" /\ addrs = {}

\* wire_conn_connect() in the client, wire_conn_accept() and the creation of
\* the session's thread in the server
Connect(s) ==
    /\ ClientAt(s, "connect") /\ daemon = "up"
    /\ client' = [client EXCEPT ![s] = "hello"]
    /\ server' = [server EXCEPT ![s] = "args"]
    /\ UNCHANGED <<script, toServer, toClient, cevent, cnum, clast, cdone, cexit,
                   sevent, snum, slast, serror, daemon, addrs>>

ConnectFails(s) ==
    /\ ClientAt(s, "connect") /\ daemon = "killed"
    /\ ExitClient(s, "io")
    /\ UNCHANGED <<script, toServer, toClient, cevent, cnum, clast, cdone,
                   serverVars, daemon, addrs>>

-----------------------------------------------------------------------------
(* The client: wire_client_init() and run_script().                        *)

ClientInit(s) ==
    /\ ClientAt(s, "hello")
    /\ SendToServer(s, ClientHello)
    /\ client' = [client EXCEPT ![s] = "wait_ready"]
    /\ UNCHANGED <<script, toClient, cevent, cnum, clast, cdone, cexit,
                   serverVars, daemon, addrs>>

ReceiveServerReady(s) ==
    /\ ClientAt(s, "wait_ready") /\ toClient[s] # <<>>
    /\ IF Head(toClient[s]).op = "READY"
       THEN client' = [client EXCEPT ![s] = "starting"] /\ UNCHANGED cexit
       ELSE ExitClient(s, "bad_op")
    /\ toClient' = [toClient EXCEPT ![s] = Tail(@)]
    /\ UNCHANGED <<script, toServer, cevent, cnum, clast, cdone, serverVars,
                   daemon, addrs>>

SendClientStarting(s) ==
    /\ ClientAt(s, "starting")
    /\ SendToServer(s, <<Msg("STARTING")>>)
    /\ client' = [client EXCEPT ![s] = "next"]
    /\ UNCHANGED <<script, toClient, cevent, cnum, clast, cdone, cexit,
                   serverVars, daemon, addrs>>

\* Seeded fault: packets, which the server runs, are not counted
ClientCountsItsOwn(s, e) ==
    /\ client' = [client EXCEPT ![s] = IF Kind(s, e) = "end" THEN "finish"
                                                            ELSE "run"]
    /\ IF Kind(s, e) = "end"
       THEN UNCHANGED <<cnum, clast>>
       ELSE /\ clast' = [clast EXCEPT ![s] = Kind(s, e)]
            /\ cnum' = [cnum EXCEPT ![s] = IF Kind(s, e) = "packet" THEN @
                                           ELSE @ + 1]

\* The end of wire_client_next_event(): the event is counted and executed
ClientEventBegins(s, e) ==
    /\ client' = [client EXCEPT ![s] = IF Kind(s, e) = "end" THEN "finish"
                                                            ELSE "run"]
    /\ IF Kind(s, e) = "end"
       THEN UNCHANGED <<cnum, clast>>
       ELSE /\ clast' = [clast EXCEPT ![s] = Kind(s, e)]
            /\ cnum' = [cnum EXCEPT ![s] = @ + 1]

\* Seeded fault: the client waits for a verdict at the end of the script only
ClientWaitsAtEnd(s, k) == k = "end" /\ clast[s] = "packet"

\* The two conditions of wire_client_next_event()
ClientBatchStarts(s, k) == k = "packet" /\ clast[s] # "packet"
ClientBatchOver(s, k) == k \in {"other", "end"} /\ clast[s] = "packet"

\* get_next_event() and wire_client_next_event()
ClientNextEvent(s) ==
    /\ ClientAt(s, "next")
    /\ cevent' = [cevent EXCEPT ![s] = @ + 1]
    /\ LET e == cevent[s] + 1
           k == Kind(s, e)
       IN \/ /\ k = "backward"
             /\ ExitClient(s, "script")
             /\ UNCHANGED <<toServer, cnum, clast>>
          \/ /\ ClientBatchStarts(s, k)
             /\ SendToServer(s, <<Start(cnum[s])>>)
             /\ ClientEventBegins(s, e)
             /\ UNCHANGED cexit
          \/ /\ ClientBatchOver(s, k)
             /\ client' = [client EXCEPT ![s] = "wait_done"]
             /\ UNCHANGED <<toServer, cnum, clast, cexit>>
          \/ /\ k # "backward"
             /\ ~ClientBatchStarts(s, k) /\ ~ClientBatchOver(s, k)
             /\ ClientEventBegins(s, e)
             /\ UNCHANGED <<toServer, cexit>>
    /\ UNCHANGED <<script, toClient, cdone, serverVars, daemon, addrs>>

\* wire_client_receive_packets_done(): warnings are printed, the verdict on
\* the batch ends the wait
ReceivePacketsDone(s) ==
    /\ ClientAt(s, "wait_done") /\ toClient[s] # <<>>
    /\ LET m == Head(toClient[s])
       IN \/ /\ m.op = "WARN"
             /\ UNCHANGED <<client, cexit, cnum, clast>>
          \/ /\ m.op \notin {"WARN", "DONE"}
             /\ ExitClient(s, "bad_op")
             /\ UNCHANGED <<cnum, clast>>
          \/ /\ m.op = "DONE" /\ m.result = "ERR"
             /\ ExitClient(s, "packet_error")
             /\ UNCHANGED <<cnum, clast>>
          \/ /\ m.op = "DONE" /\ m.result = "OK" /\ m.num # cnum[s]
             /\ ExitClient(s, "bad_count")
             /\ UNCHANGED <<cnum, clast>>
          \/ /\ m.op = "DONE" /\ m.result = "OK" /\ m.num = cnum[s]
             /\ ClientEventBegins(s, cevent[s])
             /\ UNCHANGED cexit
    /\ toClient' = [toClient EXCEPT ![s] = Tail(@)]
    /\ UNCHANGED <<script, toServer, cevent, cdone, serverVars, daemon, addrs>>

\* The event is executed, unless it is a packet, and counted again
ClientRunsEvent(s) ==
    /\ ClientAt(s, "run")
    /\ cdone' = [cdone EXCEPT ![s] = @ + 1]
    /\ client' = [client EXCEPT ![s] = "next"]
    /\ UNCHANGED <<script, toServer, toClient, cevent, cnum, clast, cexit,
                   serverVars, daemon, addrs>>

ClientFinishes(s) ==
    /\ ClientAt(s, "finish")
    /\ ExitClient(s, "ok")
    /\ UNCHANGED <<script, toServer, toClient, cevent, cnum, clast, cdone,
                   serverVars, daemon, addrs>>

\* Seeded fault: the end of the stream is not taken for an error, and the
\* loop of read_bytes() goes on for ever
ReadsOn(s) ==
    /\ client[s] \in {"wait_ready", "wait_done"} \/ ServerOpen(s)
    /\ UNCHANGED vars

\* A read finds the connection closed
ClientReadFails(s) ==
    /\ client[s] \in {"wait_ready", "wait_done"}
    /\ NothingMore(toClient, s, ServerOpen(s))
    /\ ExitClient(s, "io")
    /\ UNCHANGED <<script, toServer, toClient, cevent, cnum, clast, cdone,
                   serverVars, daemon, addrs>>

\* A write finds the connection closed
ClientWriteFails(s) ==
    /\ ~ServerOpen(s)
    /\ \/ /\ client[s] \in {"hello", "starting"}
          /\ UNCHANGED cevent
       \/ /\ ClientAt(s, "next")
          /\ ClientBatchStarts(s, Kind(s, cevent[s] + 1))
          /\ cevent' = [cevent EXCEPT ![s] = @ + 1]
    /\ ExitClient(s, "io")
    /\ UNCHANGED <<script, toServer, toClient, cnum, clast, cdone,
                   serverVars, daemon, addrs>>

\* A system call or a command fails, in either thread of the client, or the
\* process is stopped: part of the greeting may have been sent
ClientDies(s) ==
    /\ "client_dies" \in Faults /\ ClientOpen(s)
    /\ \/ UNCHANGED toServer
       \/ /\ ClientAt(s, "hello")
          /\ \E n \in 1..3 : SendToServer(s, SubSeq(ClientHello, 1, n))
    /\ ExitClient(s, "died")
    /\ UNCHANGED <<script, toClient, cevent, cnum, clast, cdone, serverVars,
                   daemon, addrs>>

-----------------------------------------------------------------------------
(* The server: wire_server_thread() and wire_server_run_script().          *)

\* A message of the set-up, or the one that starts the run
ReceiveSetUp(s) ==
    /\ daemon = "up" /\ server[s] \in DOMAIN SetUpOp /\ toServer[s] # <<>>
    /\ IF Head(toServer[s]).op = SetUpOp[server[s]]
       THEN /\ server' = [server EXCEPT ![s] = AfterSetUpOp[@]]
            /\ UNCHANGED serror
       ELSE StopServer(s, "bad_op")
    /\ toServer' = [toServer EXCEPT ![s] = Tail(@)]
    /\ UNCHANGED <<script, toClient, clientVars, sevent, snum, slast,
                   daemon, addrs>>

\* parse_script_and_set_config(), wire_server_netdev_new(), state_new()
SetUpSession(s) ==
    /\ ServerAt(s, "setup")
    /\ \/ /\ "parse_fails" \in Faults
          /\ StopServer(s, "parse")
          /\ UNCHANGED addrs
       \/ /\ server' = [server EXCEPT ![s] = "ready"]
          /\ addrs' = addrs \union {Gateway[s]}
          /\ UNCHANGED serror
    /\ UNCHANGED <<script, toServer, toClient, clientVars, sevent, snum, slast,
                   daemon>>

SendServerReady(s) ==
    /\ ServerAt(s, "ready")
    /\ SendToClient(s, <<Msg("READY")>>)
    /\ server' = [server EXCEPT ![s] = "wait_starting"]
    /\ UNCHANGED <<script, toServer, clientVars, sevent, snum, slast,
                   serror, daemon, addrs>>

\* Seeded fault: an event is counted twice
ServerCountsTwice(s, e) ==
    /\ server' = [server EXCEPT ![s] = IF Kind(s, e) = "packet" THEN "packet"
                                                               ELSE "next"]
    /\ slast' = [slast EXCEPT ![s] = Kind(s, e)]
    /\ snum' = [snum EXCEPT ![s] = @ + 2]

\* The end of wire_server_next_event(): the event is counted, and a packet
\* is run
ServerEventBegins(s, e) ==
    /\ server' = [server EXCEPT ![s] = IF Kind(s, e) = "packet" THEN "packet"
                                                               ELSE "next"]
    /\ slast' = [slast EXCEPT ![s] = Kind(s, e)]
    /\ snum' = [snum EXCEPT ![s] = @ + 1]

\* The two conditions of wire_server_next_event()
ServerBatchStarts(s, k) == k = "packet" /\ slast[s] # "packet"
ServerBatchOver(s, k) == k \in {"other", "end"} /\ slast[s] = "packet"

\* get_next_event() and wire_server_next_event()
ServerNextEvent(s) ==
    /\ ServerAt(s, "next")
    /\ sevent' = [sevent EXCEPT ![s] = @ + 1]
    /\ LET e == sevent[s] + 1
           k == Kind(s, e)
       IN \/ /\ k = "backward"
             /\ StopServer(s, "script")
             /\ UNCHANGED <<toClient, snum, slast>>
          \/ /\ ServerBatchStarts(s, k)
             /\ server' = [server EXCEPT ![s] = "wait_start"]
             /\ UNCHANGED <<toClient, snum, slast, serror>>
          \/ /\ k # "backward" /\ ~ServerBatchStarts(s, k)
             /\ IF ServerBatchOver(s, k)
                THEN SendToClient(s, <<Done(snum[s], "OK")>>)
                ELSE UNCHANGED toClient
             /\ IF k = "end"
                THEN StopServer(s, "none") /\ UNCHANGED <<snum, slast>>
                ELSE ServerEventBegins(s, e) /\ UNCHANGED serror
    /\ UNCHANGED <<script, toServer, clientVars, daemon, addrs>>

ReceivePacketsStart(s) ==
    /\ ServerAt(s, "wait_start") /\ toServer[s] # <<>>
    /\ LET m == Head(toServer[s])
       IN \/ /\ m.op = "START" /\ m.num = snum[s]
             /\ ServerEventBegins(s, sevent[s])
             /\ UNCHANGED serror
          \/ /\ m.op = "START" /\ m.num # snum[s]
             /\ StopServer(s, "bad_count")
             /\ UNCHANGED <<snum, slast>>
          \/ /\ m.op # "START"
             /\ StopServer(s, "bad_op")
             /\ UNCHANGED <<snum, slast>>
    /\ toServer' = [toServer EXCEPT ![s] = Tail(@)]
    /\ UNCHANGED <<script, toClient, clientVars, sevent, daemon, addrs>>

\* Seeded fault: a packet that is not the expected one does not end the batch
RunPacketOnlyWarns(s) ==
    /\ ServerAt(s, "packet")
    /\ \/ /\ server' = [server EXCEPT ![s] = "next"]
          /\ UNCHANGED <<toClient, serror>>
       \/ /\ "bad_packet" \in Faults
          /\ SendToClient(s, <<Msg("WARN")>>)
          /\ server' = [server EXCEPT ![s] = "next"]
          /\ serror' = [serror EXCEPT ![s] = "packet"]
    /\ UNCHANGED <<script, toServer, clientVars, sevent, snum, slast,
                   daemon, addrs>>

\* wire_server_run_packet_event(): as expected, fishy, or an error
RunPacketEvent(s) ==
    /\ ServerAt(s, "packet")
    /\ \/ /\ server' = [server EXCEPT ![s] = "next"]
          /\ UNCHANGED <<toClient, serror>>
       \/ /\ SendToClient(s, <<Msg("WARN")>>)
          /\ server' = [server EXCEPT ![s] = "next"]
          /\ UNCHANGED serror
       \/ /\ "bad_packet" \in Faults
          /\ SendToClient(s, <<Done(snum[s], "ERR")>>)
          /\ StopServer(s, "packet")
    /\ UNCHANGED <<script, toServer, clientVars, sevent, snum, slast,
                   daemon, addrs>>

ServerReadFails(s) ==
    /\ daemon = "up" /\ server[s] \in DOMAIN SetUpOp \union {"wait_start"}
    /\ NothingMore(toServer, s, ClientOpen(s))
    /\ StopServer(s, "io")
    /\ UNCHANGED <<script, toServer, toClient, clientVars, sevent, snum, slast,
                   daemon, addrs>>

\* A warning or a verdict is written to a client that is gone: write() may
\* return an error, or raise SIGPIPE, which only run_script() ignores
ServerWriteFails(s) ==
    /\ daemon = "up" /\ ~ClientOpen(s)
    /\ \/ /\ ServerAt(s, "packet")
          /\ UNCHANGED sevent
       \/ /\ ServerAt(s, "next")
          /\ ServerBatchOver(s, Kind(s, sevent[s] + 1))
          /\ sevent' = [sevent EXCEPT ![s] = @ + 1]
    /\ \/ StopServer(s, "io") /\ UNCHANGED daemon
       \/ daemon' = "killed" /\ UNCHANGED <<server, serror>>
    /\ UNCHANGED <<script, toServer, toClient, clientVars, snum, slast,
                   addrs>>

\* die() in one thread: adding an address, opening the packet socket or
\* resetting a connection may fail
ServerDies(s) ==
    /\ "server_dies" \in Faults
    /\ daemon = "up" /\ server[s] \in {"setup", "packet", "free"}
    /\ daemon' = "killed"
    /\ UNCHANGED <<script, toServer, toClient, clientVars, serverVars, addrs>>

\* Seeded fault: all addresses of the device are flushed
FlushAddresses(s) ==
    /\ ServerAt(s, "free")
    /\ addrs' = {}
    /\ server' = [server EXCEPT ![s] = "close"]
    /\ UNCHANGED <<script, toServer, toClient, clientVars, sevent, snum, slast,
                   serror, daemon>>

\* state_free(): the device loses the session's gateway address
FreeSession(s) ==
    /\ ServerAt(s, "free")
    /\ addrs' = addrs \ {Gateway[s]}
    /\ server' = [server EXCEPT ![s] = "close"]
    /\ UNCHANGED <<script, toServer, toClient, clientVars, sevent, snum, slast,
                   serror, daemon>>

\* wire_server_free()
CloseConnection(s) ==
    /\ ServerAt(s, "close")
    /\ server' = [server EXCEPT ![s] = "closed"]
    /\ UNCHANGED <<script, toServer, toClient, clientVars, sevent, snum, slast,
                   serror, daemon, addrs>>

-----------------------------------------------------------------------------
ClientStep(s) ==
    \/ Connect(s) \/ ConnectFails(s) \/ ClientInit(s) \/ ReceiveServerReady(s)
    \/ SendClientStarting(s) \/ ClientNextEvent(s) \/ ReceivePacketsDone(s)
    \/ ClientRunsEvent(s) \/ ClientFinishes(s) \/ ClientReadFails(s)
    \/ ClientWriteFails(s)

ServerStep(s) ==
    \/ ReceiveSetUp(s) \/ SetUpSession(s) \/ SendServerReady(s)
    \/ ServerNextEvent(s) \/ ReceivePacketsStart(s) \/ RunPacketEvent(s)
    \/ ServerReadFails(s) \/ ServerWriteFails(s) \/ FreeSession(s)
    \/ CloseConnection(s)

\* Nothing is left to do: any other state without a next step is a deadlock
Finished ==
    /\ \A s \in Sessions : client[s] = "exited"
                          /\ (daemon = "killed" \/ server[s] = "closed")
    /\ UNCHANGED vars

Next ==
    \/ \E s \in Sessions :
          ClientStep(s) \/ ServerStep(s) \/ ClientDies(s) \/ ServerDies(s)
    \/ Finished

Spec == Init /\ [][Next]_vars

\* What a server thread does when it is scheduled.  Nothing makes a packet
\* event end: netdev_receive() has no time-out and reads no connection.
ServerProceeds(s) == ServerStep(s) /\ server[s] # "packet"

\* The client and each server thread are scheduled
Fairness == \A s \in Sessions :
               WF_vars(ClientStep(s)) /\ WF_vars(ServerProceeds(s))

FairSpec == Spec /\ Fairness

-----------------------------------------------------------------------------
(* What has been executed, and by whom.                                    *)

ServerRan(s, e) == e < sevent[s] \/ (e = sevent[s] /\ server[s] = "next")
ClientRan(s, e) == e <= cdone[s]

Executed(s) == {e \in 1..Len(script[s]) :
                  IF script[s][e] = "packet" THEN ServerRan(s, e)
                                             ELSE ClientRan(s, e)}

-----------------------------------------------------------------------------
(* Properties.                                                             *)

Messages == [op : {"ARGS", "PATH", "SCRIPT", "HWADDR", "READY", "STARTING",
                   "START", "WARN", "DONE"},
             num : 0..MaxEvents, result : {"OK", "ERR"}]

\* Every variable keeps its type: the queues hold protocol messages, and an
\* event index goes at most one past the script (get_next_event()).
TypeOK ==
    /\ script \in [Sessions -> Scripts]
    /\ toServer \in [Sessions -> Seq(Messages)]
    /\ toClient \in [Sessions -> Seq(Messages)]
    /\ client \in [Sessions -> {"connect", "hello", "wait_ready", "starting",
                                "next", "wait_done", "run", "finish", "exited"}]
    /\ server \in [Sessions -> {"none", "args", "path", "script", "hwaddr",
                                "setup", "ready", "wait_starting", "next",
                                "wait_start", "packet", "free", "close",
                                "closed"}]
    /\ cevent \in [Sessions -> 0..(MaxEvents + 1)]
    /\ sevent \in [Sessions -> 0..(MaxEvents + 1)]
    /\ cnum \in [Sessions -> 0..MaxEvents]
    /\ snum \in [Sessions -> 0..MaxEvents]
    /\ cdone \in [Sessions -> 0..MaxEvents]
    /\ clast \in [Sessions -> {"invalid", "packet", "other"}]
    /\ slast \in [Sessions -> {"invalid", "packet", "other"}]
    /\ cexit \in [Sessions -> ClientReasons]
    /\ serror \in [Sessions -> ServerReasons]
    /\ daemon \in {"up", "killed"}
    /\ addrs \subseteq {Gateway[s] : s \in Sessions}

\* The two state machines count the same events and alternate in the same
\* way, whatever fails: none of the checks of wire_client.c and wire_server.c
\* for a bad message count or an unexpected message ever strikes.
InStep ==
    \A s \in Sessions : /\ cexit[s] \notin {"bad_count", "bad_op"}
                        /\ serror[s] \notin {"bad_count", "bad_op"}

\* A test that passes on the client was carried out in full by the server:
\* its thread met no error, and no packet of the script is left to run.
VerdictSound ==
    \A s \in Sessions :
        cexit[s] = "ok" => /\ serror[s] = "none"
                           /\ Executed(s) = 1..Len(script[s])

\* "Add the gateway IP to our NIC ... so we can receive packets from the
\* client" (wire_server_netdev.c): while a session runs, its gateway address
\* is configured on the server's device.
GatewayPresent ==
    \A s \in Sessions :
        daemon = "up" /\ server[s] \in {"ready", "wait_starting", "next",
                                        "wait_start", "packet"}
            => Gateway[s] \in addrs

\* "don't exit the process (we're a daemon)" (wire_server.c): whatever a
\* client does, the server's process goes on.
DaemonSurvives == daemon = "up"

\* The events of every session are executed in the order of its script, as
\* run_script() does alone: WireProtocol implements RemoteScript.
Verdict(s) == CASE cexit[s] = "none" -> "none"
                [] cexit[s] = "ok"   -> "pass"
                [] OTHER             -> "fail"

Abstract == INSTANCE RemoteScript WITH
    length <- [s \in Sessions |-> Len(script[s])],
    executed <- [s \in Sessions |-> Executed(s)],
    verdict <- [s \in Sessions |-> Verdict(s)]

ExecutesInOrder == Abstract!Init /\ [][Abstract!Next]_(Abstract!vars)

\* A session can stay in one place only: with its server thread at a packet
\* event, sniffing for a packet that never comes (run_packet.c).  Otherwise its
\* client ends, never left waiting for a thread that has given up; and its
\* thread ends and gives its connection back, also when the client disappears.
BothSidesEnd ==
    \A s \in Sessions :
        \/ <>[]ServerAt(s, "packet")
        \/ /\ <>(client[s] = "exited")
           /\ server[s] # "none" ~> (daemon = "killed" \/ server[s] = "closed")
=============================================================================
