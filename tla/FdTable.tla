------------------------------ MODULE FdTable ------------------------------
(***************************************************************************)
(* The descriptors of a packetdrill run.  A script names its descriptors   *)
(* by numbers of its own, the kernel hands out live ones, and state->fds   *)
(* (run.c, fd_state.h, socket.c, file.c, pipe.c, epoll.c) relates the two. *)
(* The handlers of run_system_call.c look descriptors up in this list,     *)
(* make the live call, and record what it returned; of a call that blocks, *)
(* the live part happens without the lock, beside other events.            *)
(***************************************************************************)
EXTENDS Integers, Sequences, FiniteSets, FiniteSetsExt

CONSTANTS
    ScriptFds,      \* numbers that scripts use
    MaxLiveFd,      \* the kernel's limit on open descriptors
    BlockingOps,    \* the calls that scripts mark as blocking
    CarefulScripts, \* accept() and pipe() are given fresh numbers only, and
                    \* nothing is closed twice
    MaxCalls        \* length of a script

ASSUME NumbersAssumption == ScriptFds \subseteq Nat /\ MaxLiveFd \in Nat
ASSUME OpsAssumption == /\ BlockingOps \subseteq {"accept", "close"}
                        /\ CarefulScripts \in BOOLEAN
ASSUME CallsAssumption == MaxCalls \in Nat

VARIABLES
    is_wire_client, \* the packets of the script are run by another process
    fds,        \* state->fds, the newest entry first
    underTest,  \* the object of state->socket_under_test, 0 if NULL
    kernel,     \* the object behind each live descriptor, 0 if it is free
    waiting,    \* the connection that waits to be accepted, 0 if none
    call,       \* the blocking call in progress
    objects,    \* objects made so far
    calls,      \* calls and packets so far
    run         \* "on", "freed", or the error that ended the run

vars == <<is_wire_client, fds, underTest, kernel, waiting, call, objects,
          calls, run>>

LiveFds == 0..MaxLiveFd
NoCall == [op |-> "none", fd |-> 0, live |-> 0, obj |-> 0]

\* An entry, and the kernel's object that it was made for
Entry(type, state, script, live, obj) ==
    [type |-> type, state |-> state, script_fd |-> script, live_fd |-> live,
     obj |-> obj, is_closed |-> FALSE]

-----------------------------------------------------------------------------
(* The list.                                                               *)

\* find_by_script_fd() and find_by_live_fd() return the first of these
WithScriptFd(fd) == {i \in DOMAIN fds : ~fds[i].is_closed
                                        /\ fds[i].script_fd = fd}
WithLiveFd(live) == {i \in DOMAIN fds : ~fds[i].is_closed
                                        /\ fds[i].live_fd = live}

Known(fd) == WithScriptFd(fd) # {}
FindByScriptFd(fd) == Min(WithScriptFd(fd))
ToLiveFd(fd) == fds[FindByScriptFd(fd)].live_fd

\* check_duplicate_fd()
DuplicateScriptFd(fd) == WithScriptFd(fd) # {}
DuplicateLiveFd(live) == WithLiveFd(live) # {}

-----------------------------------------------------------------------------
(* The kernel gives the lowest free descriptor.                            *)

FreeFds == {n \in LiveFds : kernel[n] = 0}
NewFd == Min(FreeFds)

Init ==
    /\ is_wire_client \in BOOLEAN
    /\ fds = <<>> /\ underTest = 0
    /\ kernel = [n \in LiveFds |-> 0]
    /\ waiting = 0 /\ call = NoCall
    /\ objects = 0 /\ calls = 0 /\ run = "on"

\* The interpreter's thread has the lock and an event to execute.  It goes on
\* during a blocking call once the thread of that sleeps in the kernel.
MainRuns == /\ run = "on" /\ calls < MaxCalls /\ calls' = calls + 1
            /\ UNCHANGED is_wire_client

\* The thread goes on, with the lock if it needs it
ThreadRuns == run = "on" /\ UNCHANGED <<is_wire_client, calls>>

\* The descriptor that is in a blocking close()
Closing(fd) == call.op = "close" /\ call.fd = fd

\* The number that a blocking accept() will give to its connection
Reserved(fd) == call.op \in {"accept", "accepted"} /\ call.fd = fd

-----------------------------------------------------------------------------
(* Calls executed by the interpreter's thread.                             *)

\* socket(), open() or epoll_create(): the live call, the check, the entry
NewEntry(fd, type, isUnderTest) ==
    /\ MainRuns /\ FreeFds # {}
    /\ CarefulScripts => ~Reserved(fd)
    /\ objects' = objects + 1
    /\ kernel' = [kernel EXCEPT ![NewFd] = objects + 1]
    /\ \/ /\ DuplicateScriptFd(fd)
          /\ run' = "duplicate script fd"
          /\ UNCHANGED <<fds, underTest>>
       \/ /\ ~DuplicateScriptFd(fd) /\ DuplicateLiveFd(NewFd)
          /\ run' = "duplicate live fd"
          /\ UNCHANGED <<fds, underTest>>
       \/ /\ ~DuplicateScriptFd(fd) /\ ~DuplicateLiveFd(NewFd)
          /\ fds' = <<Entry(type, "new", fd, NewFd, objects + 1)>> \o fds
          /\ underTest' = IF isUnderTest THEN objects + 1 ELSE underTest
          /\ UNCHANGED run
    /\ UNCHANGED <<waiting, call>>

Socket(fd) == NewEntry(fd, "socket", TRUE)
OpenFile(fd) == NewEntry(fd, "file", FALSE)

\* pipe(): both ends are checked before either is recorded
Pipe(fd1, fd2) ==
    /\ MainRuns /\ Cardinality(FreeFds) >= 2
    /\ CarefulScripts => fd1 # fd2 /\ ~Reserved(fd1) /\ ~Reserved(fd2)
    /\ LET live1 == NewFd
           live2 == Min(FreeFds \ {live1})
       IN /\ kernel' = [kernel EXCEPT ![live1] = objects + 1,
                                      ![live2] = objects + 2]
          /\ \/ /\ (DuplicateScriptFd(fd1) \/ DuplicateScriptFd(fd2))
                /\ run' = "duplicate script fd"
                /\ UNCHANGED fds
             \/ /\ ~DuplicateScriptFd(fd1) /\ ~DuplicateScriptFd(fd2)
                /\ DuplicateLiveFd(live1) \/ DuplicateLiveFd(live2)
                /\ run' = "duplicate live fd"
                /\ UNCHANGED fds
             \/ /\ ~DuplicateScriptFd(fd1) /\ ~DuplicateScriptFd(fd2)
                /\ ~DuplicateLiveFd(live1) /\ ~DuplicateLiveFd(live2)
                /\ fds' = <<Entry("file", "new", fd2, live2, objects + 2),
                            Entry("file", "new", fd1, live1, objects + 1)>>
                          \o fds
                /\ UNCHANGED run
    /\ objects' = objects + 2
    /\ UNCHANGED <<underTest, waiting, call>>

\* The kernel keeps a socket while a descriptor or an accept() refers to it
Alive(obj) == \/ \E n \in LiveFds : kernel[n] = obj
              \/ call.op = "accept" /\ call.obj = obj
Listener(i) == fds[i].state = "listening" /\ Alive(fds[i].obj)

\* listen() on a socket: one at a time can have the port that is tested
Listen(fd) ==
    /\ MainRuns /\ Known(fd)
    /\ fds[FindByScriptFd(fd)].type = "socket"
    /\ \A i \in DOMAIN fds : ~Listener(i)
    /\ fds' = [fds EXCEPT ![FindByScriptFd(fd)].state = "listening"]
    /\ UNCHANGED <<underTest, kernel, waiting, call, objects, run>>

\* A SYN comes in for the socket under test: its child takes its place, and has
\* no descriptors.  (The test does not look at is_closed.)
InboundSyn ==
    /\ MainRuns /\ ~is_wire_client
    /\ \/ underTest = 0
       \/ \E i \in DOMAIN fds : fds[i].obj = underTest
                                /\ fds[i].state = "listening"
    /\ objects' = objects + 1
    /\ fds' = <<Entry("socket", "packet_received", -1, -1, objects + 1)>> \o fds
    /\ underTest' = objects + 1
    /\ UNCHANGED <<kernel, waiting, call, run>>

\* The SYN/ACK has gone out, and the ACK comes in
HandshakeDone ==
    /\ MainRuns /\ ~is_wire_client /\ waiting = 0
    /\ \E i \in DOMAIN fds : Listener(i)
    /\ \E i \in DOMAIN fds :
          /\ fds[i].obj = underTest /\ fds[i].state = "packet_received"
          /\ fds' = [fds EXCEPT ![i].state = "synack_acked"]
    /\ waiting' = underTest
    /\ UNCHANGED <<underTest, kernel, call, objects, run>>

\* A wire client sees nothing of the packets that make a connection
RemoteConnects ==
    /\ MainRuns /\ is_wire_client /\ waiting = 0
    /\ \E i \in DOMAIN fds : Listener(i)
    /\ objects' = objects + 1 /\ waiting' = objects + 1
    /\ UNCHANGED <<fds, underTest, kernel, call, run>>

\* Seeded fault: the entry stays open
LeaveOpen(fd) == UNCHANGED fds

\* run_syscall_close()
MarkClosed(fd) == fds' = [fds EXCEPT ![FindByScriptFd(fd)].is_closed = TRUE]

\* A connection that has not been accepted ends with its listening socket
FreeLive(live) ==
    /\ kernel' = [kernel EXCEPT ![live] = 0]
    /\ waiting' = IF \E i \in DOMAIN fds : Listener(i) /\ fds[i].obj = kernel[live]
                     /\ ~(call.op = "accept" /\ call.obj = kernel[live])
                  THEN 0 ELSE waiting

\* close() of a known descriptor
Close(fd) ==
    /\ MainRuns /\ Known(fd)
    /\ CarefulScripts => ~Closing(fd)
    /\ IF kernel[ToLiveFd(fd)] # 0
       THEN MarkClosed(fd) /\ UNCHANGED run
       ELSE run' = "bad close" /\ UNCHANGED fds
    /\ FreeLive(ToLiveFd(fd))
    /\ UNCHANGED <<underTest, call, objects>>

\* The entries that run_syscall_accept() takes for children of a listening
\* socket: accepted ones and closed ones are among them.  (Those of which only
\* the SYN/ACK has gone out, for TCP Fast Open, are left out.)
Children == {i \in DOMAIN fds : fds[i].type = "socket"
                                /\ fds[i].state = "synack_acked"}

AcceptedChild == Min(Children)

\* Seeded fault: the number of the script is not recorded
RecordLiveOnly(fd, live, conn) ==
    /\ fds' = IF Children = {} THEN fds
              ELSE [fds EXCEPT ![AcceptedChild].live_fd = live]
    /\ UNCHANGED <<underTest, run>>

\* run_syscall_accept(), which does not look for duplicates.  The addresses of
\* the connection and of the child are asserted to be the same.
RecordAccept(fd, live, conn) ==
    \/ /\ Children # {} /\ fds[AcceptedChild].obj = conn
       /\ fds' = [fds EXCEPT ![AcceptedChild].script_fd = fd,
                             ![AcceptedChild].live_fd = live]
       /\ UNCHANGED <<underTest, run>>
    \/ /\ Children # {} /\ fds[AcceptedChild].obj # conn
       /\ run' = "wrong child"
       /\ UNCHANGED <<fds, underTest>>
    \/ /\ Children = {} /\ is_wire_client
       /\ fds' = <<Entry("socket", "init", fd, live, conn)>> \o fds
       /\ underTest' = conn
       /\ UNCHANGED run
    \/ /\ Children = {} /\ ~is_wire_client
       /\ run' = "no child"
       /\ UNCHANGED <<fds, underTest>>

\* accept() on listening, of a connection that is there
Accept(listening, fd) ==
    /\ MainRuns /\ Known(listening) /\ Listener(FindByScriptFd(listening))
    /\ waiting # 0 /\ FreeFds # {}
    /\ CarefulScripts => ~Known(fd) /\ ~Reserved(fd)
    /\ RecordAccept(fd, NewFd, waiting)
    /\ kernel' = [kernel EXCEPT ![NewFd] = waiting]
    /\ waiting' = 0
    /\ UNCHANGED <<call, objects>>

-----------------------------------------------------------------------------
(* Calls executed by the system call thread.  The script descriptor is     *)
(* translated before the lock is given up.                                 *)

\* close() frees the descriptor at once, and lingers
BeginClose(fd) ==
    /\ MainRuns /\ "close" \in BlockingOps /\ call = NoCall
    /\ Known(fd)
    /\ IF kernel[ToLiveFd(fd)] # 0
       THEN /\ call' = [NoCall EXCEPT !.op = "close", !.fd = fd,
                                       !.live = ToLiveFd(fd)]
            /\ UNCHANGED run
       ELSE run' = "bad close" /\ UNCHANGED call
    /\ FreeLive(ToLiveFd(fd))
    /\ UNCHANGED <<fds, underTest, objects>>

\* The lock is taken again, and the entry marked
EndClose ==
    /\ ThreadRuns /\ call.op = "close"
    /\ IF Known(call.fd) /\ ToLiveFd(call.fd) = call.live
       THEN MarkClosed(call.fd) /\ UNCHANGED run
       ELSE run' = "unknown fd" /\ UNCHANGED fds
    /\ call' = NoCall
    /\ UNCHANGED <<underTest, kernel, waiting, objects>>

\* accept() waits for a connection
BeginAccept(listening, fd) ==
    /\ MainRuns /\ "accept" \in BlockingOps /\ call = NoCall
    /\ Known(listening) /\ Listener(FindByScriptFd(listening))
    /\ CarefulScripts => ~Known(fd)
    /\ call' = [NoCall EXCEPT !.op = "accept", !.fd = fd,
                              !.obj = fds[FindByScriptFd(listening)].obj]
    /\ UNCHANGED <<fds, underTest, kernel, waiting, objects, run>>

\* It is given a descriptor, with the lock still to be taken
AcceptReturns ==
    /\ ThreadRuns /\ call.op = "accept"
    /\ waiting # 0 /\ FreeFds # {}
    /\ call' = [call EXCEPT !.op = "accepted", !.live = NewFd, !.obj = waiting]
    /\ kernel' = [kernel EXCEPT ![NewFd] = waiting]
    /\ waiting' = 0
    /\ UNCHANGED <<fds, underTest, objects, run>>

EndAccept ==
    /\ ThreadRuns /\ call.op = "accepted"
    /\ RecordAccept(call.fd, call.live, call.obj)
    /\ call' = NoCall
    /\ UNCHANGED <<kernel, waiting, objects>>

-----------------------------------------------------------------------------
(* The end of the run.                                                     *)

\* Seeded fault: what was accepted is not closed
LiveSockets == {fds[i].live_fd : i \in
    {j \in DOMAIN fds : /\ fds[j].type = "socket" /\ fds[j].live_fd >= 0
                        /\ ~fds[j].is_closed /\ fds[j].state # "synack_acked"}}

\* What close_all_fds() closes: socket_close() closes live descriptors, the
\* handlers of files, pipes and epoll sets only free the entry
ToClose == {fds[i].live_fd : i \in
    {j \in DOMAIN fds : /\ fds[j].type = "socket" /\ fds[j].live_fd >= 0
                        /\ ~fds[j].is_closed}}

\* state_free(), with no call in progress
StateFree ==
    /\ run = "on" /\ call = NoCall
    /\ IF \A n \in ToClose : kernel[n] # 0
       THEN /\ run' = "freed"
            /\ kernel' = [n \in LiveFds |-> IF n \in ToClose THEN 0
                                                             ELSE kernel[n]]
       ELSE run' = "bad close" /\ UNCHANGED kernel
    /\ UNCHANGED <<is_wire_client, fds, underTest, waiting, call, objects, calls>>

Next ==
    \/ \E fd \in ScriptFds :
          \/ Socket(fd) \/ OpenFile(fd) \/ Listen(fd) \/ Close(fd)
          \/ BeginClose(fd)
          \/ \E fd2 \in ScriptFds :
                Pipe(fd, fd2) \/ Accept(fd, fd2) \/ BeginAccept(fd, fd2)
    \/ InboundSyn \/ HandshakeDone \/ RemoteConnects
    \/ EndClose \/ AcceptReturns \/ EndAccept \/ StateFree

Spec == Init /\ [][Next]_vars

-----------------------------------------------------------------------------
(* Properties.                                                             *)

Errors == {"duplicate script fd", "duplicate live fd", "bad close",
           "unknown fd", "wrong child", "no child"}

\* Every variable keeps its type: an entry has both descriptors or neither
\* (the assertions of find_by_script_fd() and socket_close()).
TypeOK ==
    /\ \A i \in DOMAIN fds :
          /\ fds[i].type \in {"socket", "file"}
          /\ fds[i].state \in {"init", "new", "listening", "packet_received",
                              "synack_acked"}
          /\ \/ fds[i].script_fd \in ScriptFds /\ fds[i].live_fd \in LiveFds
             \/ fds[i].script_fd = -1 /\ fds[i].live_fd = -1
          /\ fds[i].obj \in 1..objects /\ fds[i].is_closed \in BOOLEAN
    /\ underTest \in 0..objects
    /\ kernel \in [LiveFds -> 0..objects]
    /\ waiting \in 0..objects /\ objects \in Nat /\ calls \in 0..MaxCalls
    /\ call.op \in {"none", "accept", "accepted", "close"}
    /\ run \in {"on", "freed"} \union Errors

\* The entries that a script may use: an entry in a blocking close() has lost
\* its live descriptor already
OpenEntries == {i \in DOMAIN fds : /\ ~fds[i].is_closed /\ fds[i].live_fd >= 0
                                   /\ ~Closing(fds[i].script_fd)}

\* What check_duplicate_fd() is for: no two open entries share a number of
\* the script or a live descriptor.
OneEntryPerFd ==
    \A i, j \in OpenEntries :
        fds[i].script_fd = fds[j].script_fd \/ fds[i].live_fd = fds[j].live_fd
            => i = j

\* The list is a true picture of the kernel's table: one open entry for a
\* number of the script, and the live descriptor of each open entry still
\* denotes the object that the entry was made for, so that calls on the
\* script's descriptor reach the file that the script means.
ListMatchesKernel ==
    run = "on" => /\ OneEntryPerFd
                  /\ \A i \in OpenEntries : kernel[fds[i].live_fd] = fds[i].obj

\* "Close all sockets, free all the socket structs" (run.c): when the state
\* has been freed no socket that the run made is left open, and no close()
\* has failed on the way.
SocketsClosed ==
    /\ run # "bad close"
    /\ run = "freed" => \A i \in DOMAIN fds : fds[i].type = "socket" =>
                            \A n \in LiveFds : kernel[n] # fds[i].obj
=============================================================================
