------------------------- MODULE CallHandlersProofs -------------------------
(***************************************************************************)
(* Proofs about CallHandlers, for any calls, any numbers and any limit of  *)
(* the kernel.                                                             *)
(*                                                                         *)
(* That a live call works on what the script means is decided by all the   *)
(* calls before it.  Linked relates the list, the meaning of the numbers   *)
(* and the kernel's table between two calls; while the kernel has made the *)
(* call and the handler has not recorded it they differ, and Changing says *)
(* in what.                                                                *)
(***************************************************************************)
EXTENDS CallHandlers, TLAPS, SequenceTheorems, FiniteSetTheorems,
        WellFoundedInduction

\* Time for each leaf of a proof, in seconds
USE SMTT(20), ZenonT(40)

-----------------------------------------------------------------------------
(* The table.                                                              *)

\* Calls on a descriptor whose handlers or whose kernels change something
FdCalls == {"close", "listen", "accept", "connect", "sendto", "sendmsg"}

\* What every row of the table is like
IsRow(name, row) ==
    /\ \A f, g \in row.args : Len(f) = Len(g) => f = g
    /\ \A f \in row.args : DOMAIN f = 1 .. Len(f)
    /\ row.after \in {"nothing", "socket", "open", "epoll_create", "accept", "pipe",
                      "listen", "close"}
    /\ row.after # "nothing" => row.after = name
    /\ name \in {"socket", "open", "epoll_create", "accept", "pipe", "listen", "close"} =>
          row.after = name
    /\ row.after \in {"socket", "open", "epoll_create", "accept"} => row.check = "fd"
    /\ row.before \in {"connect", "sendto", "sendmsg"} =>
          name = row.before /\ row.check = "exact"
    /\ name \in {"connect", "sendto", "sendmsg"} => row.before = name
    /\ name = "pipe" => row.check = "exact"
    /\ name \in FdCalls => \A f \in row.args : 1 \in DOMAIN f /\ f[1] = "fd"
    /\ name = "sendto" => \A f \in row.args : 4 \in DOMAIN f /\ f[4] = "s32"

LEMMA Rows ==
  ASSUME NEW name \in DOMAIN system_call_table
  PROVE  IsRow(name, system_call_table[name])
  <1>1. CASE name = "socket"
    <2>1. system_call_table[name] = Socket
      BY <1>1 DEF system_call_table
    <2>2. QED
      BY <1>1, <2>1 DEF Socket, Plain, IsRow, FdCalls
  <1>2. CASE name = "bind"
    <2>1. system_call_table[name] = Bind
      BY <1>2 DEF system_call_table
    <2>2. QED
      BY <1>2, <2>1 DEF Bind, Plain, IsRow, FdCalls
  <1>3. CASE name = "listen"
    <2>1. system_call_table[name] = Listen
      BY <1>3 DEF system_call_table
    <2>2. QED
      BY <1>3, <2>1 DEF Listen, Plain, IsRow, FdCalls
  <1>4. CASE name = "accept"
    <2>1. system_call_table[name] = Accept
      BY <1>4 DEF system_call_table
    <2>2. QED
      BY <1>4, <2>1 DEF Accept, Plain, IsRow, FdCalls
  <1>5. CASE name = "connect"
    <2>1. system_call_table[name] = Connect
      BY <1>5 DEF system_call_table
    <2>2. QED
      BY <1>5, <2>1 DEF Connect, Plain, IsRow, FdCalls
  <1>6. CASE name = "read"
    <2>1. system_call_table[name] = Read
      BY <1>6 DEF system_call_table
    <2>2. QED
      BY <1>6, <2>1 DEF Read, Plain, IsRow, FdCalls
  <1>7. CASE name = "readv"
    <2>1. system_call_table[name] = Readv
      BY <1>7 DEF system_call_table
    <2>2. QED
      BY <1>7, <2>1 DEF Readv, Plain, IsRow, FdCalls
  <1>8. CASE name = "recv"
    <2>1. system_call_table[name] = Recv
      BY <1>8 DEF system_call_table
    <2>2. QED
      BY <1>8, <2>1 DEF Recv, Plain, IsRow, FdCalls
  <1>9. CASE name = "recvfrom"
    <2>1. system_call_table[name] = Recvfrom
      BY <1>9 DEF system_call_table
    <2>2. QED
      BY <1>9, <2>1 DEF Recvfrom, Plain, IsRow, FdCalls
  <1>10. CASE name = "recvmsg"
    <2>1. system_call_table[name] = Recvmsg
      BY <1>10 DEF system_call_table
    <2>2. QED
      BY <1>10, <2>1 DEF Recvmsg, Plain, IsRow, FdCalls
  <1>11. CASE name = "write"
    <2>1. system_call_table[name] = Write
      BY <1>11 DEF system_call_table
    <2>2. QED
      BY <1>11, <2>1 DEF Write, Plain, IsRow, FdCalls
  <1>12. CASE name = "writev"
    <2>1. system_call_table[name] = Writev
      BY <1>12 DEF system_call_table
    <2>2. QED
      BY <1>12, <2>1 DEF Writev, Plain, IsRow, FdCalls
  <1>13. CASE name = "send"
    <2>1. system_call_table[name] = Send
      BY <1>13 DEF system_call_table
    <2>2. QED
      BY <1>13, <2>1 DEF Send, Plain, IsRow, FdCalls
  <1>14. CASE name = "sendto"
    <2>1. system_call_table[name] = Sendto
      BY <1>14 DEF system_call_table
    <2>2. QED
      BY <1>14, <2>1 DEF Sendto, Plain, IsRow, FdCalls
  <1>15. CASE name = "sendmsg"
    <2>1. system_call_table[name] = Sendmsg
      BY <1>15 DEF system_call_table
    <2>2. QED
      BY <1>15, <2>1 DEF Sendmsg, Plain, IsRow, FdCalls
  <1>16. CASE name = "fcntl"
    <2>1. system_call_table[name] = Fcntl
      BY <1>16 DEF system_call_table
    <2>2. QED
      BY <1>16, <2>1 DEF Fcntl, Plain, IsRow, FdCalls
  <1>17. CASE name = "ioctl"
    <2>1. system_call_table[name] = Ioctl
      BY <1>17 DEF system_call_table
    <2>2. QED
      BY <1>17, <2>1 DEF Ioctl, Plain, IsRow, FdCalls
  <1>18. CASE name = "close"
    <2>1. system_call_table[name] = Close
      BY <1>18 DEF system_call_table
    <2>2. QED
      BY <1>18, <2>1 DEF Close, Plain, IsRow, FdCalls
  <1>19. CASE name = "shutdown"
    <2>1. system_call_table[name] = Shutdown
      BY <1>19 DEF system_call_table
    <2>2. QED
      BY <1>19, <2>1 DEF Shutdown, Plain, IsRow, FdCalls
  <1>20. CASE name = "getsockopt"
    <2>1. system_call_table[name] = Getsockopt
      BY <1>20 DEF system_call_table
    <2>2. QED
      BY <1>20, <2>1 DEF Getsockopt, Plain, IsRow, FdCalls
  <1>21. CASE name = "setsockopt"
    <2>1. system_call_table[name] = Setsockopt
      BY <1>21 DEF system_call_table
    <2>2. QED
      BY <1>21, <2>1 DEF Setsockopt, Plain, IsRow, FdCalls
  <1>22. CASE name = "poll"
    <2>1. system_call_table[name] = Poll
      BY <1>22 DEF system_call_table
    <2>2. QED
      BY <1>22, <2>1 DEF Poll, Plain, IsRow, FdCalls
  <1>23. CASE name = "cap_set"
    <2>1. system_call_table[name] = CapSet
      BY <1>23 DEF system_call_table
    <2>2. QED
      BY <1>23, <2>1 DEF CapSet, Plain, IsRow, FdCalls
  <1>24. CASE name = "open"
    <2>1. system_call_table[name] = Open
      BY <1>24 DEF system_call_table
    <2>2. QED
      BY <1>24, <2>1 DEF Open, Plain, IsRow, FdCalls
  <1>25. CASE name = "sendfile"
    <2>1. system_call_table[name] = Sendfile
      BY <1>25 DEF system_call_table
    <2>2. QED
      BY <1>25, <2>1 DEF Sendfile, Plain, IsRow, FdCalls
  <1>26. CASE name = "epoll_create"
    <2>1. system_call_table[name] = EpollCreate
      BY <1>26 DEF system_call_table
    <2>2. QED
      BY <1>26, <2>1 DEF EpollCreate, Plain, IsRow, FdCalls
  <1>27. CASE name = "epoll_ctl"
    <2>1. system_call_table[name] = EpollCtl
      BY <1>27 DEF system_call_table
    <2>2. QED
      BY <1>27, <2>1 DEF EpollCtl, Plain, IsRow, FdCalls
  <1>28. CASE name = "epoll_wait"
    <2>1. system_call_table[name] = EpollWait
      BY <1>28 DEF system_call_table
    <2>2. QED
      BY <1>28, <2>1 DEF EpollWait, Plain, IsRow, FdCalls
  <1>29. CASE name = "pipe"
    <2>1. system_call_table[name] = Pipe
      BY <1>29 DEF system_call_table
    <2>2. QED
      BY <1>29, <2>1 DEF Pipe, Plain, IsRow, FdCalls
  <1>30. CASE name = "splice"
    <2>1. system_call_table[name] = Splice
      BY <1>30 DEF system_call_table
    <2>2. QED
      BY <1>30, <2>1 DEF Splice, Plain, IsRow, FdCalls
  <1>31. name \in {"socket", "bind", "listen", "accept", "connect", "read",
           "readv", "recv", "recvfrom", "recvmsg", "write", "writev",
           "send", "sendto", "sendmsg", "fcntl", "ioctl", "close",
           "shutdown", "getsockopt", "setsockopt", "poll", "cap_set",
           "open", "sendfile", "epoll_create", "epoll_ctl", "epoll_wait",
           "pipe", "splice"}
    BY DEF system_call_table
  <1>32. QED
    BY <1>1, <1>2, <1>3, <1>4, <1>5, <1>6, <1>7, <1>8, <1>9, <1>10, <1>11,
       <1>12, <1>13, <1>14, <1>15, <1>16, <1>17, <1>18, <1>19, <1>20, <1>21,
       <1>22, <1>23, <1>24, <1>25, <1>26, <1>27, <1>28, <1>29, <1>30, <1>31

LEMMA IcmpRow == IsRow("sendto", IcmpSendto)
  BY DEF IcmpSendto, Plain, IsRow, FdCalls

LEMMA HandlerIsRow ==
  ASSUME NEW c, c.name \in DOMAIN system_call_table
  PROVE  IsRow(c.name, Handler(c))
  BY Rows, IcmpRow DEF Handler, IsIcmp

-----------------------------------------------------------------------------
(* The invariant.                                                          *)

IsObject(o) ==
    /\ o = [kind |-> o.kind, state |-> o.state, watches |-> o.watches]
    /\ o.kind \in {"icmp", "tcp", "open", "epoll_create", "pipe"}
    /\ o.state \in {"new", "connected", "listening"}

Entries == [type : {"none", "socket", "open", "epoll_create", "pipe"}, live : Int,
            state : {"none", "new", "listening", "connecting", "accepted"},
            icmp : BOOLEAN]

Shapes ==
    /\ fds \in [ScriptFds -> Entries]
    /\ Len(objs) \in Nat /\ DOMAIN objs = 1 .. Len(objs)
    /\ \A i \in DOMAIN objs : IsObject(objs[i])

\* An entry has the descriptor of what the script means, and of nothing else
Linked(fd) == /\ fds[fd].live \in LiveFds /\ means[fd] # 0
              /\ kernel[fds[fd].live] = means[fd]
Apart == \A a, b \in ScriptFds :
            Known(a) /\ Known(b) /\ fds[a].live = fds[b].live => a = b
Alone == \A m, n \in LiveFds : kernel[m] = kernel[n] /\ kernel[m] # 0 => m = n

\* A script that disconnects a socket expects it to succeed, and sendto() can
\* only do so with MSG_FASTOPEN: the handlers note it before they know
Unspec(e) == ~IsEllipsis(e) /\ S32(e) = AF_UNSPEC
DisconnectsSucceed == \A c \in Calls :
    /\ c.name = "connect" /\ Unspec(c.args[2]) => S32(c.result) >= 0
    /\ c.name = "sendto" /\ Unspec(c.args[5]) =>
          S32(c.result) >= 0 /\ S32(c.args[4]) = FASTOPEN

\* What ConnectionTracked says of one descriptor
Tracked(fd) ==
    DisconnectsSucceed /\ fds[fd].type = "socket" /\ objs[kernel[fds[fd].live]].kind = "tcp"
    /\ objs[kernel[fds[fd].live]].state # "new"
        => fds[fd].state # "new"

\* The call that has passed the checks of its arguments
Fd == S32(call.args[1])
Accepted ==
    /\ call \in Calls /\ call.name \in DOMAIN system_call_table
    /\ call.name \in FdCalls => Known(Fd)
    /\ call.name = "pipe" => PipeFd(call, 1) # PipeFd(call, 2)

\* Numbers whose entries differ from the kernel's table: the socket that a call
\* disconnects, while it may fail; and until they are recorded, what is closed
\* or listens
Disconnects == call.name \in {"connect", "sendto"} /\ Family(call) = AF_UNSPEC
Disconnecting(fd) == Disconnects /\ fd = Fd
Unrecorded(fd) == call.name \in {"close", "listen"} /\ fd = Fd

\* Between the checks and the live call
Calling ==
    /\ Accepted
    /\ \A fd \in ScriptFds : Known(fd) => Linked(fd) /\ (Disconnecting(fd) \/ Tracked(fd))
    /\ call.name \in FdCalls => live[1] = fds[Fd].live
    /\ call.name = "sendto" => live[4] = S32(call.args[4])
    /\ NamesAddress(call) /\ ~Disconnects => fds[Fd].state # "new"
    /\ KernelSeesScript

\* A descriptor that the kernel has made and no entry has
Unused(n) == n \in LiveFds /\ kernel[n] # 0
             /\ \A fd \in ScriptFds : Known(fd) => fds[fd].live # n

\* Between the live call and the records
Changing ==
    /\ Accepted
    /\ \A fd \in ScriptFds : Known(fd) =>
          /\ (call.name = "close" /\ fd = Fd) \/ Linked(fd)
          /\ Unrecorded(fd) \/ (Disconnecting(fd) /\ ~(answer.result >= 0)) \/ Tracked(fd)
    /\ call.name \in {"socket", "open", "epoll_create", "accept"} /\ answer.result >= 0 =>
          Unused(answer.result)
    /\ call.name = "socket" /\ answer.result >= 0 =>
          objs[kernel[answer.result]].state = "new"
    /\ call.name = "pipe" /\ answer.result >= 0 =>
          /\ Unused(answer.out[1]) /\ Unused(answer.out[2])
          /\ answer.out[1] # answer.out[2]

TypeInv == TypeOK /\ Shapes

IInv ==
    /\ TypeInv /\ Alone
    /\ pc \in {"passed", "called", "returned"} => Apart
    /\ pc = "passed" => \A fd \in ScriptFds : Known(fd) => Linked(fd) /\ Tracked(fd)
    /\ pc = "called" => Calling
    /\ pc = "returned" => Changing

-----------------------------------------------------------------------------
(* Numbers, descriptors and objects.                                       *)

\* get_s32() keeps what is no more than an s32 can be, and wraps the rest.
LEMMA S32Facts ==
  ASSUME NEW e, e.num \in Int, IsS32(e)
  PROVE  /\ S32(e) \in -Half .. Half - 1
         /\ (S32(e) - e.num) % U32 = 0
         /\ S32(e) >= 0 => S32(e) = e.num \/ e.num < 0
  <1>1. Half \in Nat \ {0} /\ e.num \in Int /\ e.num >= -Half /\ e.num < 2 * Half
    BY WidthsAssumption DEF IsS32, U32
  <1>2. S32(e) = IF e.num < Half THEN e.num ELSE e.num - 2 * Half
    BY <1>1 DEF S32, U32
  <1>3. 0 % U32 = 0 /\ (-(2 * Half)) % U32 = 0
    BY <1>1 DEF U32
  <1>4. S32(e) - e.num = 0 \/ S32(e) - e.num = -(2 * Half)
    BY <1>1, <1>2
  <1>5. QED
    BY <1>1, <1>2, <1>3, <1>4

\* A number of the script is what the expression says.
LEMMA FdFacts ==
  ASSUME NEW e, e.num \in Int, IsKnownFd(e)
  PROVE  S32(e) \in ScriptFds /\ Known(S32(e)) /\ S32(e) = e.num
  <1>1. Half \in Nat \ {0} /\ e.num \in Int /\ e.num >= -Half /\ e.num < 2 * Half
    BY WidthsAssumption DEF IsKnownFd, IsS32, U32
  <1>2. S32(e) = IF e.num < Half THEN e.num ELSE e.num - 2 * Half
    BY <1>1 DEF S32, U32
  <1>3. S32(e) \in ScriptFds /\ Known(S32(e))
    BY DEF IsKnownFd, Known
  <1>4. S32(e) >= 0
    <2>1. S32(e) \in 0 .. Half - 1
      BY <1>3, TableAssumption
    <2>2. QED
      BY <1>1, <2>1
  <1>5. QED
    BY <1>1, <1>2, <1>3, <1>4

\* The lowest free descriptor.
LEMMA MinIsLeast ==
  ASSUME NEW S \in SUBSET Nat, S # {}
  PROVE  Min(S) \in S /\ \A k \in S : Min(S) =< k
  <1>1. \E m \in S : \A k \in S : <<k, m>> \notin OpToRel(<, Nat)
    BY NatLessThanWellFounded, WFMin, ZenonT(40)
  <1>2. PICK m \in S : \A k \in S : <<k, m>> \notin OpToRel(<, Nat)
    BY <1>1
  <1>3. \A k \in S : ~(k < m)
    BY <1>2 DEF OpToRel
  <1>4. \A k \in S : m =< k
    BY <1>3
  <1>5. QED
    BY <1>4 DEF Min

LEMMA NewFdFacts ==
  ASSUME FreeFds # {}
  PROVE  NewFd \in LiveFds /\ kernel[NewFd] = 0
  <1>1. FreeFds \in SUBSET Nat
    BY TableAssumption DEF FreeFds, LiveFds
  <1>2. NewFd \in FreeFds
    BY <1>1, MinIsLeast DEF NewFd
  <1>3. QED
    BY <1>2 DEF FreeFds

\* And the two lowest, for a pipe().
LEMMA PipeFacts ==
  ASSUME Cardinality(FreeFds) >= 2
  PROVE  /\ NewFd \in LiveFds /\ kernel[NewFd] = 0
         /\ Min(FreeFds \ {NewFd}) \in LiveFds /\ kernel[Min(FreeFds \ {NewFd})] = 0
         /\ Min(FreeFds \ {NewFd}) # NewFd
  <1>1. FreeFds # {} /\ FreeFds \ {NewFd} # {}
    <2>1. Cardinality({}) = 0 /\ Cardinality({NewFd}) = 1
      BY FS_EmptySet, FS_Singleton
    <2>2. FreeFds # {} /\ FreeFds # {NewFd}
      BY <2>1
    <2>3. QED
      BY <2>2
  <1>2. FreeFds \ {NewFd} \in SUBSET Nat
    BY TableAssumption DEF FreeFds, LiveFds
  <1>3. Min(FreeFds \ {NewFd}) \in FreeFds \ {NewFd}
    BY <1>1, <1>2, MinIsLeast
  <1>4. QED
    BY <1>1, <1>3, NewFdFacts DEF FreeFds

\* What TypeInv says, in terms that do not depend on how long objs is.
LEMMA TypeFacts ==
  ASSUME TypeInv
  PROVE  /\ fds \in [ScriptFds -> Entries]
         /\ Len(objs) \in Nat /\ DOMAIN objs = 1 .. Len(objs)
         /\ kernel \in [LiveFds -> 0 .. Len(objs)]
         /\ means \in [ScriptFds -> 0 .. Len(objs)]
         /\ \A i \in 1 .. Len(objs) : IsObject(objs[i])
         /\ \A fd \in ScriptFds : ~Known(fd) <=> fds[fd].type = "none"
  BY DEF TypeInv, TypeOK, Shapes, Known

-----------------------------------------------------------------------------
(* The checks of the arguments.                                            *)

Checked(c) == /\ c.name \in DOMAIN system_call_table
              /\ HasForm(c) /\ Consistent(c) /\ Prepared(c)

\* check_arg_count() and the types of the arguments: the form is that of all
\* arguments.
LEMMA FormFacts ==
  ASSUME NEW c \in Calls, Checked(c)
  PROVE  /\ FormOf(c) \in Handler(c).args /\ DOMAIN FormOf(c) = DOMAIN c.args
         /\ \A i \in DOMAIN c.args : Fits(FormOf(c)[i], c.args[i])
  <1>1. PICK f \in Handler(c).args :
           Len(f) = Len(c.args) /\ \A i \in DOMAIN f : Fits(f[i], c.args[i])
    BY DEF Checked, HasForm
  <1>2. IsRow(c.name, Handler(c))
    BY HandlerIsRow DEF Checked
  <1>3. FormOf(c) \in Handler(c).args /\ Len(FormOf(c)) = Len(c.args)
    BY <1>1 DEF FormOf
  <1>4. FormOf(c) = f
    BY <1>1, <1>2, <1>3 DEF IsRow
  <1>5. DOMAIN f = 1 .. Len(f)
    BY <1>2 DEF IsRow
  <1>6. DOMAIN c.args = 1 .. Len(c.args)
    BY CallsAssumption
  <1>7. QED
    BY <1>1, <1>4, <1>5, <1>6

\* What the handlers of calls on a descriptor, and of sendto(), have read.
LEMMA ArgFacts ==
  ASSUME NEW c \in Calls, Checked(c)
  PROVE  /\ c.name \in FdCalls =>
               /\ 1 \in DOMAIN c.args /\ FormOf(c)[1] = "fd"
               /\ S32(c.args[1]) \in ScriptFds /\ Known(S32(c.args[1]))
         /\ c.name = "sendto" => 4 \in DOMAIN c.args /\ FormOf(c)[4] = "s32"
         /\ NamesAddress(c) => c.name \in {"connect", "sendto", "sendmsg"}
  <1>1. IsRow(c.name, Handler(c))
    BY HandlerIsRow DEF Checked
  <1>2. ASSUME c.name \in FdCalls
        PROVE  /\ 1 \in DOMAIN c.args /\ FormOf(c)[1] = "fd"
               /\ S32(c.args[1]) \in ScriptFds /\ Known(S32(c.args[1]))
    <2>1. 1 \in DOMAIN c.args /\ FormOf(c)[1] = "fd"
      BY <1>1, <1>2, FormFacts DEF IsRow
    <2>2. IsKnownFd(c.args[1])
      BY <2>1, FormFacts DEF Fits
    <2>3. QED
      BY <2>1, <2>2 DEF IsKnownFd, Known
  <1>3. c.name = "sendto" => 4 \in DOMAIN c.args /\ FormOf(c)[4] = "s32"
    BY <1>1, FormFacts DEF IsRow
  <1>4. NamesAddress(c) => c.name \in {"connect", "sendto", "sendmsg"}
    BY <1>1 DEF NamesAddress, IsRow
  <1>5. QED
    BY <1>2, <1>3, <1>4

\* The handler is chosen by what an entry is, not by its state.
LEMMA SameForm ==
  ASSUME NEW c, call' = c,
         \A fd \in ScriptFds : fds'[fd].type = fds[fd].type /\ fds'[fd].icmp = fds[fd].icmp
  PROVE  Handler(call)' = Handler(c) /\ FormOf(call)' = FormOf(c)
  <1>1. \A fd : Known(fd)' = Known(fd)
    BY DEF Known
  <1>2. IsIcmp(call)' = IsIcmp(c)
    BY DEF IsIcmp, IsKnownFd, Known
  <1>3. Handler(call)' = Handler(c)
    BY <1>2 DEF Handler
  <1>4. QED
    BY <1>3 DEF FormOf

\* run_syscall_connect(): no more than the state of one socket changes.
LEMMA BeforeFacts ==
  ASSUME TypeInv, NEW c \in Calls, Checked(c), fds' = Before(c)
  PROVE  /\ fds' \in [ScriptFds -> Entries]
         /\ \A fd \in ScriptFds :
               /\ fds'[fd].type = fds[fd].type /\ fds'[fd].icmp = fds[fd].icmp
               /\ fds'[fd].live = fds[fd].live
               /\ fds'[fd].state =
                     IF NamesAddress(c) /\ fd = S32(c.args[1])
                       THEN ConnectState(fds[fd].state, Family(c)) ELSE fds[fd].state
               /\ NamesAddress(c) /\ fd = S32(c.args[1]) => fds[fd].type = "socket"
  <1>1. CASE ~NamesAddress(c)
    BY <1>1, TypeFacts DEF Before
  <1>2. CASE NamesAddress(c)
    <2>1. PICK s \in ScriptFds : s = S32(c.args[1])
      BY <1>2, ArgFacts DEF FdCalls
    <2>2. PICK st : st = ConnectState(fds[s].state, Family(c))
      OBVIOUS
    <2>3. fds[s] \in Entries /\ fds[s].type = "socket"
      BY <1>2, <2>1, TypeFacts DEF Checked, Prepared
    <2>4. st \in {"none", "new", "listening", "connecting", "accepted"}
      BY <2>2, <2>3 DEF ConnectState, Entries
    <2>5. PICK e : e = [fds[s] EXCEPT !.state = st]
      OBVIOUS
    <2>6. /\ e \in Entries /\ e.state = st /\ e.type = fds[s].type
          /\ e.live = fds[s].live /\ e.icmp = fds[s].icmp
      BY <2>3, <2>4, <2>5 DEF Entries
    <2>7. fds' = [fds EXCEPT ![s] = e]
      BY <1>2, <2>1, <2>2, <2>5, TypeFacts DEF Before
    <2>8. QED
      BY <1>2, <2>1, <2>2, <2>3, <2>6, <2>7, TypeFacts
  <1>3. QED
    BY <1>1, <1>2

\* Whatever was made and closed before, the live call is given what the script
\* means.
LEMMA InvokeSees ==
  ASSUME TypeInv, NEW c \in Calls, Checked(c), call' = c, live' = LiveArgs(c),
         fds' = Before(c), UNCHANGED <<means, kernel>>,
         \A fd \in ScriptFds : Known(fd) => Linked(fd)
  PROVE  KernelSeesScript'
  <1>1. Handler(call)' = Handler(c) /\ FormOf(call)' = FormOf(c)
    BY BeforeFacts, SameForm
  <1>2. DOMAIN c.args = 1 .. Len(c.args) /\ DOMAIN live' = DOMAIN c.args
    BY CallsAssumption DEF LiveArgs
  <1>3. \A fd : Known(fd) => Reaches(fds[fd].live, fd)
    BY DEF Linked, Reaches, Known
  <1>4. ASSUME NEW i \in DOMAIN c.args, NEW form, form = FormOf(c)[i],
               NEW e, e = c.args[i]
        PROVE  /\ form = "fd" => Reaches(live'[i], e.num)
               /\ form = "s32" => Wraps(live'[i], e.num)
               /\ form = "pollfds" => \A k \in DOMAIN e.elems :
                                         Reaches(live'[i][k], S32(e.elems[k].fd))
               /\ (form = "epollev" /\ e.kind = "fd") => Reaches(live'[i].num, S32(e.data))
    <2>1. live'[i] = LiveArg(form, e)
      BY <1>4 DEF LiveArgs
    <2>2. Fits(form, e)
      BY <1>4, FormFacts
    <2>3. e.type = "integer" => e.num \in Int
      BY <1>4, CallsAssumption
    <2>4. ASSUME form = "fd"
          PROVE  Reaches(live'[i], e.num)
      <3>1. IsKnownFd(e) /\ e.num \in Int
        BY <2>2, <2>3, <2>4 DEF Fits, IsKnownFd, IsS32
      <3>2. live'[i] = fds[e.num].live /\ Known(e.num)
        BY <2>1, <2>4, <3>1, FdFacts DEF LiveArg, LiveFd
      <3>3. QED
        BY <1>3, <3>2
    <2>5. ASSUME form = "s32"
          PROVE  Wraps(live'[i], e.num)
      <3>1. IsS32(e) /\ e.num \in Int
        BY <2>2, <2>3, <2>5 DEF Fits, IsS32
      <3>2. live'[i] = S32(e)
        BY <2>1, <2>5 DEF LiveArg
      <3>3. QED
        BY <3>1, <3>2, S32Facts DEF Wraps
    <2>6. ASSUME form = "pollfds", NEW k \in DOMAIN e.elems
          PROVE  Reaches(live'[i][k], S32(e.elems[k].fd))
      <3>1. Known(S32(e.elems[k].fd))
        BY <2>2, <2>6 DEF Fits
      <3>2. live'[i][k] = fds[S32(e.elems[k].fd)].live
        BY <2>1, <2>6 DEF LiveArg, LiveFd
      <3>3. QED
        BY <1>3, <3>1, <3>2
    <2>7. ASSUME form = "epollev", e.kind = "fd"
          PROVE  Reaches(live'[i].num, S32(e.data))
      <3>1. Known(S32(e.data))
        BY <2>2, <2>7 DEF Fits, IsEpollev
      <3>2. live'[i].num = fds[S32(e.data)].live
        BY <2>1, <2>7 DEF LiveArg, LiveFd
      <3>3. QED
        BY <1>3, <3>1, <3>2
    <2>8. QED
      BY <2>4, <2>5, <2>6, <2>7
  <1>5. \A n, fd : Reaches(n, fd)' = Reaches(n, fd)
    BY DEF Reaches
  <1>6. \A n, m : Wraps(n, m)' = Wraps(n, m)
    BY DEF Wraps
  <1>7. QED
    BY <1>1, <1>2, <1>4, <1>5, <1>6 DEF KernelSeesScript

LEMMA InvokeTypes ==
  ASSUME TypeInv, NEW c \in Calls, InvokeSystemCall(c)
  PROVE  TypeInv'
  <1>1. calls' \in 0 .. MaxCalls
    BY LengthAssumption DEF InvokeSystemCall, TypeInv, TypeOK
  <1>2. UNCHANGED <<means, kernel, objs>> /\ pc' \in {"called", "rejected"}
    BY DEF InvokeSystemCall
  <1>3. CASE fds' = fds
    BY <1>1, <1>2, <1>3 DEF TypeInv, TypeOK, Shapes
  <1>4. CASE Checked(c) /\ fds' = Before(c)
    <2>1. fds' \in [ScriptFds -> Entries]
      BY <1>4, BeforeFacts
    <2>2. ASSUME NEW fd \in ScriptFds
          PROVE  /\ fds'[fd].type \in {"none", "socket", "open", "epoll_create", "pipe"}
                 /\ fds'[fd].live \in LiveFds \union {-1}
                 /\ fds'[fd].state \in IF fds'[fd].type = "socket"
                       THEN {"new", "listening", "connecting", "accepted"} ELSE {"none"}
      BY <1>4, BeforeFacts DEF TypeInv, TypeOK, ConnectState
    <2>3. QED
      BY <1>1, <1>2, <2>1, <2>2 DEF TypeInv, TypeOK, Shapes
  <1>5. QED
    BY <1>3, <1>4 DEF InvokeSystemCall, Checked

LEMMA InvokeInv ==
  ASSUME IInv, NEW c \in Calls, InvokeSystemCall(c), Careful(c)
  PROVE  IInv'
  <1>1. TypeInv' /\ TypeInv
    BY InvokeTypes DEF IInv
  <1>2. UNCHANGED <<means, kernel, objs>> /\ pc = "passed" /\ call' = c
    BY DEF InvokeSystemCall
  <1>3. Alone'
    BY <1>2 DEF IInv, Alone
  <1>4. CASE pc' = "rejected"
    BY <1>1, <1>3, <1>4 DEF IInv
  <1>5. CASE Checked(c) /\ live' = LiveArgs(c) /\ fds' = Before(c) /\ pc' = "called"
    <2>1. Apart /\ \A fd \in ScriptFds : Known(fd) => Linked(fd) /\ Tracked(fd)
      BY <1>2 DEF IInv
    <2>2. \A fd \in ScriptFds :
             /\ fds'[fd].type = fds[fd].type /\ fds'[fd].icmp = fds[fd].icmp
             /\ fds'[fd].live = fds[fd].live
             /\ fds'[fd].state =
                   IF NamesAddress(c) /\ fd = S32(c.args[1])
                     THEN ConnectState(fds[fd].state, Family(c)) ELSE fds[fd].state
      BY <1>1, <1>5, BeforeFacts
    <2>3. \A fd : Known(fd)' = Known(fd)
      BY <2>2 DEF Known
    <2>4. Apart'
      BY <2>1, <2>2, <2>3 DEF Apart
    <2>5. Handler(call)' = Handler(c) /\ FormOf(call)' = FormOf(c)
      BY <1>2, <2>2, SameForm
    <2>6. NamesAddress(call)' = NamesAddress(c) /\ Family(call)' = Family(c)
          /\ Fd' = S32(c.args[1])
      BY <1>2, <2>5 DEF NamesAddress, Family, LiveArg, Fd
    <2>7. NamesAddress(c) => c.name \in {"connect", "sendto", "sendmsg"}
      BY <1>5, ArgFacts
    <2>8. Accepted'
      <3>1. c.name \in FdCalls => Known(S32(c.args[1]))
        BY <1>5, ArgFacts
      <3>2. QED
        BY <1>2, <1>5, <2>3, <2>6, <3>1 DEF Accepted, Careful, Checked
    <2>9. ASSUME NEW fd \in ScriptFds, Known(fd)
          PROVE  Linked(fd)' /\ (Disconnecting(fd)' \/ Tracked(fd)')
      <3>1. Linked(fd)'
        BY <1>2, <2>1, <2>2, <2>9 DEF Linked
      <3>2. Tracked(fd)
        BY <2>1, <2>9
      <3>3. CASE fds'[fd].state = fds[fd].state
        <4>1. kernel' = kernel /\ objs' = objs
          BY <1>2
        <4>2. fds'[fd].live = fds[fd].live /\ fds'[fd].type = fds[fd].type
          BY <2>2
        <4>3. Tracked(fd)'
          BY <3>2, <3>3, <4>1, <4>2 DEF Tracked
        <4>4. QED
          BY <3>1, <4>3
      <3>4. CASE NamesAddress(c) /\ fd = S32(c.args[1]) /\ Family(c) = AF_UNSPEC
        <4>1. c.name \in {"connect", "sendto"}
          BY <3>4, <2>7 DEF Family, AF_UNSPEC
        <4>2. Disconnecting(fd)'
          BY <1>2, <2>6, <3>4, <4>1 DEF Disconnecting, Disconnects
        <4>3. QED
          BY <3>1, <4>2
      <3>5. CASE NamesAddress(c) /\ fd = S32(c.args[1]) /\ Family(c) # AF_UNSPEC
        <4>1. fds'[fd].state # "new"
          BY <2>2, <3>5 DEF ConnectState
        <4>2. QED
          BY <3>1, <4>1 DEF Tracked
      <3>6. QED
        BY <2>2, <3>1, <3>3, <3>4, <3>5
    <2>10. c.name \in FdCalls => live'[1] = fds'[S32(c.args[1])].live
      <3>1. SUFFICES ASSUME c.name \in FdCalls
                     PROVE  live'[1] = fds'[S32(c.args[1])].live
        OBVIOUS
      <3>2. /\ 1 \in DOMAIN c.args /\ FormOf(c)[1] = "fd"
            /\ S32(c.args[1]) \in ScriptFds
        BY <1>5, <3>1, ArgFacts
      <3>3. live'[1] = LiveArg("fd", c.args[1])
        BY <1>5, <3>2 DEF LiveArgs
      <3>4. live'[1] = fds[S32(c.args[1])].live
        BY <3>3 DEF LiveArg, LiveFd
      <3>5. QED
        BY <2>2, <3>2, <3>4
    <2>11. c.name = "sendto" => live'[4] = S32(c.args[4])
      BY <1>5, ArgFacts DEF LiveArgs, LiveArg
    <2>12. NamesAddress(c) /\ ~Disconnects' => fds'[S32(c.args[1])].state # "new"
      <3>1. SUFFICES ASSUME NamesAddress(c), ~Disconnects'
                     PROVE  fds'[S32(c.args[1])].state # "new"
        OBVIOUS
      <3>2. Family(c) # AF_UNSPEC
        BY <1>2, <2>6, <2>7, <3>1 DEF Disconnects, Family, AF_UNSPEC
      <3>3. S32(c.args[1]) \in ScriptFds
        BY <1>5, <2>7, <3>1, ArgFacts DEF FdCalls
      <3>4. QED
        BY <2>2, <3>1, <3>2, <3>3 DEF ConnectState
    <2>13. KernelSeesScript'
      BY <1>1, <1>2, <1>5, <2>1, InvokeSees
    <2>14. Calling'
      BY <1>2, <2>3, <2>6, <2>8, <2>9, <2>10, <2>11, <2>12, <2>13 DEF Calling
    <2>15. QED
      BY <1>1, <1>3, <1>5, <2>4, <2>14 DEF IInv
  <1>6. QED
    BY <1>4, <1>5 DEF InvokeSystemCall, Checked

-----------------------------------------------------------------------------
(* The live call.                                                          *)

\* The handler waits
Waiting == pc = "called" /\ pc' = "returned" /\ UNCHANGED <<fds, call, live, means, calls>>

\* A call that disconnects is one of those of DisconnectsSucceed.
LEMMA DisconnectFacts ==
  ASSUME Accepted, Disconnects, DisconnectsSucceed
  PROVE  /\ S32(call.result) >= 0
         /\ call.name = "sendto" => S32(call.args[4]) = FASTOPEN
  <1>1. call \in Calls /\ call.name \in {"connect", "sendto"}
    BY DEF Accepted, Disconnects
  <1>2. call.name = "connect" => Unspec(call.args[2])
    BY DEF Disconnects, Family, LiveArg, Unspec, AF_UNSPEC
  <1>3. call.name = "sendto" => Unspec(call.args[5])
    BY DEF Disconnects, Family, LiveArg, Unspec, AF_UNSPEC
  <1>4. QED
    BY <1>1, <1>2, <1>3 DEF DisconnectsSucceed

\* The records do not change while the kernel works.
LEMMA WaitingFacts ==
  ASSUME IInv, Waiting
  PROVE  /\ TypeInv /\ Calling /\ Accepted' /\ Apart /\ Apart'
         /\ \A fd : Known(fd)' = Known(fd)
         /\ Fd' = Fd /\ Disconnects' = Disconnects
         /\ \A fd : Disconnecting(fd)' = Disconnecting(fd)
         /\ \A fd : Unrecorded(fd)' = Unrecorded(fd)
  <1>1. UNCHANGED <<fds, call, live, means, calls>> /\ TypeInv /\ Calling /\ Apart
    BY DEF Waiting, IInv
  <1>2. \A fd : Known(fd)' = Known(fd)
    BY <1>1 DEF Known
  <1>3. Fd' = Fd
    BY <1>1 DEF Fd
  <1>4. Disconnects' = Disconnects
    BY <1>1 DEF Disconnects, Family, LiveArg
  <1>5. Accepted' /\ Apart'
    BY <1>1, <1>2, <1>3 DEF Calling, Accepted, Apart
  <1>6. QED
    BY <1>1, <1>2, <1>3, <1>4, <1>5 DEF Disconnecting, Unrecorded

\* The object of a descriptor that the script knows.
LEMMA LinkFacts ==
  ASSUME TypeInv, NEW fd \in ScriptFds, Linked(fd)
  PROVE  /\ fds[fd].live \in LiveFds /\ kernel[fds[fd].live] # 0
         /\ kernel[fds[fd].live] \in 1 .. Len(objs)
         /\ IsObject(objs[kernel[fds[fd].live]])
  <1>1. kernel[fds[fd].live] \in 0 .. Len(objs) /\ kernel[fds[fd].live] # 0
    BY TypeFacts DEF Linked
  <1>2. QED
    BY <1>1, TypeFacts DEF Linked

\* The types, when the kernel has changed its table and its objects.
LEMMA KernelTypes ==
  ASSUME TypeInv, Waiting, NEW n \in Nat, n >= Len(objs),
         kernel' \in [LiveFds -> 0 .. n],
         Len(objs') = n, DOMAIN objs' = 1 .. n, \A i \in 1 .. n : IsObject(objs'[i])
  PROVE  TypeInv'
  <1>1. UNCHANGED <<fds, means, calls>> /\ pc' = "returned"
    BY DEF Waiting
  <1>2. Shapes'
    BY <1>1 DEF TypeInv, Shapes, IsObject
  <1>3. means' \in [ScriptFds -> 0 .. Len(objs')]
    BY <1>1, TypeFacts
  <1>4. TypeOK'
    BY <1>1, <1>3 DEF TypeInv, TypeOK
  <1>5. QED
    BY <1>2, <1>4 DEF TypeInv

Makers == {"socket", "open", "epoll_create", "accept"}

\* The kernel keeps its table, and the kinds and the states of its objects.
LEMMA SteadyInv ==
  ASSUME IInv, Waiting, kernel' = kernel,
         Len(objs') = Len(objs), DOMAIN objs' = 1 .. Len(objs),
         \A i \in 1 .. Len(objs) :
            /\ IsObject(objs'[i])
            /\ objs'[i].kind = objs[i].kind /\ objs'[i].state = objs[i].state,
         ~(answer'.result >= 0) \/ (call.name \notin Makers \union {"pipe"}
                                /\ (DisconnectsSucceed => ~Disconnects))
  PROVE  IInv'
  <1>1. TypeInv'
    BY KernelTypes, TypeFacts DEF IInv
  <1>2. Alone'
    BY DEF IInv, Alone
  <1>3. ASSUME NEW fd \in ScriptFds, Known(fd)
        PROVE  Linked(fd)' /\ ((Disconnecting(fd) /\ ~(answer'.result >= 0)) \/ Tracked(fd)')
    <2>1. fds' = fds /\ means' = means
      BY DEF Waiting
    <2>2. Linked(fd) /\ (Disconnecting(fd) \/ Tracked(fd)) /\ TypeInv
      BY <1>3, WaitingFacts DEF Calling
    <2>3. Linked(fd)'
      BY <2>1, <2>2 DEF Linked
    <2>4. ASSUME Tracked(fd)
          PROVE  Tracked(fd)'
      BY <2>1, <2>2, <2>4, LinkFacts DEF Tracked
    <2>5. ASSUME Disconnecting(fd), answer'.result >= 0
          PROVE  Tracked(fd)'
      BY <2>5 DEF Disconnecting, Tracked
    <2>6. QED
      BY <2>2, <2>3, <2>4, <2>5
  <1>4. call' = call
    BY DEF Waiting
  <1>5. ~(answer'.result >= 0 /\ call.name \in Makers \union {"pipe"})
    OBVIOUS
  <1>6. Changing'
    BY <1>3, <1>4, <1>5, WaitingFacts DEF Changing, Makers
  <1>7. QED
    BY <1>1, <1>2, <1>6, WaitingFacts DEF IInv, Waiting

LEMMA SameObjects ==
  ASSUME IInv, objs' = objs
  PROVE  /\ Len(objs') = Len(objs) /\ DOMAIN objs' = 1 .. Len(objs)
         /\ \A i \in 1 .. Len(objs) :
               /\ IsObject(objs'[i])
               /\ objs'[i].kind = objs[i].kind /\ objs'[i].state = objs[i].state
  BY TypeFacts DEF IInv

LEMMA FailInv ==
  ASSUME IInv, Waiting, Fail
  PROVE  IInv'
  <1>1. answer'.result = -1 /\ kernel' = kernel /\ objs' = objs
    BY DEF Fail, Answers
  <1>2. ~(answer'.result >= 0)
    BY <1>1
  <1>3. QED
    BY <1>1, <1>2, SameObjects, SteadyInv

LEMMA ReportsInv ==
  ASSUME IInv, Waiting, Reports
  PROVE  IInv'
  <1>1. kernel' = kernel /\ objs' = objs
    BY DEF Reports
  <1>2. call.name \in {"epoll_wait", "poll", "recvmsg", "getsockopt", "ioctl"}
    BY DEF Reports
  <1>3. call.name \notin Makers \union {"pipe"} /\ ~Disconnects
    BY <1>2 DEF Makers, Disconnects
  <1>4. QED
    BY <1>1, <1>3, SameObjects, SteadyInv

\* sendto() without MSG_FASTOPEN disconnects nothing, and no script means it to.
LEMMA SucceedsInv ==
  ASSUME IInv, Waiting, Succeeds
  PROVE  IInv'
  <1>1. kernel' = kernel /\ objs' = objs
    BY DEF Succeeds
  <1>2. call.name \in Silent \/ (call.name \in {"sendto", "sendmsg"} /\ ~Connecting)
    BY DEF Succeeds
  <1>3. call.name \notin Makers \union {"pipe"}
    BY <1>2 DEF Makers, Silent
  <1>4. ASSUME DisconnectsSucceed, Disconnects
        PROVE  FALSE
    <2>1. call.name = "sendto" /\ ~Connecting
      BY <1>2, <1>4 DEF Disconnects, Silent
    <2>2. live[4] = S32(call.args[4]) /\ Accepted
      BY <2>1, WaitingFacts DEF Calling
    <2>3. S32(call.args[4]) = FASTOPEN
      BY <1>4, <2>1, <2>2, DisconnectFacts
    <2>4. QED
      BY <2>1, <2>2, <2>3 DEF Connecting
  <1>5. QED
    BY <1>1, <1>3, <1>4, SameObjects, SteadyInv

\* An epoll set changes, which is no socket.
LEMMA WatchesInv ==
  ASSUME IInv, Waiting, Watches
  PROVE  IInv'
  <1>1. PICK new : objs' = [objs EXCEPT ![kernel[live[1]]].watches = new]
    BY DEF Watches
  <1>2. kernel' = kernel /\ call.name = "epoll_ctl"
    BY DEF Watches
  <1>3. Len(objs') = Len(objs) /\ DOMAIN objs' = 1 .. Len(objs)
    BY <1>1, TypeFacts DEF IInv
  <1>4. ASSUME NEW i \in 1 .. Len(objs)
        PROVE  /\ IsObject(objs'[i])
               /\ objs'[i].kind = objs[i].kind /\ objs'[i].state = objs[i].state
    <2>1. IsObject(objs[i]) /\ i \in DOMAIN objs
      BY <1>4, TypeFacts DEF IInv
    <2>2. objs'[i] = objs[i] \/ objs'[i] = [objs[i] EXCEPT !.watches = new]
      BY <1>1, <2>1
    <2>3. QED
      BY <2>1, <2>2 DEF IsObject
  <1>5. call.name \notin Makers \union {"pipe"} /\ ~Disconnects
    BY <1>2 DEF Makers, Disconnects
  <1>6. QED
    BY <1>2, <1>3, <1>4, <1>5, SteadyInv

\* The state of one socket changes, that of the call.
LEMMA SetStateFacts ==
  ASSUME IInv, NEW state \in {"new", "connected", "listening"}, SetState(state)
  PROVE  /\ Len(objs') = Len(objs) /\ DOMAIN objs' = 1 .. Len(objs)
         /\ \A i \in 1 .. Len(objs) :
               /\ IsObject(objs'[i]) /\ objs'[i].kind = objs[i].kind
               /\ objs'[i].state = IF i = kernel[live[1]] THEN state ELSE objs[i].state
  <1>1. objs' = [objs EXCEPT ![kernel[live[1]]].state = state]
    BY DEF SetState
  <1>2. Len(objs') = Len(objs) /\ DOMAIN objs' = 1 .. Len(objs)
    BY <1>1, TypeFacts DEF IInv
  <1>3. ASSUME NEW i \in 1 .. Len(objs)
        PROVE  /\ IsObject(objs'[i]) /\ objs'[i].kind = objs[i].kind
               /\ objs'[i].state = IF i = kernel[live[1]] THEN state ELSE objs[i].state
    <2>1. IsObject(objs[i]) /\ i \in DOMAIN objs
      BY <1>3, TypeFacts DEF IInv
    <2>2. objs'[i] = IF i = kernel[live[1]] THEN [objs[i] EXCEPT !.state = state]
                                            ELSE objs[i]
      BY <1>1, <2>1
    <2>3. QED
      BY <2>1, <2>2 DEF IsObject
  <1>4. QED
    BY <1>2, <1>3

\* Two numbers of the script are never one object.
LEMMA OneNumber ==
  ASSUME IInv, pc = "called", NEW a \in ScriptFds, Known(a), NEW b \in ScriptFds, Known(b),
         kernel[fds[a].live] = kernel[fds[b].live]
  PROVE  a = b
  <1>1. Linked(a) /\ Linked(b) /\ Apart /\ Alone
    BY DEF IInv, Calling
  <1>2. fds[a].live = fds[b].live
    BY <1>1 DEF Linked, Alone
  <1>3. QED
    BY <1>1, <1>2 DEF Apart

\* connect(), listen() and the sends that connect: only the socket of the call
\* can be one that the records do not show.
LEMMA SetStateInv ==
  ASSUME IInv, Waiting, NEW state \in {"new", "connected", "listening"}, SetState(state),
         kernel' = kernel,
         call.name \in {"connect", "sendto", "sendmsg", "listen"},
         \/ state = "new"
         \/ call.name = "listen"
         \/ fds[Fd].state # "new"
  PROVE  IInv'
  <1>1. TypeInv' /\ Alone'
    BY SetStateFacts, KernelTypes, TypeFacts DEF IInv, Alone
  <1>2. fds' = fds /\ means' = means /\ call' = call /\ pc = "called"
    BY DEF Waiting
  <1>3. Known(Fd) /\ Fd \in ScriptFds /\ live[1] = fds[Fd].live
    BY WaitingFacts DEF Calling, Accepted, FdCalls, Known
  <1>4. ASSUME NEW fd \in ScriptFds, Known(fd)
        PROVE  /\ Linked(fd)'
               /\ \/ Unrecorded(fd)
                  \/ Disconnecting(fd) /\ ~(answer'.result >= 0)
                  \/ Tracked(fd)'
    <2>1. Linked(fd) /\ (Disconnecting(fd) \/ Tracked(fd)) /\ TypeInv
      BY <1>4, WaitingFacts DEF Calling
    <2>2. Linked(fd)'
      BY <1>2, <2>1 DEF Linked
    <2>3. PICK i \in 1 .. Len(objs) : i = kernel[fds[fd].live]
      BY <2>1, LinkFacts
    <2>4. objs'[i].kind = objs[i].kind
          /\ objs'[i].state = IF i = kernel[live[1]] THEN state ELSE objs[i].state
      BY SetStateFacts
    <2>5. CASE fd # Fd
      <3>1. i # kernel[live[1]]
        BY <1>2, <1>3, <1>4, <2>3, <2>5, OneNumber
      <3>2. Tracked(fd)
        BY <2>1, <2>5 DEF Disconnecting
      <3>3. Tracked(fd)'
        BY <1>2, <2>3, <2>4, <3>1, <3>2 DEF Tracked
      <3>4. QED
        BY <2>2, <3>3
    <2>6. CASE fd = Fd
      <3>1. objs'[i].state = state
        BY <1>3, <2>3, <2>4, <2>6
      <3>2. CASE call.name = "listen"
        BY <2>2, <2>6, <3>2 DEF Unrecorded
      <3>3. CASE state = "new" \/ fds[Fd].state # "new"
        BY <1>2, <2>2, <2>3, <2>6, <3>1, <3>3 DEF Tracked
      <3>4. QED
        BY <3>2, <3>3
    <2>7. QED
      BY <2>5, <2>6
  <1>5. call.name \notin Makers \union {"pipe"}
    BY DEF Makers
  <1>6. Changing'
    BY <1>2, <1>4, <1>5, WaitingFacts DEF Changing, Makers
  <1>7. QED
    BY <1>1, <1>6, WaitingFacts DEF IInv, Waiting

LEMMA ConnectsInv ==
  ASSUME IInv, Waiting, Connects
  PROVE  IInv'
  <1>1. call.name \in {"connect", "sendto", "sendmsg"} /\ kernel' = kernel
    BY DEF Connects, Connecting
  <1>2. NamesAddress(call)
    <2>1. IsRow(call.name, Handler(call))
      BY WaitingFacts, HandlerIsRow DEF Calling, Accepted
    <2>2. call.name = "sendmsg" => call.args[2].name
      BY DEF Connects, Connecting
    <2>3. QED
      BY <1>1, <2>1, <2>2 DEF IsRow, NamesAddress
  <1>3. CASE Family(call) = AF_UNSPEC
    <2>1. SetState("new")
      BY <1>3 DEF Connects, Answers
    <2>2. QED
      BY <1>1, <2>1, SetStateInv
  <1>4. CASE Family(call) # AF_UNSPEC
    <2>1. fds[Fd].state # "new"
      BY <1>2, <1>4, WaitingFacts DEF Calling, Disconnects
    <2>2. SetState("connected") \/ (answer'.result = -1 /\ objs' = objs)
      <3>1. \/ SetState("connected")
            \/ (Answers(-1, "EISCONN", 0) \/ Answers(-1, "ECONNREFUSED", 0)) /\ objs' = objs
        BY <1>4 DEF Connects
      <3>2. QED
        BY <3>1 DEF Answers
    <2>3. CASE SetState("connected")
      BY <1>1, <2>1, <2>3, SetStateInv
    <2>4. CASE answer'.result = -1 /\ objs' = objs
      <3>1. ~(answer'.result >= 0)
        BY <2>4
      <3>2. QED
        BY <1>1, <2>4, <3>1, SameObjects, SteadyInv
    <2>5. QED
      BY <2>2, <2>3, <2>4
  <1>5. QED
    BY <1>3, <1>4

LEMMA ListensInv ==
  ASSUME IInv, Waiting, Listens
  PROVE  IInv'
  BY SetStateInv DEF Listens

LEMMA LenIs ==
  ASSUME NEW s, NEW n \in Nat, DOMAIN s = 1 .. n
  PROVE  Len(s) = n
  OBVIOUS

\* A descriptor is closed, and with it only what the script closes.
LEMMA ClosesInv ==
  ASSUME IInv, Waiting, Closes
  PROVE  IInv'
  <1>1. fds' = fds /\ means' = means /\ call' = call /\ pc = "called"
    BY DEF Waiting
  <1>2. call.name = "close" /\ kernel' = [kernel EXCEPT ![live[1]] = 0]
    BY DEF Closes
  <1>3. Known(Fd) /\ Fd \in ScriptFds /\ live[1] = fds[Fd].live
    BY <1>2, WaitingFacts DEF Calling, Accepted, FdCalls, Known
  <1>4. Len(objs') = Len(objs) /\ DOMAIN objs' = 1 .. Len(objs)
    <2>1. DOMAIN objs = 1 .. Len(objs) /\ Len(objs) \in Nat /\ DOMAIN objs' = DOMAIN objs
      BY TypeFacts DEF IInv, Closes
    <2>2. Len(objs') = Len(objs)
      BY <2>1, LenIs DEF Closes
    <2>3. QED
      BY <2>1, <2>2
  <1>5. ASSUME NEW i \in 1 .. Len(objs)
        PROVE  /\ IsObject(objs'[i])
               /\ objs'[i].kind = objs[i].kind /\ objs'[i].state = objs[i].state
    <2>1. IsObject(objs[i]) /\ i \in DOMAIN objs
      BY <1>5, TypeFacts DEF IInv
    <2>2. PICK new : objs'[i] = [objs[i] EXCEPT !.watches = new]
      BY <2>1 DEF Closes
    <2>3. QED
      BY <2>1, <2>2 DEF IsObject
  <1>6. TypeInv'
    <2>1. PICK len \in Nat : len = Len(objs)
      BY TypeFacts DEF IInv
    <2>2. TypeInv /\ kernel \in [LiveFds -> 0 .. len]
      BY <2>1, TypeFacts DEF IInv
    <2>3. PICK n \in LiveFds : n = live[1]
      BY <1>3, WaitingFacts DEF Calling, Linked
    <2>4. kernel' = [kernel EXCEPT ![n] = 0]
      BY <1>2, <2>3
    <2>5. kernel' \in [LiveFds -> 0 .. len]
      BY <2>2, <2>4
    <2>6. Len(objs') = len /\ DOMAIN objs' = 1 .. len
          /\ \A i \in 1 .. len : IsObject(objs'[i])
      BY <1>4, <1>5, <2>1
    <2>7. len >= Len(objs)
      BY <2>1
    <2>8. QED
      BY <2>2, <2>5, <2>6, <2>7, KernelTypes
  <1>7. Alone'
    BY <1>2, TypeFacts DEF IInv, Alone
  <1>8. ASSUME NEW fd \in ScriptFds, Known(fd), fd # Fd
        PROVE  Linked(fd)' /\ Tracked(fd)'
    <2>1. Linked(fd) /\ Tracked(fd) /\ TypeInv /\ Apart
      BY <1>2, <1>8, WaitingFacts DEF Calling, Disconnecting
    <2>2. fds[fd].live # live[1]
      BY <1>3, <1>8, <2>1 DEF Apart
    <2>3. kernel'[fds[fd].live] = kernel[fds[fd].live]
      BY <1>2, <2>1, <2>2, TypeFacts DEF Linked
    <2>4. Linked(fd)'
      BY <1>1, <2>1, <2>3 DEF Linked
    <2>5. PICK i \in 1 .. Len(objs) : i = kernel[fds[fd].live]
      BY <2>1, LinkFacts
    <2>6. objs'[i].kind = objs[i].kind /\ objs'[i].state = objs[i].state
      BY <1>5
    <2>7. Tracked(fd)'
      BY <1>1, <2>1, <2>3, <2>5, <2>6 DEF Tracked
    <2>8. QED
      BY <2>4, <2>7
  <1>9. Changing'
    BY <1>1, <1>2, <1>8, WaitingFacts DEF Changing, Unrecorded
  <1>10. QED
    BY <1>6, <1>7, <1>9, WaitingFacts DEF IInv, Waiting

\* New objects get free descriptors.
LEMMA GrowsFacts ==
  ASSUME IInv, Waiting, NEW m \in Nat, m >= Len(objs), kernel' \in [LiveFds -> 0 .. m],
         Len(objs') = m, DOMAIN objs' = 1 .. m,
         \A i \in 1 .. Len(objs) : objs'[i] = objs[i],
         \A i \in 1 .. m : IsObject(objs'[i]),
         \A n \in LiveFds : kernel[n] # 0 => kernel'[n] = kernel[n],
         call.name \in Makers \union {"pipe"}
  PROVE  /\ TypeInv'
         /\ \A fd \in ScriptFds : Known(fd) => Linked(fd)' /\ Tracked(fd)'
         /\ \A n \in LiveFds : kernel[n] = 0 =>
               \A fd \in ScriptFds : Known(fd) => fds'[fd].live # n
  <1>1. TypeInv'
    BY KernelTypes DEF IInv
  <1>2. fds' = fds /\ means' = means
    BY DEF Waiting
  <1>3. ASSUME NEW fd \in ScriptFds, Known(fd)
        PROVE  Linked(fd)' /\ Tracked(fd)'
               /\ \A n \in LiveFds : kernel[n] = 0 => fds'[fd].live # n
    <2>1. Linked(fd) /\ Tracked(fd) /\ TypeInv
      BY <1>3, WaitingFacts DEF Calling, Disconnecting, Disconnects, Makers
    <2>2. kernel[fds[fd].live] # 0 /\ kernel'[fds[fd].live] = kernel[fds[fd].live]
      BY <2>1, LinkFacts
    <2>3. PICK i \in 1 .. Len(objs) : i = kernel[fds[fd].live]
      BY <2>1, LinkFacts
    <2>4. objs'[i] = objs[i]
      BY <2>3
    <2>5. Tracked(fd)'
      BY <1>2, <2>1, <2>2, <2>3, <2>4 DEF Tracked
    <2>6. QED
      BY <1>2, <2>1, <2>2, <2>5 DEF Linked
  <1>4. QED
    BY <1>1, <1>3

LEMMA MadeInv ==
  ASSUME IInv, Waiting, FreeFds # {}, NEW o, IsObject(o), objs' = Append(objs, o),
         kernel' = [kernel EXCEPT ![NewFd] = Len(objs')], answer'.result = NewFd,
         call.name \in Makers, call.name = "socket" => o.state = "new"
  PROVE  IInv'
  <1>1. TypeInv /\ NewFd \in LiveFds /\ kernel[NewFd] = 0
    BY NewFdFacts DEF IInv
  <1>2. PICK len \in Nat : len = Len(objs)
    BY <1>1, TypeFacts
  <1>3. /\ Len(objs') = len + 1 /\ DOMAIN objs' = 1 .. len + 1 /\ objs'[len + 1] = o
        /\ \A i \in 1 .. len : objs'[i] = objs[i]
    BY <1>1, <1>2, TypeFacts
  <1>4. \A i \in 1 .. len + 1 : IsObject(objs'[i])
    BY <1>1, <1>2, <1>3, TypeFacts
  <1>5. kernel \in [LiveFds -> 0 .. len] /\ kernel' = [kernel EXCEPT ![NewFd] = len + 1]
    BY <1>1, <1>2, <1>3, TypeFacts
  <1>6. /\ kernel' \in [LiveFds -> 0 .. len + 1] /\ kernel'[NewFd] = len + 1
        /\ \A n \in LiveFds : n # NewFd => kernel'[n] = kernel[n]
    BY <1>1, <1>5
  <1>7. Alone'
    BY <1>5, <1>6 DEF IInv, Alone
  <1>8. /\ TypeInv'
        /\ \A fd \in ScriptFds : Known(fd) => Linked(fd)' /\ Tracked(fd)'
        /\ \A fd \in ScriptFds : Known(fd) => fds'[fd].live # NewFd
    BY <1>1, <1>2, <1>3, <1>4, <1>6, GrowsFacts
  <1>9. Unused(answer.result)'
    BY <1>1, <1>2, <1>6, <1>8, WaitingFacts DEF Unused
  <1>10. call.name = "socket" => objs'[kernel'[answer'.result]].state = "new"
    BY <1>3, <1>6
  <1>11. call' = call /\ call.name # "pipe"
    BY DEF Waiting, Makers
  <1>12. Changing'
    BY <1>8, <1>9, <1>10, <1>11, WaitingFacts DEF Changing
  <1>13. QED
    BY <1>7, <1>8, <1>12, WaitingFacts DEF IInv, Waiting

LEMMA NewObjectInv ==
  ASSUME IInv, Waiting, NewObject
  PROVE  IInv'
  <1>1. PICK kind : objs' = Append(objs, Object(kind, "new"))
                    /\ kind \in {"icmp", "tcp", "open", "epoll_create"}
    BY DEF NewObject
  <1>2. IsObject(Object(kind, "new")) /\ Object(kind, "new").state = "new"
    BY <1>1 DEF IsObject, Object
  <1>3. answer'.result = NewFd /\ call.name \in Makers /\ FreeFds # {}
        /\ kernel' = [kernel EXCEPT ![NewFd] = Len(objs')]
    BY DEF NewObject, Answers, Makers
  <1>4. QED
    BY <1>1, <1>2, <1>3, MadeInv

LEMMA AcceptsInv ==
  ASSUME IInv, Waiting, Accepts
  PROVE  IInv'
  <1>1. IsObject(Object("tcp", "connected"))
    BY DEF IsObject, Object
  <1>2. /\ answer'.result = NewFd /\ call.name = "accept" /\ FreeFds # {}
        /\ objs' = Append(objs, Object("tcp", "connected"))
        /\ kernel' = [kernel EXCEPT ![NewFd] = Len(objs')]
    BY DEF Accepts, Answers
  <1>3. QED
    BY <1>1, <1>2, MadeInv DEF Makers

LEMMA NewPipeInv ==
  ASSUME IInv, Waiting, NewPipe
  PROVE  IInv'
  <1>1. PICK a, b : a = NewFd /\ b = Min(FreeFds \ {NewFd})
    OBVIOUS
  <1>2. /\ TypeInv /\ a \in LiveFds /\ kernel[a] = 0
        /\ b \in LiveFds /\ kernel[b] = 0 /\ a # b
    BY <1>1, PipeFacts DEF NewPipe, IInv
  <1>3. PICK len \in Nat : len = Len(objs)
    BY <1>2, TypeFacts
  <1>4. PICK o : o = Object("pipe", "new")
    OBVIOUS
  <1>5. IsObject(o)
    BY <1>4 DEF IsObject, Object
  <1>6. /\ objs' = objs \o <<o, o>>
        /\ kernel' = [kernel EXCEPT ![a] = len + 1, ![b] = len + 2]
        /\ answer'.result = 0 /\ answer'.out = <<a, b>>
    BY <1>1, <1>3, <1>4 DEF NewPipe, Answers
  <1>7. /\ Len(objs') = len + 2 /\ DOMAIN objs' = 1 .. len + 2
        /\ \A i \in 1 .. len : objs'[i] = objs[i]
        /\ objs'[len + 1] = o /\ objs'[len + 2] = o
    BY <1>2, <1>3, <1>6, TypeFacts
  <1>8. \A i \in 1 .. len + 2 : IsObject(objs'[i])
    <2>1. \A i \in 1 .. len : IsObject(objs[i])
      BY <1>2, <1>3, TypeFacts
    <2>2. ASSUME NEW i \in 1 .. len + 2
          PROVE  IsObject(objs'[i])
      <3>1. i \in 1 .. len \/ i = len + 1 \/ i = len + 2
        OBVIOUS
      <3>2. QED
        BY <1>5, <1>7, <2>1, <3>1
    <2>3. QED
      BY <2>2
  <1>9. kernel \in [LiveFds -> 0 .. len]
    BY <1>2, <1>3, TypeFacts
  <1>10. /\ kernel' \in [LiveFds -> 0 .. len + 2]
         /\ kernel'[a] = len + 1 /\ kernel'[b] = len + 2
         /\ \A n \in LiveFds : n # a /\ n # b => kernel'[n] = kernel[n]
    BY <1>2, <1>6, <1>9
  <1>11. Alone'
    BY <1>9, <1>10 DEF IInv, Alone
  <1>12. call' = call /\ call.name = "pipe"
    BY DEF Waiting, NewPipe
  <1>13. /\ TypeInv'
         /\ \A fd \in ScriptFds : Known(fd) => Linked(fd)' /\ Tracked(fd)'
         /\ \A fd \in ScriptFds : Known(fd) => fds'[fd].live # a /\ fds'[fd].live # b
    BY <1>2, <1>3, <1>7, <1>8, <1>10, <1>12, GrowsFacts
  <1>14. Unused(answer.out[1])' /\ Unused(answer.out[2])'
    BY <1>2, <1>3, <1>6, <1>10, <1>13, WaitingFacts DEF Unused
  <1>15. Changing'
    BY <1>2, <1>6, <1>12, <1>13, <1>14, WaitingFacts DEF Changing
  <1>16. QED
    BY <1>11, <1>13, <1>15, WaitingFacts DEF IInv, Waiting

LEMMA KernelInv ==
  ASSUME IInv, KernelReturns
  PROVE  IInv'
  <1>1. Waiting
    BY DEF KernelReturns, Waiting
  <1>2. QED
    BY <1>1, FailInv, NewObjectInv, NewPipeInv, AcceptsInv, ConnectsInv, ListensInv,
       ClosesInv, WatchesInv, ReportsInv, SucceedsInv DEF KernelReturns

-----------------------------------------------------------------------------
(* The records.                                                            *)

EntryOK(e) ==
    /\ e \in Entries /\ e.live \in LiveFds \union {-1}
    /\ e.state \in IF e.type = "socket"
                     THEN {"new", "listening", "connecting", "accepted"} ELSE {"none"}

\* The call has passed
Passing == pc = "returned" /\ pc' = "passed"
           /\ UNCHANGED <<call, live, answer, kernel, objs, calls>>

\* An entry keeps its descriptor, or has the one that is new
Kept(fd) == /\ Known(fd) /\ Linked(fd)
            /\ fds'[fd].live = fds[fd].live /\ means'[fd] = means[fd]
Fresh(fd) == Unused(fds'[fd].live) /\ means'[fd] = kernel[fds'[fd].live]

LEMMA EntriesOK == ASSUME TypeInv PROVE \A fd \in ScriptFds : EntryOK(fds[fd])
  BY DEF TypeInv, TypeOK, Shapes, EntryOK

\* Records of these two kinds restore what is true between two calls.
LEMMA RecordsInv ==
  ASSUME IInv, Passing, fds' \in [ScriptFds -> Entries],
         means' \in [ScriptFds -> 0 .. Len(objs)],
         \A fd \in ScriptFds : EntryOK(fds'[fd]),
         \A fd \in ScriptFds : fds'[fd].type # "none" =>
            (Kept(fd) \/ Fresh(fd)) /\ Tracked(fd)',
         \A a, b \in ScriptFds :
            /\ fds'[a].type # "none" /\ Fresh(a) /\ fds'[b].type # "none" /\ Fresh(b)
            /\ fds'[a].live = fds'[b].live
            => a = b
  PROVE  IInv'
  <1>1. UNCHANGED <<kernel, objs, calls>> /\ pc' = "passed" /\ TypeInv /\ Apart
    BY DEF Passing, IInv
  <1>2. TypeInv'
    <2>1. Shapes'
      BY <1>1 DEF TypeInv, Shapes
    <2>2. TypeOK'
      BY <1>1 DEF TypeInv, TypeOK, EntryOK, Entries
    <2>3. QED
      BY <2>1, <2>2 DEF TypeInv
  <1>3. Alone'
    BY <1>1 DEF IInv, Alone
  <1>4. \A fd \in ScriptFds : Known(fd)' => fds'[fd].type # "none"
    BY DEF Known
  <1>5. ASSUME NEW fd \in ScriptFds, Known(fd)'
        PROVE  Linked(fd)' /\ Tracked(fd)'
    <2>1. Kept(fd) \/ Fresh(fd)
      BY <1>4, <1>5
    <2>2. Linked(fd)'
      BY <1>1, <2>1 DEF Kept, Fresh, Linked, Unused
    <2>3. QED
      BY <1>4, <1>5, <2>2
  <1>6. ASSUME NEW a \in ScriptFds, NEW b \in ScriptFds, Known(a)', Known(b)',
               fds'[a].live = fds'[b].live
        PROVE  a = b
    <2>1. (Kept(a) \/ Fresh(a)) /\ (Kept(b) \/ Fresh(b))
      BY <1>4, <1>6
    <2>2. CASE Kept(a) /\ Kept(b)
      BY <1>1, <1>6, <2>2 DEF Kept, Apart
    <2>3. CASE Fresh(a) /\ Fresh(b)
      BY <1>4, <1>6, <2>3
    <2>4. CASE Kept(a) /\ Fresh(b)
      BY <1>6, <2>4 DEF Kept, Fresh, Unused
    <2>5. CASE Fresh(a) /\ Kept(b)
      BY <1>6, <2>5 DEF Kept, Fresh, Unused
    <2>6. QED
      BY <2>1, <2>2, <2>3, <2>4, <2>5
  <1>7. Apart'
    BY <1>6 DEF Apart
  <1>8. QED
    BY <1>1, <1>2, <1>3, <1>5, <1>7 DEF IInv

\* What is known when a call is recorded.
LEMMA PassingFacts ==
  ASSUME IInv, Passing
  PROVE  /\ TypeInv /\ Changing /\ kernel' = kernel /\ objs' = objs
         /\ IsRow(call.name, Handler(call))
         /\ \A fd \in ScriptFds : Known(fd) /\ ~(call.name = "close" /\ fd = Fd) => Linked(fd)
  <1>1. TypeInv /\ Changing /\ kernel' = kernel /\ objs' = objs
    BY DEF IInv, Passing
  <1>2. QED
    BY <1>1, HandlerIsRow DEF Changing, Accepted

\* An entry that is not touched.
LEMMA Untouched ==
  ASSUME IInv, Passing, NEW fd \in ScriptFds, Known(fd), fds'[fd] = fds[fd],
         means'[fd] = means[fd], ~Unrecorded(fd),
         ~(DisconnectsSucceed /\ Disconnects /\ ~(answer.result >= 0))
  PROVE  Kept(fd) /\ Tracked(fd)'
  <1>1. Linked(fd)
    BY PassingFacts DEF Unrecorded
  <1>2. ASSUME DisconnectsSucceed
        PROVE  Tracked(fd)
    BY <1>2, PassingFacts DEF Changing, Disconnecting
  <1>3. fds'[fd].live = fds[fd].live /\ kernel' = kernel /\ objs' = objs
    BY PassingFacts
  <1>4. Tracked(fd)'
    BY <1>2, <1>3 DEF Tracked
  <1>5. QED
    BY <1>1, <1>4 DEF Kept

\* A number gets an entry, or a number that is not modelled does.
LEMMA NewEntryInv ==
  ASSUME IInv, Passing, call.name \in Makers, answer.result >= 0,
         NEW e, EntryOK(e), e.type # "none", e.live = answer.result,
         call.name # "socket" => e.state # "new",
         fds' = [fds EXCEPT ![Result] = e],
         means' = [means EXCEPT ![Result] = kernel[answer.result]]
  PROVE  IInv'
  <1>1. Unused(answer.result)
    BY PassingFacts DEF Changing, Makers
  <1>2. PICK len \in Nat : len = Len(objs)
    BY PassingFacts, TypeFacts
  <1>3. fds \in [ScriptFds -> Entries] /\ means \in [ScriptFds -> 0 .. len]
        /\ kernel \in [LiveFds -> 0 .. len]
    BY <1>2, PassingFacts, TypeFacts
  <1>4. e \in Entries /\ kernel[answer.result] \in 0 .. len
    BY <1>1, <1>3 DEF EntryOK, Unused
  <1>5. /\ fds' \in [ScriptFds -> Entries] /\ means' \in [ScriptFds -> 0 .. len]
        /\ \A fd \in ScriptFds : fd # Result => fds'[fd] = fds[fd] /\ means'[fd] = means[fd]
        /\ Result \in ScriptFds =>
              fds'[Result] = e /\ means'[Result] = kernel[answer.result]
    <2>1. CASE Result \in ScriptFds
      BY <1>3, <1>4, <2>1
    <2>2. CASE Result \notin ScriptFds
      <3>1. fds' = fds /\ means' = means
        BY <1>3, <2>2
      <3>2. QED
        BY <1>3, <2>2, <3>1
    <2>3. QED
      BY <2>1, <2>2
  <1>6. \A fd \in ScriptFds : EntryOK(fds'[fd])
    BY <1>5, EntriesOK, PassingFacts
  <1>7. ASSUME NEW fd \in ScriptFds, fds'[fd].type # "none", fd # Result
        PROVE  Kept(fd) /\ Tracked(fd)'
    <2>1. Known(fd) /\ ~Unrecorded(fd)
          /\ ~(DisconnectsSucceed /\ Disconnects /\ ~(answer.result >= 0))
      BY <1>5, <1>7 DEF Known, Unrecorded, Makers
    <2>2. fds'[fd] = fds[fd] /\ means'[fd] = means[fd]
      BY <1>5, <1>7
    <2>3. QED
      BY <2>1, <2>2, Untouched
  <1>8. ASSUME NEW r \in ScriptFds, r = Result
        PROVE  Fresh(r) /\ Tracked(r)'
    <2>1. fds'[r] = e /\ means'[r] = kernel[answer.result]
      BY <1>5, <1>8
    <2>2. Fresh(r)
      BY <1>1, <2>1 DEF Fresh
    <2>3. call.name = "socket" => objs[kernel[answer.result]].state = "new"
      BY PassingFacts DEF Changing
    <2>4. kernel' = kernel /\ objs' = objs
      BY PassingFacts
    <2>5. Tracked(r)'
      BY <2>1, <2>3, <2>4 DEF Tracked
    <2>6. QED
      BY <2>2, <2>5
  <1>9. ASSUME NEW a \in ScriptFds, fds'[a].type # "none", Fresh(a)
        PROVE  a = Result
    BY <1>1, <1>7, <1>9 DEF Kept, Fresh, Unused
  <1>10. \A fd \in ScriptFds : fds'[fd].type # "none" =>
            (Kept(fd) \/ Fresh(fd)) /\ Tracked(fd)'
    BY <1>7, <1>8
  <1>11. QED
    BY <1>2, <1>5, <1>6, <1>9, <1>10, RecordsInv

\* A connect() that disconnects has not failed.
LEMMA NoFailedDisconnect ==
  ASSUME IInv, Passing, ResultMatches
  PROVE  ~(DisconnectsSucceed /\ Disconnects /\ ~(answer.result >= 0))
  <1>1. SUFFICES ASSUME DisconnectsSucceed, Disconnects
                 PROVE  answer.result >= 0
    OBVIOUS
  <1>2. Result >= 0
    BY <1>1, PassingFacts, DisconnectFacts DEF Changing, Result
  <1>3. Check = "exact"
    BY <1>1, PassingFacts DEF IsRow, Disconnects, Check
  <1>4. answer.result = Result
    BY <1>3 DEF ResultMatches
  <1>5. QED
    BY <1>2, <1>4

\* Nothing is recorded.
LEMMA SameInv ==
  ASSUME IInv, Passing, ResultMatches, fds' = fds, means' = means,
         call.name \notin {"close", "listen"}
  PROVE  IInv'
  <1>1. fds \in [ScriptFds -> Entries] /\ means \in [ScriptFds -> 0 .. Len(objs)]
        /\ \A fd \in ScriptFds : EntryOK(fds[fd])
    BY PassingFacts, TypeFacts, EntriesOK
  <1>2. ASSUME NEW fd \in ScriptFds, fds[fd].type # "none"
        PROVE  Kept(fd) /\ Tracked(fd)'
    <2>1. Known(fd) /\ ~Unrecorded(fd)
      BY <1>2 DEF Known, Unrecorded
    <2>2. QED
      BY <2>1, Untouched, NoFailedDisconnect
  <1>3. ASSUME NEW a \in ScriptFds, fds[a].type # "none"
        PROVE  ~Fresh(a)
    BY <1>2, <1>3 DEF Kept, Fresh, Unused
  <1>4. QED
    BY <1>1, <1>2, <1>3, RecordsInv

\* run_syscall_socket(), run_syscall_open(), run_syscall_epoll_create() and
\* run_syscall_accept().
LEMMA RecordNewInv ==
  ASSUME IInv, Passing, ResultMatches, call.name \in Makers, fds' = After, means' = Means
  PROVE  IInv'
  <1>1. Handler(call).after = call.name
    BY PassingFacts DEF IsRow, Makers
  <1>2. CASE ~(answer.result >= 0)
    <2>1. fds' = fds
      BY <1>1, <1>2 DEF After, RecordNew, Makers
    <2>2. means' = means
      BY <1>2 DEF Means, Makers
    <2>3. call.name \notin {"close", "listen"}
      BY DEF Makers
    <2>4. QED
      BY <2>1, <2>2, <2>3, SameInv
  <1>3. CASE answer.result >= 0
    <2>1. means' = [means EXCEPT ![Result] = kernel[answer.result]]
      BY <1>3 DEF Means, Makers
    <2>2. answer.result \in LiveFds
      BY <1>3, PassingFacts DEF Changing, Unused, Makers
    <2>3. answer.result \in Int
      BY <2>2, TableAssumption DEF LiveFds
    <2>4. CASE call.name = "socket"
      <3>1. PICK e : e = [Entry("socket", answer.result) EXCEPT !.state = "new",
                             !.icmp = live[2] = 2 /\ live[3] = 1]
        OBVIOUS
      <3>2. fds' = [fds EXCEPT ![Result] = e]
        BY <1>1, <1>3, <2>4, <3>1 DEF After, RecordNew
      <3>3. EntryOK(e) /\ e.live = answer.result /\ e.type = "socket"
        BY <2>2, <2>3, <3>1 DEF EntryOK, Entry, NoEntry, Entries
      <3>4. QED
        BY <1>3, <2>1, <2>4, <3>2, <3>3, NewEntryInv
    <2>5. CASE call.name \in {"open", "epoll_create"}
      <3>1. PICK e : e = Entry(call.name, answer.result)
        OBVIOUS
      <3>2. fds' = [fds EXCEPT ![Result] = e]
        BY <1>1, <1>3, <2>5, <3>1 DEF After, RecordNew
      <3>3. EntryOK(e) /\ e.live = answer.result /\ e.type = call.name
            /\ e.state = "none"
        BY <2>2, <2>3, <2>5, <3>1 DEF EntryOK, Entry, NoEntry, Entries
      <3>4. QED
        BY <1>3, <2>1, <2>5, <3>2, <3>3, NewEntryInv
    <2>6. CASE call.name = "accept"
      <3>1. PICK e : e = [Entry("socket", answer.result) EXCEPT !.state = "accepted"]
        OBVIOUS
      <3>2. fds' = [fds EXCEPT ![Result] = e]
        BY <1>1, <1>3, <2>6, <3>1 DEF After, RecordNew
      <3>3. EntryOK(e) /\ e.live = answer.result /\ e.type = "socket"
            /\ e.state = "accepted"
        BY <2>2, <2>3, <3>1 DEF EntryOK, Entry, NoEntry, Entries
      <3>4. QED
        BY <1>3, <2>1, <2>6, <3>2, <3>3, NewEntryInv
    <2>7. QED
      BY <2>4, <2>5, <2>6 DEF Makers
  <1>4. QED
    BY <1>2, <1>3

\* run_syscall_listen().
LEMMA ListenInv ==
  ASSUME IInv, Passing, call.name = "listen", CanRecord, fds' = After, means' = Means
  PROVE  IInv'
  <1>1. Handler(call).after = "listen"
    BY PassingFacts DEF IsRow
  <1>2. PICK r \in ScriptFds : r = Fd
    BY PassingFacts DEF Changing, Accepted, FdCalls, Known
  <1>3. fds[r].type = "socket" /\ fds' = [fds EXCEPT ![r].state = "listening"]
    BY <1>1, <1>2 DEF CanRecord, After, Fd
  <1>4. means' = means
    BY DEF Means
  <1>5. fds \in [ScriptFds -> Entries] /\ means \in [ScriptFds -> 0 .. Len(objs)]
        /\ \A fd \in ScriptFds : EntryOK(fds[fd])
    BY PassingFacts, TypeFacts, EntriesOK
  <1>6. PICK e : e = [fds[r] EXCEPT !.state = "listening"]
    OBVIOUS
  <1>7. e \in Entries /\ e.state = "listening" /\ e.live = fds[r].live /\ e.type = "socket"
    BY <1>3, <1>5, <1>6 DEF Entries
  <1>8. fds' = [fds EXCEPT ![r] = e]
    BY <1>3, <1>6
  <1>9. /\ fds' \in [ScriptFds -> Entries] /\ fds'[r] = e
        /\ \A fd \in ScriptFds : fd # r => fds'[fd] = fds[fd]
    BY <1>5, <1>7, <1>8
  <1>10. \A fd \in ScriptFds : EntryOK(fds'[fd])
    BY <1>5, <1>7, <1>9 DEF EntryOK
  <1>11. ASSUME NEW fd \in ScriptFds, fds'[fd].type # "none"
         PROVE  Kept(fd) /\ Tracked(fd)'
    <2>1. CASE fd = r
      <3>1. Known(fd) /\ Linked(fd)
        BY <1>3, <2>1, PassingFacts DEF Known
      <3>2. Kept(fd)
        BY <1>4, <1>7, <1>9, <2>1, <3>1 DEF Kept
      <3>3. Tracked(fd)'
        BY <1>7, <1>9, <2>1 DEF Tracked
      <3>4. QED
        BY <3>2, <3>3
    <2>2. CASE fd # r
      <3>1. Known(fd) /\ ~Unrecorded(fd) /\ ~Disconnects
        BY <1>2, <1>9, <1>11, <2>2 DEF Known, Unrecorded, Disconnects
      <3>2. QED
        BY <1>4, <1>9, <2>2, <3>1, Untouched
    <2>3. QED
      BY <2>1, <2>2
  <1>12. ASSUME NEW a \in ScriptFds, fds'[a].type # "none"
         PROVE  ~Fresh(a)
    BY <1>11, <1>12 DEF Kept, Fresh, Unused
  <1>13. QED
    BY <1>4, <1>5, <1>9, <1>10, <1>11, <1>12, RecordsInv

\* run_syscall_close().
LEMMA CloseInv ==
  ASSUME IInv, Passing, call.name = "close", fds' = After, means' = Means
  PROVE  IInv'
  <1>1. Handler(call).after = "close"
    BY PassingFacts DEF IsRow
  <1>2. PICK r \in ScriptFds : r = Fd
    BY PassingFacts DEF Changing, Accepted, FdCalls, Known
  <1>3. fds' = [fds EXCEPT ![r] = NoEntry] /\ means' = [means EXCEPT ![r] = 0]
    BY <1>1, <1>2 DEF After, Means, Fd
  <1>4. PICK len \in Nat : len = Len(objs)
    BY PassingFacts, TypeFacts
  <1>5. fds \in [ScriptFds -> Entries] /\ means \in [ScriptFds -> 0 .. len]
        /\ \A fd \in ScriptFds : EntryOK(fds[fd])
    BY <1>4, PassingFacts, TypeFacts, EntriesOK
  <1>6. EntryOK(NoEntry) /\ NoEntry.type = "none"
    BY DEF NoEntry, EntryOK, Entries
  <1>7. /\ fds' \in [ScriptFds -> Entries] /\ fds'[r] = NoEntry
        /\ means' \in [ScriptFds -> 0 .. len]
        /\ \A fd \in ScriptFds : fd # r => fds'[fd] = fds[fd] /\ means'[fd] = means[fd]
    BY <1>3, <1>5, <1>6 DEF EntryOK
  <1>8. ASSUME NEW fd \in ScriptFds, fds'[fd].type # "none"
        PROVE  Kept(fd) /\ Tracked(fd)'
    <2>1. fd # r /\ Known(fd) /\ ~Unrecorded(fd) /\ ~Disconnects
      BY <1>2, <1>6, <1>7, <1>8 DEF Known, Unrecorded, Disconnects
    <2>2. QED
      BY <1>7, <2>1, Untouched
  <1>9. ASSUME NEW a \in ScriptFds, fds'[a].type # "none"
        PROVE  ~Fresh(a)
    BY <1>8, <1>9 DEF Kept, Fresh, Unused
  <1>10. \A fd \in ScriptFds : EntryOK(fds'[fd])
    BY <1>5, <1>6, <1>7
  <1>11. QED
    BY <1>4, <1>7, <1>8, <1>9, <1>10, RecordsInv

\* run_syscall_pipe(): the ends keep their order.
LEMMA PipeInv ==
  ASSUME IInv, Passing, ResultMatches, call.name = "pipe", fds' = After, means' = Means
  PROVE  IInv'
  <1>1. Handler(call).after = "pipe" /\ Check = "exact"
    BY PassingFacts DEF IsRow, Check
  <1>2. answer.result \in Int
    <2>1. answer.result = Result /\ IsS32(call.result) /\ call \in Calls
      BY <1>1, PassingFacts DEF ResultMatches, Changing, Accepted
    <2>2. call.result.num \in Int
      BY <2>1, CallsAssumption DEF IsS32
    <2>3. QED
      BY <2>1, <2>2, S32Facts, WidthsAssumption DEF Result
  <1>3. CASE answer.result < 0
    <2>1. fds' = fds
      BY <1>1, <1>3 DEF After, RecordPipe
    <2>2. means' = means
      BY <1>2, <1>3 DEF Means
    <2>3. QED
      BY <2>1, <2>2, SameInv
  <1>4. CASE answer.result >= 0
    <2>1. PICK p, q : p = PipeFd(call, 1) /\ q = PipeFd(call, 2)
      OBVIOUS
    <2>2. PICK m, n : m = answer.out[1] /\ n = answer.out[2]
      OBVIOUS
    <2>3. p # q /\ Unused(m) /\ Unused(n) /\ m # n
      BY <1>4, <2>1, <2>2, PassingFacts DEF Changing, Accepted
    <2>4. fds' = [fd \in ScriptFds |-> CASE fd = p -> Entry("pipe", m)
                                         [] fd = q -> Entry("pipe", n)
                                         [] OTHER -> fds[fd]]
      BY <1>1, <1>2, <1>4, <2>1, <2>2 DEF After, RecordPipe
    <2>5. means' = [means EXCEPT ![p] = kernel[m], ![q] = kernel[n]]
      BY <1>4, <2>1, <2>2 DEF Means, Makers
    <2>6. PICK len \in Nat : len = Len(objs)
      BY PassingFacts, TypeFacts
    <2>7. /\ fds \in [ScriptFds -> Entries] /\ means \in [ScriptFds -> 0 .. len]
          /\ kernel \in [LiveFds -> 0 .. len] /\ \A fd \in ScriptFds : EntryOK(fds[fd])
      BY <2>6, PassingFacts, TypeFacts, EntriesOK
    <2>8. m \in LiveFds /\ n \in LiveFds /\ m \in Int /\ n \in Int
      BY <2>3, TableAssumption DEF Unused, LiveFds
    <2>9. /\ EntryOK(Entry("pipe", m)) /\ Entry("pipe", m).type = "pipe"
          /\ Entry("pipe", m).live = m
          /\ EntryOK(Entry("pipe", n)) /\ Entry("pipe", n).type = "pipe"
          /\ Entry("pipe", n).live = n
      BY <2>8 DEF EntryOK, Entry, NoEntry, Entries
    <2>10. /\ \A fd \in ScriptFds : fd = p => fds'[fd] = Entry("pipe", m)
           /\ \A fd \in ScriptFds : fd = q => fds'[fd] = Entry("pipe", n)
           /\ \A fd \in ScriptFds : fd # p /\ fd # q => fds'[fd] = fds[fd]
      BY <2>3, <2>4
    <2>11. \A fd \in ScriptFds : EntryOK(fds'[fd])
      BY <2>7, <2>9, <2>10
    <2>12. fds' \in [ScriptFds -> Entries]
      <3>1. fds' = [fd \in ScriptFds |-> fds'[fd]]
        BY <2>4
      <3>2. QED
        BY <2>11, <3>1 DEF EntryOK
    <2>13. kernel[m] \in 0 .. len /\ kernel[n] \in 0 .. len
      BY <2>7, <2>8
    <2>14. /\ means' \in [ScriptFds -> 0 .. len]
           /\ \A fd \in ScriptFds : fd = p => means'[fd] = kernel[m]
           /\ \A fd \in ScriptFds : fd = q => means'[fd] = kernel[n]
           /\ \A fd \in ScriptFds : fd # p /\ fd # q => means'[fd] = means[fd]
      BY <2>3, <2>5, <2>7, <2>13
    <2>15. ASSUME NEW fd \in ScriptFds, fd = p \/ fd = q
           PROVE  Fresh(fd) /\ Tracked(fd)'
      <3>1. Fresh(fd)
        BY <2>3, <2>9, <2>10, <2>14, <2>15 DEF Fresh
      <3>2. fds'[fd].type = "pipe"
        BY <2>9, <2>10, <2>15
      <3>3. QED
        BY <3>1, <3>2 DEF Tracked
    <2>16. ASSUME NEW fd \in ScriptFds, fds'[fd].type # "none", fd # p, fd # q
           PROVE  Kept(fd) /\ Tracked(fd)'
      <3>1. fds'[fd] = fds[fd] /\ means'[fd] = means[fd]
        BY <2>10, <2>14, <2>16
      <3>2. Known(fd) /\ ~Unrecorded(fd) /\ ~Disconnects
        BY <2>16, <3>1 DEF Known, Unrecorded, Disconnects
      <3>3. QED
        BY <3>1, <3>2, Untouched
    <2>17. ASSUME NEW a \in ScriptFds, fds'[a].type # "none", Fresh(a)
           PROVE  a = p \/ a = q
      BY <2>16, <2>17 DEF Kept, Fresh, Unused
    <2>18. ASSUME NEW a \in ScriptFds, NEW b \in ScriptFds,
                  a = p \/ a = q, b = p \/ b = q, fds'[a].live = fds'[b].live
           PROVE  a = b
      BY <2>3, <2>9, <2>10, <2>18
    <2>19. QED
      BY <2>6, <2>11, <2>12, <2>14, <2>15, <2>16, <2>17, <2>18, RecordsInv
  <1>5. QED
    BY <1>2, <1>3, <1>4

LEMMA FinishInv ==
  ASSUME IInv, Finish
  PROVE  IInv'
  <1>1. CASE pc' = "died" /\ fds' = fds /\ means' = means
    <2>1. UNCHANGED <<fds, means, kernel, objs, calls>>
      BY <1>1 DEF Finish
    <2>2. TypeInv' /\ Alone'
      BY <1>1, <2>1 DEF IInv, TypeInv, TypeOK, Shapes, Alone
    <2>3. QED
      BY <1>1, <2>2 DEF IInv
  <1>2. CASE ResultMatches /\ CanRecord /\ fds' = After /\ means' = Means /\ pc' = "passed"
    <2>1. Passing
      BY <1>2 DEF Finish, Passing
    <2>2. CASE call.name \in Makers
      BY <1>2, <2>1, <2>2, RecordNewInv
    <2>3. CASE call.name = "pipe"
      BY <1>2, <2>1, <2>3, PipeInv
    <2>4. CASE call.name = "listen"
      BY <1>2, <2>1, <2>4, ListenInv
    <2>5. CASE call.name = "close"
      BY <1>2, <2>1, <2>5, CloseInv
    <2>6. CASE call.name \notin Makers \union {"pipe", "listen", "close"}
      <3>1. Handler(call).after = "nothing"
        BY <2>1, <2>6, PassingFacts DEF IsRow, Makers
      <3>2. fds' = fds
        BY <1>2, <3>1 DEF After
      <3>3. means' = means
        BY <1>2, <2>6 DEF Means, Makers
      <3>4. QED
        BY <1>2, <2>1, <2>6, <3>2, <3>3, SameInv
    <2>7. QED
      BY <2>2, <2>3, <2>4, <2>5, <2>6
  <1>3. QED
    BY <1>1, <1>2 DEF Finish

-----------------------------------------------------------------------------
(* The theorems.                                                           *)

LEMMA InitInv == Init => IInv
  <1> SUFFICES ASSUME Init
                 PROVE  IInv
    OBVIOUS
  <1>2. Len(objs) = 0 /\ DOMAIN objs = 1 .. 0
    BY DEF Init
  <1>3. NoEntry \in Entries
    BY DEF NoEntry, Entries
  <1>4. Shapes
    BY <1>2, <1>3 DEF Init, Shapes
  <1>5. TypeOK
    BY <1>2, LengthAssumption DEF Init, TypeOK, NoEntry
  <1>6. \A fd : ~Known(fd)
    BY DEF Init, Known, NoEntry
  <1>7. QED
    BY <1>4, <1>5, <1>6 DEF Init, IInv, TypeInv, Alone, Apart

LEMMA StutterInv ==
  ASSUME IInv, UNCHANGED vars
  PROVE  IInv'
  <1>1. /\ fds' = fds /\ call' = call /\ live' = live /\ answer' = answer /\ pc' = pc
        /\ means' = means /\ kernel' = kernel /\ objs' = objs /\ calls' = calls
    BY DEF vars
  <1>2. TypeInv' = TypeInv
    BY <1>1 DEF TypeInv, TypeOK, Shapes
  <1>3. Alone' = Alone
    BY <1>1 DEF Alone
  <1>4. \A fd : /\ Known(fd)' = Known(fd) /\ Linked(fd)' = Linked(fd)
               /\ Tracked(fd)' = Tracked(fd)
    BY <1>1 DEF Known, Linked, Tracked
  <1>5. Apart' = Apart
    BY <1>1, <1>4 DEF Apart
  <1>6. Fd' = Fd /\ Handler(call)' = Handler(call) /\ FormOf(call)' = FormOf(call)
    BY <1>1, SameForm DEF Fd
  <1>7. NamesAddress(call)' = NamesAddress(call)
    BY <1>1, <1>6 DEF NamesAddress
  <1>8. Disconnects' = Disconnects
    BY <1>1 DEF Disconnects, Family, LiveArg
  <1>9. \A fd : /\ Disconnecting(fd)' = Disconnecting(fd)
               /\ Unrecorded(fd)' = Unrecorded(fd)
    BY <1>1, <1>6, <1>8 DEF Disconnecting, Unrecorded
  <1>10. Accepted' = Accepted
    BY <1>1, <1>4, <1>6 DEF Accepted
  <1>11. \A n : Unused(n)' = Unused(n)
    BY <1>1, <1>4 DEF Unused
  <1>12. KernelSeesScript' = KernelSeesScript
    <2>1. \A n, fd : Reaches(n, fd)' = Reaches(n, fd) /\ Wraps(n, fd)' = Wraps(n, fd)
      BY <1>1 DEF Reaches, Wraps
    <2>2. QED
      BY <1>1, <1>6, <2>1 DEF KernelSeesScript
  <1>13. Calling' = Calling
    BY <1>1, <1>4, <1>6, <1>7, <1>8, <1>9, <1>10, <1>12 DEF Calling
  <1>14. Changing' = Changing
    <2>1. /\ Unused(answer.result)' = Unused(answer.result)
          /\ Unused(answer.out[1])' = Unused(answer.out[1])
          /\ Unused(answer.out[2])' = Unused(answer.out[2])
      BY <1>1, <1>4 DEF Unused
    <2>2. QED
      BY <1>1, <1>4, <1>6, <1>9, <1>10, <2>1 DEF Changing
  <1>15. QED
    BY <1>1, <1>2, <1>3, <1>4, <1>5, <1>13, <1>14 DEF IInv

LEMMA Invariance == Spec => []IInv
  <1>1. IInv /\ [Next]_vars => IInv'
    <2> SUFFICES ASSUME IInv, [Next]_vars
                   PROVE  IInv'
      OBVIOUS
    <2>2. CASE \E c \in Calls : InvokeSystemCall(c) /\ Careful(c)
      BY <2>2, InvokeInv
    <2>3. CASE KernelReturns
      BY <2>3, KernelInv
    <2>4. CASE Finish
      BY <2>4, FinishInv
    <2>5. CASE UNCHANGED vars
      BY <2>5, StutterInv
    <2>6. QED
      BY <2>2, <2>3, <2>4, <2>5 DEF Next
  <1>2. QED
    BY <1>1, InitInv, PTL DEF Spec

\* Every variable keeps its type, whatever the scripts call: a number of a
\* script has an entry of a kind that the handlers know, and only the entries
\* of sockets have a state.
THEOREM CallTypes == Spec => []TypeOK
  <1>1. IInv => TypeOK
    BY DEF IInv, TypeInv
  <1>2. QED
    BY <1>1, Invariance, PTL

\* to_live_fd(), get_s32() and the rest of the translation give the kernel what
\* the script means, in every form of every handler.
THEOREM SeesScript == Spec => []KernelSeesScript
  <1>1. IInv => KernelSeesScript
    BY DEF IInv, Calling, KernelSeesScript
  <1>2. QED
    BY <1>1, Invariance, PTL

\* run_syscall_connect() and run_syscall_listen(): no socket that is connected
\* or listens is taken for a new one, in scripts that expect to succeed when
\* they disconnect a socket.
THEOREM SocketsTracked ==
  ASSUME DisconnectsSucceed
  PROVE  Spec => []ConnectionTracked
  <1>1. IInv => ConnectionTracked
    BY DEF IInv, Tracked, ConnectionTracked, Known
  <1>2. QED
    BY <1>1, Invariance, PTL
=============================================================================
