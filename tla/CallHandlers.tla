---------------------------- MODULE CallHandlers ----------------------------
(***************************************************************************)
(* The handlers of system calls (run_system_call.c), one call after the    *)
(* other: invoke_system_call() finds the handler, which reads the          *)
(* arguments, translates descriptors, notes a connection to be made, makes *)
(* the live call, compares the result, the error and the outputs with the  *)
(* script, and records new, listening and closed descriptors.  Each        *)
(* handler is a row of a table that says which of these it does.           *)
(* (Who runs a handler, and when it has the lock, is SyscallThread; lists  *)
(* with several entries for one number are FdTable.)                       *)
(***************************************************************************)
EXTENDS CallArguments, FiniteSetsExt

CONSTANTS
    ScriptFds,     \* the descriptors of scripts
    MaxLiveFd,     \* the limit of the kernel
    Calls,         \* the calls of scripts: name, arguments, result and errno
    Revents,       \* what poll() and epoll_wait() may report
    Messages,      \* the control messages that the kernel may have
    MaxCalls       \* the length of a script

ASSUME TableAssumption == ScriptFds \subseteq 0..Half - 1 /\ MaxLiveFd \in Nat
ASSUME LengthAssumption == MaxCalls \in Nat

\* Arguments are an array, and the integers of scripts are numbers
ASSUME CallsAssumption == \A c \in Calls :
    /\ Len(c.args) \in Nat /\ DOMAIN c.args = 1..Len(c.args)
    /\ \A i \in DOMAIN c.args : c.args[i].type = "integer" => c.args[i].num \in Int
    /\ c.result.type = "integer" => c.result.num \in Int

VARIABLES
    fds,     \* the open entry of each number of the script
    call,    \* the call that is handled
    live,    \* the arguments that the kernel is given
    answer,  \* what it returns
    pc,      \* "passed" between two calls, "called", "returned",
             \* "rejected" for its arguments or "died" of what it returned
    means,   \* the object that the script calls by a number
    kernel,  \* the object behind each live descriptor
    objs,    \* the kernel's objects
    calls    \* calls so far

vars == <<fds, call, live, answer, pc, means, kernel, objs, calls>>

LiveFds == 0..MaxLiveFd
NoCall == [name |-> "none", args |-> <<>>, result |-> Integer(0), errno |-> ""]
NoAnswer == [result |-> 0, errno |-> "", out |-> 0]
NoEntry == [type |-> "none", live |-> -1, state |-> "none", icmp |-> FALSE]
Entry(type, n) == [NoEntry EXCEPT !.type = type, !.live = n]

-----------------------------------------------------------------------------
(* The handlers.  A row has the forms of the argument list, what is done   *)
(* before the live call, how its result is compared, which output is, and  *)
(* what is recorded after it.                                              *)

Plain(args) == [args |-> {args}, before |-> "nothing", check |-> "exact",
                output |-> "nothing", after |-> "nothing"]

Socket == [Plain(<<"...", "s32", "s32">>) EXCEPT !.check = "fd", !.after = "socket"]
Bind == Plain(<<"fd", "...", "...">>)
Listen == [Plain(<<"fd", "s32">>) EXCEPT !.after = "listen"]
Accept == [Plain(<<"fd", "...", "...">>) EXCEPT !.check = "fd", !.after = "accept"]
Connect == [Plain(<<"fd", "family", "...">>) EXCEPT !.before = "connect"]
Read == Plain(<<"fd", "buffer", "s32">>)
Readv == Plain(<<"fd", "iovec", "s32">>)
Recv == Plain(<<"fd", "buffer", "s32", "s32">>)
Recvfrom == Plain(<<"fd", "buffer", "s32", "s32", "...", "...">>)
Recvmsg == [Plain(<<"fd", "msghdr", "s32">>) EXCEPT !.output = "msghdr"]
Write == Plain(<<"fd", "buffer", "s32">>)
Writev == Plain(<<"fd", "iovec", "s32">>)
Send == Plain(<<"fd", "buffer", "s32", "s32">>)
Sendto == [Plain(<<"fd", "buffer", "s32", "s32", "family", "...">>)
             EXCEPT !.before = "sendto"]
Sendmsg == [Plain(<<"fd", "msghdr", "s32">>) EXCEPT !.before = "sendmsg"]
IcmpSendto == [Plain(<<"fd", "buffer", "s32", "s32", "...", "...">>)
                 EXCEPT !.before = "sendto"]
Fcntl == [Plain(<<"fd", "s32">>) EXCEPT !.args = @ \union {<<"fd", "s32", "s32">>}]
Ioctl == [Plain(<<"fd", "s32">>) EXCEPT !.args = @ \union {<<"fd", "s32", "[s32]">>},
                                        !.output = "ioctl"]
Close == [Plain(<<"fd">>) EXCEPT !.after = "close"]
Shutdown == Plain(<<"fd", "s32">>)
Getsockopt == [Plain(<<"fd", "s32", "s32", "any", "[s32]">>)
                 EXCEPT !.output = "getsockopt"]
Setsockopt == Plain(<<"fd", "s32", "s32", "optval", "s32">>)
Poll == [Plain(<<"pollfds", "s32", "s32">>) EXCEPT !.output = "poll"]
CapSet == [Plain(<<"s32", "s32", "s32">>) EXCEPT !.check = "fd"]
Open == [Plain(<<"string", "s32">>) EXCEPT !.check = "fd", !.after = "open"]
Sendfile == Plain(<<"fd", "fd", "[s64]", "s32">>)
EpollCreate == [Plain(<<"s32">>) EXCEPT !.check = "fd", !.after = "epoll_create"]
EpollCtl == Plain(<<"fd", "s32", "fd", "epollev">>)
EpollWait == [Plain(<<"fd", "epollev", "s32", "s32">>) EXCEPT !.output = "epoll_wait"]
Pipe == [Plain(<<"pipe">>) EXCEPT !.after = "pipe"]
Splice == Plain(<<"fd", "s64", "fd", "s64", "s32", "s32">>)

system_call_table ==
    [socket |-> Socket, bind |-> Bind, listen |-> Listen, accept |-> Accept,
     connect |-> Connect, read |-> Read, readv |-> Readv, recv |-> Recv,
     recvfrom |-> Recvfrom, recvmsg |-> Recvmsg, write |-> Write,
     writev |-> Writev, send |-> Send, sendto |-> Sendto, sendmsg |-> Sendmsg,
     fcntl |-> Fcntl, ioctl |-> Ioctl, close |-> Close, shutdown |-> Shutdown,
     getsockopt |-> Getsockopt, setsockopt |-> Setsockopt, poll |-> Poll,
     cap_set |-> CapSet, open |-> Open, sendfile |-> Sendfile,
     epoll_create |-> EpollCreate, epoll_ctl |-> EpollCtl,
     epoll_wait |-> EpollWait, pipe |-> Pipe, splice |-> Splice]

-----------------------------------------------------------------------------
(* The arguments.                                                          *)

Known(fd) == fd \in ScriptFds /\ fds[fd].type # "none"
IsKnownFd(e) == IsS32(e) /\ Known(S32(e))

\* ICMP sockets have a handler of their own, which sendto() calls
IsIcmp(c) == c.name = "sendto" /\ IsKnownFd(c.args[1]) /\ fds[S32(c.args[1])].icmp
Handler(c) == IF c.args # <<>> /\ IsIcmp(c) THEN IcmpSendto
                                            ELSE system_call_table[c.name]

\* get_epoll_event_from_expr(): an event of epoll_ctl() has the descriptor of
\* the call, that of epoll_wait() a known one, of which any s64 is cut
IsEpollev(e) ==
    /\ e.type = "epollev" /\ e.events.type = "integer"
    /\ e.data.type = "integer"
    /\ e.kind = "fd" => Known(S32(e.data))
CtlFd(e, fd) == e.kind = "fd" => e.data.num = fd

\* The value of setsockopt(): a structure, a string or one number in brackets
IsOptval(e) == e.type \in {"linger", "gre", "in6_addr", "mpls_stack", "string"}
               \/ IsBracketedS32(e)

\* What the form of an argument asks of its expression
Fits(form, e) ==
    CASE form = "fd" -> IsKnownFd(e)
      [] form = "s32" -> IsS32(e)
      [] form = "s64" -> IsS64(e)
      [] form = "..." -> IsEllipsis(e)
      [] form = "[s32]" -> IsBracketedS32(e)
      [] form = "[s64]" -> IsBracketedS64(e)
      [] form = "family" -> IsEllipsis(e) \/ IsS32(e)
      [] form = "buffer" -> IsBuffer(e)
      [] form = "iovec" -> IsIovec(e)
      [] form = "msghdr" -> IsMsghdr(e)
      [] form = "pollfds" -> IsPollfds(e) /\ \A i \in DOMAIN e.elems :
                                                Known(S32(e.elems[i].fd))
      [] form = "epollev" -> IsEpollev(e)
      [] form = "pipe" -> IsPipe(e)
      [] form = "string" -> e.type = "string"
      [] form = "optval" -> IsOptval(e)
      [] OTHER -> TRUE

\* check_arg_count(), and the arguments one by one
FormOf(c) == CHOOSE f \in Handler(c).args : Len(f) = Len(c.args)
HasForm(c) == \E f \in Handler(c).args :
                 Len(f) = Len(c.args) /\ \A i \in DOMAIN f : Fits(f[i], c.args[i])

\* alloc_buffer() asserts that it gets its memory
Allocates(c) == \A i \in DOMAIN c.args :
    (FormOf(c)[i] = "buffer" /\ IsEllipsis(c.args[i])) => S32(c.args[i + 1]) >= 0

\* Counts agree with the arrays that they count, sendmsg() is given no flags
\* in its message, and epoll_wait() has room for no less than no events
Consistent(c) ==
    /\ Allocates(c)
    /\ c.name \in {"readv", "writev"} => S32(c.args[3]) = Len(c.args[2].elems)
    /\ c.name = "poll" => S32(c.args[2]) = Len(c.args[1].elems)
    /\ c.name = "sendmsg" => S32(c.args[2].flags) = 0
    /\ c.name = "epoll_ctl" => CtlFd(c.args[4], S32(c.args[3]))
    /\ c.name = "epoll_wait" => S32(c.args[3]) >= 0

\* What the kernel is given for an argument
LiveFd(fd) == fds[fd].live
LiveArg(form, e) ==
    CASE form = "fd" -> LiveFd(S32(e))
      [] form = "s32" -> S32(e)
      [] form \in {"[s32]", "[s64]"} -> IF form = "[s32]" THEN S32(e.elems[1])
                                                        ELSE e.elems[1].num
      [] form = "s64" -> e.num
      [] form = "family" -> IF IsEllipsis(e) THEN -1 ELSE S32(e)
      [] form = "pollfds" -> [i \in DOMAIN e.elems |-> LiveFd(S32(e.elems[i].fd))]
      [] form = "epollev" -> [kind |-> e.kind, num |->
                                CASE e.kind = "fd" -> LiveFd(S32(e.data))
                                  [] e.kind = "u32" -> AsU32(e.data)
                                  [] OTHER -> e.data.num]
      [] OTHER -> e
LiveArgs(c) == [i \in DOMAIN c.args |-> LiveArg(FormOf(c)[i], c.args[i])]

-----------------------------------------------------------------------------
(* Before the live call.                                                   *)

AF_UNSPEC == 0
FASTOPEN == 2

\* Seeded fault: a second connect() starts anew
ConnectAgain(state, family) ==
    IF family = AF_UNSPEC \/ state # "new" THEN "new" ELSE "connecting"

\* run_syscall_connect(): the state of a socket that is about to be connected,
\* or with AF_UNSPEC to be disconnected
ConnectState(state, family) ==
    IF family = AF_UNSPEC THEN "new"
    ELSE IF state # "new" THEN state ELSE "connecting"

\* -1 stands for the address of the configuration
Family(c) == CASE c.name = "connect" -> LiveArg("family", c.args[2])
               [] c.name = "sendto" -> LiveArg("family", c.args[5])
               [] OTHER -> -1
NamesAddress(c) == Handler(c).before \in {"connect", "sendto"}
                   \/ (Handler(c).before = "sendmsg" /\ c.args[2].name)

\* Seeded fault: any descriptor will do
PreparedAny(c) == TRUE

\* It asserts that the descriptor is a socket's
Prepared(c) == NamesAddress(c) => fds[S32(c.args[1])].type = "socket"
Before(c) ==
    IF ~NamesAddress(c) THEN fds
    ELSE [fds EXCEPT ![S32(c.args[1])].state = ConnectState(@, Family(c))]

\* invoke_system_call(), up to the live call
InvokeSystemCall(c) ==
    /\ pc = "passed" /\ calls < MaxCalls
    /\ calls' = calls + 1 /\ call' = c /\ answer' = NoAnswer
    /\ \/ /\ c.name \in DOMAIN system_call_table
          /\ HasForm(c) /\ Consistent(c) /\ Prepared(c)
          /\ live' = LiveArgs(c) /\ fds' = Before(c)
          /\ pc' = "called"
       \/ /\ ~(c.name \in DOMAIN system_call_table
               /\ HasForm(c) /\ Consistent(c) /\ Prepared(c))
          /\ pc' = "rejected"
          /\ UNCHANGED <<live, fds>>
    /\ UNCHANGED <<means, kernel, objs>>

-----------------------------------------------------------------------------
(* The kernel under test.                                                  *)

FreeFds == {n \in LiveFds : kernel[n] = 0}
NewFd == Min(FreeFds)
Object(kind, state) == [kind |-> kind, state |-> state, watches |-> {}]

Answers(result, errno, out) ==
    answer' = [result |-> result, errno |-> errno, out |-> out]

\* The outputs as they are before the call, and stay when it fails
InitialOut ==
    CASE call.name = "recvmsg" ->
           [flags |-> S32(call.args[2].flags), held |-> <<>>,
            cmsgs |-> [i \in DOMAIN call.args[2].control |->
                         CmsgNew(call.args[2].control[i])]]
      [] call.name = "poll" -> [i \in DOMAIN call.args[1].elems |->
                                  Short(call.args[1].elems[i].revents)]
      [] call.name = "epoll_wait" -> [events |-> 0, kind |-> "none", num |-> 0, obj |-> 0]
      [] call.name = "getsockopt" -> [len |-> live[5], val |-> 0]
      [] OTHER -> 0

Obj(n) == objs[kernel[n]]

\* A call that fails; ioctl() then leaves its variable unset
Fail ==
    /\ \E errno \in {"EAGAIN", "EINVAL"} :
          IF call.name = "ioctl" THEN \E v \in {0, 1} : Answers(-1, errno, v)
                                 ELSE Answers(-1, errno, InitialOut)
    /\ UNCHANGED <<kernel, objs>>

NewObject ==
    /\ call.name \in {"socket", "open", "epoll_create"} /\ FreeFds # {}
    /\ objs' = Append(objs, Object(
          IF call.name = "socket" /\ live[2] = 2 THEN "icmp"
          ELSE IF call.name = "socket" THEN "tcp" ELSE call.name, "new"))
    /\ kernel' = [kernel EXCEPT ![NewFd] = Len(objs')]
    /\ Answers(NewFd, "", 0)

NewPipe ==
    /\ call.name = "pipe" /\ Cardinality(FreeFds) >= 2
    /\ objs' = objs \o <<Object("pipe", "new"), Object("pipe", "new")>>
    /\ LET second == Min(FreeFds \ {NewFd}) IN
       /\ kernel' = [kernel EXCEPT ![NewFd] = Len(objs) + 1, ![second] = Len(objs) + 2]
       /\ Answers(0, "", <<NewFd, second>>)

Accepts ==
    /\ call.name = "accept" /\ Obj(live[1]).state = "listening" /\ FreeFds # {}
    /\ objs' = Append(objs, Object("tcp", "connected"))
    /\ kernel' = [kernel EXCEPT ![NewFd] = Len(objs')]
    /\ Answers(NewFd, "", 0)

\* What changes the state of a socket.  sendto() and sendmsg() connect only
\* with MSG_FASTOPEN.
SetState(state) == objs' = [objs EXCEPT ![kernel[live[1]]].state = state]
Connecting == \/ call.name = "connect"
              \/ call.name = "sendto" /\ live[4] = FASTOPEN
              \/ call.name = "sendmsg" /\ live[3] = FASTOPEN /\ call.args[2].name
Connects ==
    /\ Connecting /\ Obj(live[1]).kind = "tcp"
    /\ \/ /\ Family(call) = AF_UNSPEC
          /\ SetState("new") /\ Answers(0, "", 0)
       \/ /\ Family(call) # AF_UNSPEC /\ Obj(live[1]).state # "new"
          /\ Answers(-1, "EISCONN", 0) /\ UNCHANGED objs
       \/ /\ Family(call) # AF_UNSPEC /\ Obj(live[1]).state = "new"
          /\ \/ SetState("connected") /\ Answers(0, "", 0)
             \/ SetState("connected") /\ Answers(-1, "EINPROGRESS", 0)
             \/ Answers(-1, "ECONNREFUSED", 0) /\ UNCHANGED objs
    /\ UNCHANGED kernel

Listens ==
    /\ call.name = "listen" /\ Obj(live[1]).kind = "tcp"
    /\ Obj(live[1]).state # "connected"
    /\ SetState("listening") /\ Answers(0, "", 0)
    /\ UNCHANGED kernel

\* The last descriptor of an object takes it out of every epoll set.  An error
\* of close() does not keep the descriptor open.
Closes ==
    /\ call.name = "close"
    /\ kernel' = [kernel EXCEPT ![live[1]] = 0]
    /\ objs' = [i \in DOMAIN objs |-> [objs[i] EXCEPT !.watches =
                                         {w \in @ : w.obj # kernel[live[1]]}]]
    /\ \/ Answers(0, "", 0) \/ Answers(-1, "EIO", 0)

\* epoll_ctl() with EPOLL_CTL_ADD (1), EPOLL_CTL_DEL (2) or EPOLL_CTL_MOD (3)
Watched(o) == {w \in Obj(live[1]).watches : w.obj = o}
Watches ==
    /\ call.name = "epoll_ctl" /\ Obj(live[1]).kind = "epoll_create"
    /\ LET o == kernel[live[3]] IN
       /\ (live[2] = 1) = (Watched(o) = {})
       /\ objs' = [objs EXCEPT ![kernel[live[1]]].watches =
             (@ \ Watched(o)) \union
             (IF live[2] = 2 THEN {} ELSE {[obj |-> o, data |-> live[4]]})]
    /\ Answers(0, "", 0)
    /\ UNCHANGED kernel

Reports ==
    /\ \/ /\ call.name = "epoll_wait" /\ Obj(live[1]).kind = "epoll_create"
          /\ \/ Answers(0, "", InitialOut)
             \/ \E w \in Obj(live[1]).watches, e \in Revents :
                   Answers(1, "", [events |-> e, kind |-> w.data.kind,
                                   num |-> w.data.num, obj |-> w.obj])
       \/ /\ call.name = "poll"
          /\ \E out \in [DOMAIN live[1] -> Revents \union {0}] :
                Answers(Cardinality({i \in DOMAIN out : out[i] # 0}), "", out)
       \/ /\ call.name = "recvmsg"
          /\ \E held \in Messages, flags \in {0, 1} :
                LET room == FoldLeft(LAMBDA n, c : n + Length(c), 0,
                                     call.args[2].control) IN
                Answers(1, "", [flags |-> IF Truncated(room, held) THEN 2 + flags
                                                                  ELSE flags,
                                held |-> held, cmsgs |-> Delivered(room, held)])
       \/ /\ call.name = "getsockopt"
          /\ \E len \in {1, 3}, val \in {0, 1} : Answers(0, "", [len |-> len, val |-> val])
       \/ /\ call.name = "ioctl"
          /\ \E v \in {0, 1} : Answers(0, "", v)
    /\ UNCHANGED <<kernel, objs>>

\* Calls that change nothing of what is modelled
Silent == {"bind", "read", "readv", "recv", "recvfrom", "write", "writev",
           "send", "fcntl", "shutdown", "setsockopt", "cap_set", "sendfile",
           "splice"}
Succeeds ==
    /\ call.name \in Silent \/ (call.name \in {"sendto", "sendmsg"} /\ ~Connecting)
    /\ \E n \in {0, 1} : Answers(n, "", 0)
    /\ UNCHANGED <<kernel, objs>>

KernelReturns ==
    /\ pc = "called" /\ pc' = "returned"
    /\ \/ Fail \/ NewObject \/ NewPipe \/ Accepts \/ Connects \/ Listens
       \/ Closes \/ Watches \/ Reports \/ Succeeds
    /\ UNCHANGED <<fds, call, live, means, calls>>

-----------------------------------------------------------------------------
(* After the live call.                                                    *)

Result == S32(call.result)
Check == Handler(call).check

\* end_syscall(): the result, or only that it is a descriptor, and the error
\* if the script names one
ResultMatches ==
    /\ IsS32(call.result)
    /\ IF Check = "fd" /\ Result >= 0 THEN answer.result >= 0
                                      ELSE answer.result = Result
    /\ call.errno # "" => answer.errno = call.errno

\* getsockopt(): the length, and the value as its type asks; one number has
\* the length 1 here, structures the length 3
OptionMatches(val, len) ==
    /\ answer.out.len = len
    /\ CASE val.type = "string" -> answer.out.val = val.val
         [] val.type = "list" -> len = 1 /\ IsBracketedS32(val)
                                 /\ answer.out.val = S32(val.elems[1])
         [] val.type \in {"gre", "in6_addr"} -> len = 3 /\ answer.out.val = val.val
         [] OTHER -> FALSE

\* pollfds_check()
PollMatches(list) == \A i \in DOMAIN list : answer.out[i] = S32(list[i].revents)

\* recvmsg(): the flags and the control messages
MessageMatches(msg) ==
    /\ answer.out.flags = S32(msg.flags)
    /\ CmsgsEq([i \in DOMAIN msg.control |-> CmsgNew(msg.control[i])],
               answer.out.cmsgs)

\* epoll_wait(): the first event, whatever the number of events.  If there is
\* none, it is all zeros.
EventMatches(e) ==
    /\ answer.out.events = AsU32(e.events)
    /\ answer.out.num = live[2].num

\* ioctl() with three arguments
IoctlMatches == Len(call.args) = 3 => answer.out = live[3]

OutputMatches ==
    CASE Handler(call).output = "ioctl" -> IoctlMatches
      [] Handler(call).output = "getsockopt" -> OptionMatches(call.args[4], live[5])
      [] Handler(call).output = "poll" -> PollMatches(call.args[1].elems)
      [] Handler(call).output = "msghdr" -> MessageMatches(call.args[2])
      [] Handler(call).output = "epoll_wait" -> EventMatches(call.args[2])
      [] OTHER -> TRUE

\* The number that the script has for an end of a pipe
PipeFd(c, end) == S32(c.args[1].elems[end])

\* check_duplicate_fd() comes before a new entry, but not for accept()
NewNumbers == CASE Handler(call).after \in {"socket", "open", "epoll_create"}
                     -> IF answer.result >= 0 THEN {Result} ELSE {}
                [] Handler(call).after = "pipe"
                     -> IF answer.result >= 0 THEN {PipeFd(call, 1), PipeFd(call, 2)}
                                              ELSE {}
                [] OTHER -> {}
CanRecord == /\ \A fd \in NewNumbers : ~Known(fd)
             /\ Handler(call).after = "listen" => fds[S32(call.args[1])].type = "socket"

\* run_syscall_socket(), run_syscall_open(), run_syscall_epoll_create(),
\* run_syscall_accept()
RecordNew(entry) == IF answer.result >= 0 THEN [fds EXCEPT ![Result] = entry] ELSE fds

\* Seeded fault: the ends are exchanged
RecordPipeSwapped ==
    IF answer.result < 0 THEN fds
    ELSE [fd \in ScriptFds |->
            CASE fd = PipeFd(call, 1) -> Entry("pipe", answer.out[2])
              [] fd = PipeFd(call, 2) -> Entry("pipe", answer.out[1])
              [] OTHER -> fds[fd]]

\* run_syscall_pipe()
RecordPipe ==
    IF answer.result < 0 THEN fds
    ELSE [fd \in ScriptFds |->
            CASE fd = PipeFd(call, 1) -> Entry("pipe", answer.out[1])
              [] fd = PipeFd(call, 2) -> Entry("pipe", answer.out[2])
              [] OTHER -> fds[fd]]

\* listen() and close() are recorded even if the script expects them to fail
After ==
    CASE Handler(call).after = "socket" ->
           RecordNew([Entry("socket", answer.result) EXCEPT !.state = "new",
                         !.icmp = live[2] = 2 /\ live[3] = 1])
      [] Handler(call).after \in {"open", "epoll_create"} ->
           RecordNew(Entry(call.name, answer.result))
      [] Handler(call).after = "accept" ->
           RecordNew([Entry("socket", answer.result) EXCEPT !.state = "accepted"])
      [] Handler(call).after = "pipe" -> RecordPipe
      [] Handler(call).after = "listen" ->
           [fds EXCEPT ![S32(call.args[1])].state = "listening"]
      [] Handler(call).after = "close" -> [fds EXCEPT ![S32(call.args[1])] = NoEntry]
      [] OTHER -> fds

\* What the script calls by its numbers from here on
Means ==
    CASE call.name \in {"socket", "open", "epoll_create", "accept"} /\ answer.result >= 0 ->
           [means EXCEPT ![Result] = kernel[answer.result]]
      [] call.name = "pipe" /\ answer.result >= 0 ->
           [means EXCEPT ![PipeFd(call, 1)] = kernel[answer.out[1]],
                         ![PipeFd(call, 2)] = kernel[answer.out[2]]]
      [] call.name = "close" -> [means EXCEPT ![S32(call.args[1])] = 0]
      [] OTHER -> means

Finish ==
    /\ pc = "returned"
    /\ \/ /\ ResultMatches /\ OutputMatches /\ CanRecord
          /\ fds' = After /\ means' = Means /\ pc' = "passed"
       \/ /\ ~(ResultMatches /\ OutputMatches /\ CanRecord)
          /\ pc' = "died"
          /\ UNCHANGED <<fds, means>>
    /\ UNCHANGED <<call, live, answer, kernel, objs, calls>>

Init ==
    /\ fds = [fd \in ScriptFds |-> NoEntry] /\ means = [fd \in ScriptFds |-> 0]
    /\ kernel = [n \in LiveFds |-> 0] /\ objs = <<>>
    /\ call = NoCall /\ live = <<>>
    /\ answer = NoAnswer
    /\ pc = "passed" /\ calls = 0

\* Scripts give a number that is free to what they accept, two numbers to the
\* ends of a pipe, and expect events with data of the kind that they gave to
\* epoll_ctl()
Careful(c) ==
    /\ c.name = "accept" => ~Known(S32(c.result))
    /\ c.name = "pipe" => PipeFd(c, 1) # PipeFd(c, 2)
    /\ c.name = "epoll_wait" /\ IsKnownFd(c.args[1]) =>
         \A w \in objs[kernel[LiveFd(S32(c.args[1]))]].watches :
             w.data.kind = c.args[2].kind

Next ==
    \/ \E c \in Calls : InvokeSystemCall(c) /\ Careful(c)
    \/ KernelReturns \/ Finish

Spec == Init /\ [][Next]_vars

-----------------------------------------------------------------------------
(* Properties.                                                             *)

\* Every variable keeps its type; sockets and only sockets have a state.
TypeOK ==
    /\ \A fd \in ScriptFds :
          /\ fds[fd].type \in {"none", "socket", "open", "epoll_create", "pipe"}
          /\ fds[fd].live \in LiveFds \union {-1}
          /\ fds[fd].state \in IF fds[fd].type = "socket"
                THEN {"new", "listening", "connecting", "accepted"} ELSE {"none"}
    /\ kernel \in [LiveFds -> 0..Len(objs)]
    /\ means \in [ScriptFds -> 0..Len(objs)]
    /\ pc \in {"passed", "called", "returned", "rejected", "died"} /\ calls \in 0..MaxCalls

\* What a descriptor argument means, in a list, in an event or alone
Reaches(n, fd) == n \in LiveFds /\ kernel[n] = means[fd] /\ kernel[n] # 0
Wraps(n, m) == n \in -Half..Half - 1 /\ (n - m) % U32 = 0

\* to_live_fd(), get_s32() and the rest of the translation: whatever was made
\* and closed before, a live call works on the objects that the script calls
\* by these numbers, and its integers are those of the script modulo 2^32.
\* (Lists and events give any s64 for a descriptor, which is cut to an s32.)
KernelSeesScript ==
    pc = "called" => \A i \in DOMAIN live :
        LET form == FormOf(call)[i]
            e == call.args[i] IN
        /\ form = "fd" => Reaches(live[i], e.num)
        /\ form = "s32" => Wraps(live[i], e.num)
        /\ form = "pollfds" => \A k \in DOMAIN e.elems :
                                  Reaches(live[i][k], S32(e.elems[k].fd))
        /\ (form = "epollev" /\ e.kind = "fd") => Reaches(live[i].num, S32(e.data))

\* What a script says of a control message: "..." and 0 leave a value open, as
\* does the number that stands for "...", OPT_NLA_IGNORE_VAL
Says(c, actual) ==
    /\ c.kind = actual.kind
    /\ CASE c.kind = "stats" ->
              /\ Len(c.data) = Len(actual.data)
              /\ \A i \in DOMAIN c.data :
                    /\ c.data[i].stat = actual.data[i].stat
                    /\ c.data[i].val.type = "integer"
                         /\ c.data[i].val.num # IgnoreVal(c.data[i].stat) =>
                         LET gap == c.data[i].val.num - actual.data[i].val IN
                         IF c.data[i].stat \in BusyStats /\ c.data[i].val.num # 0
                           THEN gap \in -tolerance_usecs..tolerance_usecs
                           ELSE gap = 0
         [] c.kind = "timestamping" ->
              \A i \in DOMAIN c.data :
                  c.data[i] # 0 => Near(c.data[i] + start_usecs, actual.data[i])
         [] c.kind = "recverr" -> \A i \in 1..6 : Wraps(actual.data[i], c.data[i].num)
         [] OTHER -> Wraps(actual.data, c.data.num)

\* What it says of the outputs of a call that succeeds
Described ==
    CASE call.name = "ioctl" -> Len(call.args) = 3 =>
              Wraps(answer.out, call.args[3].elems[1].num)
      [] call.name = "getsockopt" ->
           /\ Wraps(answer.out.len, call.args[5].elems[1].num)
           /\ IF call.args[4].type = "list"
                THEN Wraps(answer.out.val, call.args[4].elems[1].num)
                ELSE answer.out.val = call.args[4].val
      [] call.name = "poll" -> \A i \in DOMAIN call.args[1].elems :
                                  Wraps(answer.out[i], call.args[1].elems[i].revents.num)
      [] call.name = "epoll_wait" -> answer.result >= 1 =>
           /\ (answer.out.events - call.args[2].events.num) % U32 = 0
           /\ CASE call.args[2].kind = "fd" ->
                     answer.out.obj = means[S32(call.args[2].data)]
                [] call.args[2].kind = "u32" ->
                     (answer.out.num - call.args[2].data.num) % U32 = 0
                [] OTHER -> answer.out.num = call.args[2].data.num
      [] call.name = "recvmsg" ->
           /\ Wraps(answer.out.flags, call.args[2].flags.num)
           /\ answer.out.flags < 2 =>
                /\ Len(answer.out.held) = Len(call.args[2].control)
                /\ \A i \in DOMAIN answer.out.held :
                      Says(call.args[2].control[i], answer.out.held[i])
      [] OTHER -> TRUE


\* run_syscall_connect() and run_syscall_listen(): a socket that the kernel has
\* connected or made listen is not taken for a new one, whether the call that
\* did it succeeded, failed with EINPROGRESS or was a sendto(), so that its
\* packets find it.
ConnectionTracked ==
    pc = "passed" => \A fd \in ScriptFds :
        fds[fd].type = "socket" /\ objs[kernel[fds[fd].live]].kind = "tcp"
        /\ objs[kernel[fds[fd].live]].state # "new"
            => fds[fd].state # "new"
=============================================================================
