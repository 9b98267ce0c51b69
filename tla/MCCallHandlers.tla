--------------------------- MODULE MCCallHandlers ---------------------------
(* Calls of scripts for model checking CallHandlers.                       *)
EXTENDS CallHandlers

I(n) == Integer(n)
E == Ellipsis
L(n) == List(<<I(n)>>)
Call(name, args, n) == [name |-> name, args |-> args, result |-> I(n), errno |-> ""]
Fails(name, args, errno) == [Call(name, args, -1) EXCEPT !.errno = errno]

Iov(n) == List([i \in 1..n |-> [type |-> "iovec"]])
Event(kind, n) == [type |-> "epollev", events |-> I(1), kind |-> kind, data |-> I(n)]
NoEvent == [Event("u32", 0) EXCEPT !.events = I(0)]
Pollfd(fd, revents) ==
    [type |-> "pollfd", fd |-> I(fd), events |-> I(1), revents |-> I(revents)]

Cmsg(kind, data) == [kind |-> kind, data |-> data, cut |-> FALSE]
Mark(n) == Cmsg("other", I(n))
Err(n) == Cmsg("recverr", [i \in 1..6 |-> I(n)])
Stamp(t) == Cmsg("timestamping", <<t, 0, 0>>)
Ignored(n) == Cmsg("stats", <<[stat |-> "busy", val |-> I(n)],
                              [stat |-> IF n < U8 THEN "ca_state" ELSE "min_rtt",
                               val |-> I(n)]>>)
Stats(val) == Cmsg("stats", <<[stat |-> "busy", val |-> val],
                              [stat |-> "ca_state", val |-> val]>>)
Msg(control, flags, name) ==
    [type |-> "msghdr", iov |-> Iov(1), iovlen |-> I(1), control |-> control,
     flags |-> I(flags), name |-> name]

HeldStats(busy, state) == Cmsg("stats", <<[stat |-> "busy", val |-> busy],
                                          [stat |-> "ca_state", val |-> state]>>)
HeldMark(n) == Cmsg("other", n)
MCMessages ==
    {<<>>, <<HeldMark(1)>>, <<HeldMark(1), HeldMark(1)>>, <<HeldMark(-8)>>,
     <<Cmsg("recverr", [i \in 1..6 |-> 1]), HeldMark(1)>>,
     <<Cmsg("timestamping", <<3, 1, 1>>)>>, <<Cmsg("timestamping", <<5, 1, 1>>)>>,
     <<HeldStats(0, 0)>>, <<HeldStats(1, 0)>>, <<HeldStats(2, 1)>>,
     <<Cmsg("stats", <<[stat |-> "busy", val |-> 7], [stat |-> "min_rtt", val |-> 7]>>)>>}

\* U32 is 16 here: 15 stands for 2^32 - 1, 17 and 18 are cut to 1 and 2

\* Numbers 0 and 1 are descriptors of most scripts, 2 is an epoll set or what
\* is accepted
MCCalls ==
    {Call("socket", <<E, I(1), I(0)>>, fd) : fd \in {0, 1}}
    \union {Call("socket", <<E, I(2), I(1)>>, 1)}
    \union {Call("epoll_create", <<I(1)>>, 2), Call("open", <<[type |-> "string"], I(0)>>, 1),
            Call("pipe", <<List(<<I(0), I(1)>>)>>, 0),
            Call("pipe", <<List(<<I(16), I(1)>>)>>, 0),
            Call("accept", <<I(0), E, E>>, 2), Fails("accept", <<I(0), E, E>>, "EAGAIN"),
            Call("listen", <<I(0), I(1)>>, 0), Fails("listen", <<I(0), I(1)>>, "EINVAL"),
            Call("connect", <<I(0), E, E>>, 0), Call("connect", <<I(0), I(0), E>>, 0),
            Fails("connect", <<I(0), E, E>>, "EINPROGRESS"),
            Fails("connect", <<I(0), E, E>>, "EISCONN"),
            Call("sendto", <<I(0), E, I(1), I(FASTOPEN), E, E>>, 0),
            Fails("sendto", <<I(0), E, I(1), I(FASTOPEN), E, E>>, "EINPROGRESS"),
            Call("sendto", <<I(1), E, I(1), I(0), E, E>>, 1),
            Call("sendto", <<I(0), E, I(1), I(FASTOPEN), I(0), E>>, 0),
            Call("sendmsg", <<I(0), Msg(<<>>, 0, TRUE), I(FASTOPEN)>>, 0),
            Call("sendmsg", <<I(0), Msg(<<>>, 0, FALSE), I(0)>>, 1),
            Call("sendmsg", <<I(0), Msg(<<>>, 1, TRUE), I(0)>>, 1)}
    \union {Call("close", <<I(fd)>>, 0) : fd \in 0..2}
    \union {Fails("close", <<I(0)>>, "EIO")}
    \union {Call("epoll_ctl", <<I(2), I(op), I(0), Event("fd", 0)>>, 0) : op \in {1, 2, 3}}
    \union {Call("epoll_ctl", <<I(2), I(1), I(0), Event("fd", 1)>>, 0),
            Call("epoll_ctl", <<I(2), I(1), I(0), Event("u32", 1)>>, 0)}
    \union {Call("epoll_wait", <<I(2), Event("fd", fd), I(1), I(0)>>, 1) : fd \in {0, 1}}
    \union {Call("epoll_wait", <<I(2), Event("u32", 1), I(1), I(0)>>, 1),
            Call("epoll_wait", <<I(2), [Event("u32", 17) EXCEPT !.events = I(18)], I(1), I(0)>>, 1),
            Call("epoll_wait", <<I(2), Event("fd", 16), I(1), I(0)>>, 1),
            Call("epoll_ctl", <<I(2), I(1), I(0), Event("fd", 16)>>, 0),
            Call("epoll_wait", <<I(2), NoEvent, I(1), I(0)>>, 0),
            Call("epoll_wait", <<I(2), NoEvent, I(-1), I(0)>>, 0)}
    \union {Call("poll", <<List(<<Pollfd(0, 1), Pollfd(1, r)>>), I(2), I(0)>>, 1 + r) :
              r \in {0, 1}}
    \union {Call("poll", <<List(<<Pollfd(0, 1)>>), I(2), I(0)>>, 1),
            Call("poll", <<List(<<Pollfd(16, 17)>>), I(1), I(0)>>, 1)}
    \union {Fails("poll", <<List(<<Pollfd(0, r)>>), I(1), I(0)>>, "EINVAL") : r \in {9, 17}}
    \union {Call("recvmsg", <<I(0), Msg(control, flags, FALSE), I(0)>>, 1) :
              control \in {<<>>, <<Mark(1)>>, <<Mark(8)>>, <<Mark(1), Mark(1)>>,
                           <<Err(1), Mark(1)>>, <<Stamp(1)>>, <<Stats(I(0))>>,
                           <<Stats(I(1))>>, <<Stats(E)>>, <<Ignored(3)>>, <<Ignored(15)>>},
              flags \in {0, 2}}
    \union {[Fails("recvmsg", <<I(0), Msg(<<Stamp(1)>>, 0, FALSE), I(0)>>, "EAGAIN")
               EXCEPT !.result = I(15)]}
    \union {Call("getsockopt", <<I(0), I(0), I(0), val, L(len)>>, 0) : len \in {1, 3},
              val \in {L(1), [type |-> "string", val |-> 1], [type |-> "gre", val |-> 1],
                       [type |-> "linger"]}}
    \union {Call("setsockopt", <<I(0), I(0), I(0), val, I(1)>>, 0) :
              val \in {L(1), [type |-> "linger"], I(1)}}
    \union {Call("ioctl", <<I(0), I(1), L(1)>>, 0), Fails("ioctl", <<I(0), I(1), L(1)>>, ""),
            Call("ioctl", <<I(0), I(1)>>, 0), Call("fcntl", <<I(0), I(1)>>, 0),
            Call("fcntl", <<I(0), I(1), I(14)>>, 0), Call("fcntl", <<I(0)>>, 0),
            Call("bind", <<I(0), E, E>>, 0), Call("shutdown", <<I(0), I(16)>>, 0),
            Call("read", <<I(0), E, I(1)>>, 1), Call("read", <<I(0), E, I(-1)>>, 1),
            Call("write", <<I(0), I(0), I(-1)>>, 1), Call("readv", <<I(0), Iov(2), I(2)>>, 1),
            Call("writev", <<I(0), Iov(2), I(1)>>, 1), Call("recv", <<I(0), E, I(1), I(0)>>, 1),
            Call("recvfrom", <<I(0), E, I(1), I(0), E, E>>, 1),
            Call("send", <<I(0), E, I(1), I(0)>>, 16),
            Call("sendfile", <<I(0), I(1), L(0), I(1)>>, 1),
            Call("splice", <<I(0), I(9), I(1), I(0), I(1), I(0)>>, 1),
            Call("cap_set", <<I(1), I(1), I(1)>>, 0), Call("mmap", <<>>, 0)}
=============================================================================
