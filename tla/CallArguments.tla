--------------------------- MODULE CallArguments ---------------------------
(***************************************************************************)
(* The arguments of system calls (run_system_call.c): how the evaluated    *)
(* expressions of a script are read, and how structures that the kernel    *)
(* filled in are compared with those that the script describes.            *)
(* An expression is a record whose type is one of enum expression_t.       *)
(***************************************************************************)
EXTENDS Integers, Sequences, FiniteSets, SequencesExt

CONSTANTS
    Half,            \* 2^31: the s32 are -Half .. Half - 1
    HalfShort,       \* 2^15, for poll()
    U8,              \* 2^8, the values of one-byte statistics
    tolerance_usecs, \* config->tolerance_usecs
    start_usecs      \* live minus script time at the start of the run

ASSUME WidthsAssumption ==
    Half \in Nat \ {0} /\ U8 \in 1..2 * Half /\ HalfShort \in 1..Half
    /\ tolerance_usecs \in Nat /\ start_usecs \in Int

U32 == 2 * Half

Integer(n) == [type |-> "integer", num |-> n]
Ellipsis == [type |-> "ellipsis"]
List(elems) == [type |-> "list", elems |-> elems]

-----------------------------------------------------------------------------
(* Reading one expression.                                                 *)

\* get_s32(): any number that is an s32 or a u32 is taken, and then cut
IsS32(e) == e.type = "integer" /\ e.num >= -Half /\ e.num < U32
S32(e) == ((e.num + Half) % U32) - Half

\* A number that is put into an u32 or a short, whatever it is
AsU32(e) == e.num % U32
Short(e) == ((e.num + HalfShort) % (2 * HalfShort)) - HalfShort

\* get_s64()
IsS64(e) == e.type = "integer"

\* bracketed_arg(): a list of one element
Bracketed(e) == e.type = "list" /\ Len(e.elems) = 1
IsBracketedS32(e) == Bracketed(e) /\ IsS32(e.elems[1])
IsBracketedS64(e) == Bracketed(e) /\ IsS64(e.elems[1])

\* ellipsis_arg()
IsEllipsis(e) == e.type = "ellipsis"

\* buffer_arg(): "..." or NULL
IsBuffer(e) == IsEllipsis(e) \/ e = Integer(0)

\* iovec_new()
IsIovec(e) == e.type = "list" /\ \A i \in DOMAIN e.elems : e.elems[i].type = "iovec"

\* pollfds_new(), apart from the translation of the descriptors
IsPollfds(e) ==
    e.type = "list" /\ \A i \in DOMAIN e.elems :
        /\ e.elems[i].type = "pollfd"
        /\ e.elems[i].fd.type = "integer"
        /\ e.elems[i].events.type = "integer"
        /\ e.elems[i].revents.type = "integer"

\* get_pipe_expression()
IsPipe(e) == e.type = "list" /\ Len(e.elems) = 2
             /\ \A i \in 1..2 : e.elems[i].type = "integer"

-----------------------------------------------------------------------------
(* Control messages.  A message has a level and a type, kind for short,    *)
(* and data: six fields of an extended error, time stamps, statistics or   *)
(* one integer.  A statistic is a pair of a type and a value.              *)

\* The widths of tcp_nla[]: 8, 4 and 1 bytes
BusyStats == {"busy", "rwnd_limited", "sndbuf_limited"}
CountStats == {"data_segs_out", "total_retrans", "pacing_rate", "delivery_rate"}
WordStats == {"snd_cwnd", "reordering", "min_rtt", "sndq_size"}
ByteStats == {"recur_retrans", "delivery_rate_app_lmt", "ca_state"}

\* get_nla_value(): OPT_NLA_IGNORE_VAL is an unsigned int, cut to the width.
\* A script that gives this number says "..." without meaning it.
IgnoreVal(stat) == IF stat \in ByteStats THEN (U32 - 1) % U8 ELSE U32 - 1
NlaValue(stat, e) == IF e.type = "integer" THEN e.num ELSE IgnoreVal(stat)

\* nla_expr_list_to_nla(): numbers must fit
NlaFits(stat, e) ==
    /\ e.type \in {"integer", "ellipsis"}
    /\ e.type = "integer" =>
         CASE stat \in ByteStats -> e.num \in 0..U8 - 1
           [] stat \in WordStats -> e.num \in 0..U32 - 1
           [] OTHER -> TRUE
Nlas(list) == [i \in DOMAIN list |->
                 [stat |-> list[i].stat, val |-> NlaValue(list[i].stat, list[i].val)]]

\* new_extended_err()
IsExtendedErr(fields) == \A i \in 1..6 : IsS32(fields[i])
ExtendedErr(fields) == [i \in 1..6 |-> S32(fields[i])]

\* cmsg_new(): the message that the script expects
IsCmsg(c) == CASE c.kind = "recverr" -> IsExtendedErr(c.data)
               [] c.kind = "stats" -> \A i \in DOMAIN c.data :
                                         NlaFits(c.data[i].stat, c.data[i].val)
               [] c.kind = "timestamping" -> TRUE
               [] OTHER -> IsS32(c.data)
CmsgNew(c) == [c EXCEPT !.data =
                 CASE c.kind = "recverr" -> ExtendedErr(@)
                   [] c.kind = "stats" -> Nlas(@)
                   [] c.kind = "timestamping" -> @
                   [] OTHER -> S32(@)]

\* msghdr_new()
IsMsghdr(e) ==
    /\ e.type = "msghdr" /\ IsIovec(e.iov)
    /\ IsS32(e.iovlen) /\ S32(e.iovlen) = Len(e.iov.elems)
    /\ \A i \in DOMAIN e.control : IsCmsg(e.control[i])
    /\ IsS32(e.flags)

Near(a, b) == a - b \in -tolerance_usecs..tolerance_usecs

\* sock_ee_expect_eq()
ExtendedErrEq(expected, actual) == \A i \in 1..6 : expected[i] = actual[i]

\* scm_timestamping_expect_eq(): 0 in the script stands for any time
TimestampingEq(expected, actual) ==
    \A i \in DOMAIN expected :
        expected[i] # 0 => Near(expected[i] + start_usecs, actual[i])


\* One statistic of scm_opt_stats_expect_eq(): times have a tolerance, except
\* that zero is precise
StatEq(stat, expected, actual) ==
    \/ expected = IgnoreVal(stat)
    \/ /\ stat \in BusyStats /\ expected # 0 /\ Near(expected, actual)
    \/ expected = actual

\* scm_opt_stats_expect_eq()
OptStatsEq(expected, actual) ==
    /\ Len(expected) = Len(actual)
    /\ \A i \in DOMAIN expected :
          /\ expected[i].stat = actual[i].stat
          /\ StatEq(expected[i].stat, expected[i].val, actual[i].val)

\* The room that a message takes: its header and its data
Length(c) == 1 + (CASE c.kind = "recverr" -> 8
                    [] c.kind = "timestamping" -> 6
                    [] c.kind = "stats" -> Len(c.data)
                    [] OTHER -> 1)

\* cmsg_expect_eq(): one message after the other, of the same kind and length.
\* A message that the kernel had no room for is shorter than it should be.
CmsgEq(expected, actual) ==
    /\ expected.kind = actual.kind /\ ~actual.cut
    /\ Length(expected) = Length(actual)
    /\ CASE expected.kind = "recverr" -> ExtendedErrEq(expected.data, actual.data)
         [] expected.kind = "timestamping" -> TimestampingEq(expected.data, actual.data)
         [] expected.kind = "stats" -> OptStatsEq(expected.data, actual.data)
         [] OTHER -> expected.data = actual.data
CmsgsEq(expected, actual) ==
    /\ Len(expected) = Len(actual)
    /\ \A i \in DOMAIN expected : CmsgEq(expected[i], actual[i])

\* put_cmsg() of the kernel: messages are delivered as long as there is room,
\* the first one that does not fit is cut, those after it are lost
RoomBefore(room, cmsgs, i) ==
    room - FoldLeft(LAMBDA n, c : n + Length(c), 0, SubSeq(cmsgs, 1, i - 1))
Arrives(room, cmsgs, i) == RoomBefore(room, cmsgs, i) >= 1
Whole(room, cmsgs, i) == RoomBefore(room, cmsgs, i) >= Length(cmsgs[i])
Delivered(room, cmsgs) ==
    LET n == Cardinality({i \in DOMAIN cmsgs : Arrives(room, cmsgs, i)}) IN
    [i \in 1..n |-> [cmsgs[i] EXCEPT !.cut = ~Whole(room, cmsgs, i)]]
Truncated(room, cmsgs) == \E i \in DOMAIN cmsgs : ~Whole(room, cmsgs, i)
=============================================================================
