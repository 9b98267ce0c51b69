--------------------------- MODULE MCEventTiming ---------------------------
(* A small instance of EventTiming: scripts that put each kind of time next *)
(* to each kind of event.                                                   *)
EXTENDS EventTiming

Ev(type, time_type, time) == [type |-> type, time_type |-> time_type, time |-> time, time_end |-> NoEnd, end |-> NoEnd]
In(time_type, time) == Ev("inbound", time_type, time)
Out(time_type, time, time_end) == [Ev("outbound", time_type, time) EXCEPT !.time_end = time_end]
Call(time_type, time, end) == [Ev("call", time_type, time) EXCEPT !.end = end]
A == "ABSOLUTE_TIME"
R == "RELATIVE_TIME"

MCFirst == {Call(A, 0, NoEnd), Call(A, 0, 2), Call(R, 0, 1), In(A, 0), In(R, 0), Out("ANY_TIME", 0, NoEnd), Out(A, 0, NoEnd)}
MCOthers ==
    {In(R, 1), In(A, 2), Ev("command", R, 1), Call(R, 1, 2), Call(A, 1, 3), Call(R, 0, NoEnd), Out(R, 1, NoEnd),
     Out("ANY_TIME", 0, NoEnd), Out("ABSOLUTE_RANGE_TIME", 1, 3), Out("RELATIVE_RANGE_TIME", 1, 3)}

MCScripts ==
    {<<e, f>> : e \in MCFirst, f \in MCOthers}
        \cup {<<Call(R, 0, 1), f, g>> : f, g \in {In(R, 1), Out(R, 1, NoEnd), Ev("command", R, 1), Call(R, 1, 2), Call(R, 0, NoEnd)}}
        \cup {<<In(R, 0), f, g>> : f, g \in {In(R, 1), In(A, 2), Out("RELATIVE_RANGE_TIME", 1, 2), Ev("command", R, 1)}}
        \cup {<<Call(A, 0, NoEnd), In(t, 1), In(R, 1), In(R, 1)>> : t \in {A, R}}
        \cup {<<In(A, 1)>>, <<In(A, 0), Call(A, 2, NoEnd), In(A, 1)>>}
=============================================================================
