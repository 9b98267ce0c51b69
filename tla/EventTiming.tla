---------------------------- MODULE EventTiming ----------------------------
(***************************************************************************)
(* When the events of a script happen, and whether that was the right time *)
(* (run.c).  Each event has a time of one of five kinds.  Absolute times   *)
(* count from the start; relative ones from the moment when the            *)
(* interpreter comes to the event (adjust_relative_event_times()), except  *)
(* that a run of inbound packets is anchored at its first, so that the     *)
(* time spent on each packet does not add up.  Inbound packets, commands   *)
(* and calls wait for their time (wait_for_event()) and are checked when   *)
(* they begin; an outbound packet is checked when it has been sniffed, by  *)
(* the time stamp of the kernel; the end of a blocking call is checked by  *)
(* the other thread, when the script may have moved on.                    *)
(*                                                                         *)
(* This is the interpreter on one machine.  The lock and the hand-over of  *)
(* a call are those of SyscallThread: here a call begins in one step.      *)
(* The clock is the one of gettimeofday(); it never goes back.             *)
(***************************************************************************)
EXTENDS Integers, Sequences, FiniteSets

CONSTANTS
    Scripts,        \* scripts, as sequences of events
    Tolerance,      \* config->tolerance_usecs
    StartOffset,    \* JIFFY_OFFSET_USECS: from the last jiffy to the start
    MaxTime         \* bound on the clock

TimeTypes == {"ABSOLUTE_TIME", "RELATIVE_TIME", "ANY_TIME", "ABSOLUTE_RANGE_TIME", "RELATIVE_RANGE_TIME"}
NoEnd == -1         \* SYSCALL_NON_BLOCKING, NO_TIME_RANGE

EventType ==
    [type : {"inbound", "outbound", "call", "command"}, time_type : TimeTypes,
     time : Nat, time_end : Nat \cup {NoEnd}, end : Nat \cup {NoEnd}]

\* What the grammar lets through: only outbound packets have ranges and any
\* time, only calls have an end.
Sensible(e) ==
    /\ e.time_type \in {"ABSOLUTE_TIME", "RELATIVE_TIME"} \/ e.type = "outbound"
    /\ (e.time_end # NoEnd) <=> (e.time_type \in {"ABSOLUTE_RANGE_TIME", "RELATIVE_RANGE_TIME"})
    /\ e.time_type = "ANY_TIME" => e.time = 0
    /\ e.end # NoEnd => e.type = "call"

ASSUME TimingAssumption ==
    /\ Tolerance \in Nat /\ StartOffset \in Nat /\ MaxTime \in Nat
    /\ Scripts # {}
    /\ \A s \in Scripts : s \in Seq(EventType) /\ s # <<>> /\ \A i \in DOMAIN s : Sensible(s[i])

VARIABLES
    script,         \* the script, as it was parsed
    non_fatal,      \* config->non_fatal_packet
    pc,             \* what the interpreter does
    now,            \* the clock
    live_start,     \* state->live_start_time_usecs
    event,          \* state->event, an index; 0 before the first
    num_events,     \* state->num_events
    sched,          \* the times in the events that the interpreter came to
    busy,           \* the event whose call the other thread makes, or 0
    live_end,       \* syscalls->live_end_usecs
    emitted,        \* time stamps of packets sent and not yet sniffed
    reached,        \* history: when the interpreter came to each event
    happened,       \* history: when each event happened
    returned,       \* history: when each blocking call returned
    blamed,         \* history: events reported for the time they happened
    blamedEnds      \* history: calls reported for the time they returned

interpreter == <<event, num_events, sched, reached>>
thread == <<busy, live_end, returned, blamedEnds>>
setting == <<script, non_fatal>>
vars == <<setting, pc, now, live_start, interpreter, thread, emitted, happened, blamed>>

Init ==
    /\ script \in Scripts /\ non_fatal \in BOOLEAN
    /\ pc = "start" /\ now = 0 /\ live_start = 0
    /\ event = 0 /\ num_events = 0 /\ sched = <<>>
    /\ busy = 0 /\ live_end = -1 /\ emitted = <<>>
    /\ reached = <<>> /\ happened = <<>> /\ returned = <<>>
    /\ blamed = {} /\ blamedEnds = {}

Running == pc \notin {"start", "passed", "refused", "died"}
Blocking(i) == script[i].end # NoEnd
Record(f, i, t) == [j \in DOMAIN f \cup {i} |-> IF j = i THEN t ELSE f[j]]

---------------------------------------------------------------------------
(* Times *)

Near(t, from, to) == t >= from - Tolerance /\ t <= to + Tolerance

\* Seeded fault: a range is a point.
VerifyStart(type, time, time_end, live) ==
    LET actual == live - live_start IN type = "ANY_TIME" \/ Near(actual, time, time)

\* verify_time().  The first event of a script is at 0, so script times need
\* no offset (script_start_time_usecs).
VerifyTime(type, time, time_end, live) ==
    LET actual == live - live_start
    IN  CASE type = "ANY_TIME" -> TRUE
          [] type \in {"ABSOLUTE_RANGE_TIME", "RELATIVE_RANGE_TIME"} -> Near(actual, time, time_end)
          [] OTHER -> Near(actual, time, time)

Absolute(i) == script[i].time_type \in {"ABSOLUTE_TIME", "ABSOLUTE_RANGE_TIME"}
Anchored(i) == script[i].type = "inbound"

\* Seeded fault: every relative time counts from now.
OffsetNow(i) == now - live_start

\* Where a relative time counts from.
Offset(i) ==
    IF i > 1 /\ Anchored(i - 1) /\ Anchored(i)
    THEN sched[i - 1].time
    ELSE now - live_start

\* adjust_relative_event_times()
Adjusted(i) ==
    LET e == script[i]
        offset == IF Absolute(i) THEN 0 ELSE Offset(i)
    IN  [time |-> e.time + offset,
         time_end |-> IF e.time_type = "RELATIVE_RANGE_TIME" THEN e.time_end + offset ELSE e.time_end,
         end |-> IF e.time_type = "RELATIVE_TIME" /\ Blocking(i) THEN e.end + offset ELSE e.end]

\* Seeded fault: by the event that the interpreter is at.
EndInTimeOfEvent ==
    LET i == IF event \in DOMAIN sched THEN event ELSE busy
    IN  VerifyTime(script[i].time_type, sched[i].end, 0, live_end)

\* verify_time() at the end of a call, by the event that the thread dequeued.
EndInTime == VerifyTime(script[busy].time_type, sched[busy].end, 0, live_end)

---------------------------------------------------------------------------
(* The interpreter *)

\* schedule_start_time_usecs(), after a number of jiffies
Start ==
    /\ pc = "start"
    /\ live_start' = now + StartOffset
    /\ pc' = "next"
    /\ UNCHANGED <<setting, now, interpreter, thread, emitted, happened, blamed>>

Backward(i) == IF i = 1 THEN script[1].time # 0
               ELSE Absolute(i - 1) /\ Absolute(i) /\ script[i].time < sched[i - 1].time

\* get_next_event() accepts the event, and its times are adjusted.
GetNextEvent ==
    /\ pc = "next" /\ event < Len(script)
    /\ ~Backward(event + 1)
    /\ event' = event + 1
    /\ sched' = Append(sched, Adjusted(event + 1))
    /\ reached' = Append(reached, now)
    /\ pc' = CASE script[event + 1].type = "outbound" -> "sniff"
               [] script[event + 1].type = "call" -> "await"
               [] OTHER -> "wait"
    /\ UNCHANGED <<setting, now, live_start, num_events, thread, emitted, happened, blamed>>

\* "first event should be at time 0", "time goes backward in script"
RefuseScript ==
    /\ pc = "next" /\ event < Len(script)
    /\ Backward(event + 1)
    /\ pc' = "refused"
    /\ UNCHANGED <<setting, now, live_start, interpreter, thread, emitted, happened, blamed>>

\* await_idle_thread() before a call
AwaitIdle ==
    /\ pc = "await" /\ busy = 0
    /\ pc' = "wait"
    /\ UNCHANGED <<setting, now, live_start, interpreter, thread, emitted, happened, blamed>>

\* Its time-out ends the run for a blocking call, and is ignored for others.
AwaitTimeout ==
    /\ pc = "await" /\ busy # 0
    /\ pc' = IF Blocking(event) THEN "died" ELSE "wait"
    /\ UNCHANGED <<setting, now, live_start, interpreter, thread, emitted, happened, blamed>>

\* wait_for_event() is over: check_event_time() for all events but the first.
Checked == num_events > 0

WaitOver ==
    /\ pc = "wait"
    /\ now >= live_start + sched[event].time
    /\ happened' = Record(happened, event, now)

\* The event happens.  A blocking call is with the other thread from now on.
EventInTime ==
    /\ WaitOver
    /\ Checked => VerifyTime(script[event].time_type, sched[event].time, sched[event].time_end, now)
    /\ pc' = "next" /\ num_events' = num_events + 1
    /\ busy' = IF Blocking(event) THEN event ELSE busy
    /\ UNCHANGED <<setting, now, live_start, event, sched, reached, live_end, returned, blamedEnds, emitted, blamed>>

EventTooLate ==
    /\ WaitOver
    /\ Checked
    /\ ~VerifyTime(script[event].time_type, sched[event].time, sched[event].time_end, now)
    /\ blamed' = blamed \cup {event}
    /\ pc' = "died"
    /\ UNCHANGED <<setting, now, live_start, interpreter, thread, emitted>>

\* An outbound packet is sniffed and, if all else fits, checked for its time.
Sniffed ==
    /\ pc = "sniff" /\ emitted # <<>>
    /\ happened' = Record(happened, event, Head(emitted))
    /\ emitted' = Tail(emitted)

PacketInTime ==
    /\ Sniffed
    /\ VerifyTime(script[event].time_type, sched[event].time, sched[event].time_end, Head(emitted))
    /\ pc' = "next" /\ num_events' = num_events + 1
    /\ UNCHANGED <<setting, now, live_start, event, sched, reached, thread, blamed>>

\* STATUS_ERR ends the run; --non_fatal=packet makes it a warning.
PacketOffTime ==
    /\ Sniffed
    /\ ~VerifyTime(script[event].time_type, sched[event].time, sched[event].time_end, Head(emitted))
    /\ blamed' = blamed \cup {event}
    /\ pc' = IF non_fatal THEN "next" ELSE "died"
    /\ num_events' = IF non_fatal THEN num_events + 1 ELSE num_events
    /\ UNCHANGED <<setting, now, live_start, event, sched, reached, thread>>

\* The script is over; syscalls_free() waits for the thread, but not for ever.
ScriptOver ==
    /\ pc = "next" /\ event = Len(script)
    /\ event' = event + 1
    /\ pc' = "ending"
    /\ UNCHANGED <<setting, now, live_start, num_events, sched, reached, thread, emitted, happened, blamed>>

ThreadIdleAtEnd ==
    /\ pc = "ending" /\ busy = 0
    /\ pc' = "passed"
    /\ UNCHANGED <<setting, now, live_start, interpreter, thread, emitted, happened, blamed>>

ThreadBusyAtEnd ==
    /\ pc = "ending" /\ busy # 0
    /\ pc' = "died"
    /\ UNCHANGED <<setting, now, live_start, interpreter, thread, emitted, happened, blamed>>

---------------------------------------------------------------------------
(* The other thread *)

\* The call returns from the kernel: end_syscall() takes the time.
CallReturns ==
    /\ Running /\ busy # 0 /\ live_end = -1
    /\ live_end' = now
    /\ UNCHANGED <<setting, pc, now, live_start, interpreter, busy, returned, blamedEnds, emitted, happened, blamed>>

\* Seeded fault: live_end_usecs is not reset.
ReturnNotReset ==
    /\ Running /\ busy # 0 /\ live_end # -1
    /\ EndInTime
    /\ returned' = Record(returned, busy, live_end)
    /\ busy' = 0 /\ UNCHANGED live_end
    /\ UNCHANGED <<setting, pc, now, live_start, interpreter, blamedEnds, emitted, happened, blamed>>

\* Once it has the lock, the thread checks the time and becomes idle.
ReturnInTime ==
    /\ Running /\ busy # 0 /\ live_end # -1
    /\ EndInTime
    /\ returned' = Record(returned, busy, live_end)
    /\ busy' = 0 /\ live_end' = -1
    /\ UNCHANGED <<setting, pc, now, live_start, interpreter, blamedEnds, emitted, happened, blamed>>

ReturnOffTime ==
    /\ Running /\ busy # 0 /\ live_end # -1
    /\ ~EndInTime
    /\ returned' = Record(returned, busy, live_end)
    /\ blamedEnds' = blamedEnds \cup {busy}
    /\ pc' = "died"
    /\ UNCHANGED <<setting, now, live_start, interpreter, busy, live_end, emitted, happened, blamed>>

---------------------------------------------------------------------------
(* The kernel *)

Tick ==
    /\ Running /\ now < MaxTime
    /\ now' = now + 1
    /\ UNCHANGED <<setting, pc, live_start, interpreter, thread, emitted, happened, blamed>>

Outbound == {i \in DOMAIN script : script[i].type = "outbound"}

\* A packet that the script expects, at any time, before its event or in it.
KernelSends ==
    /\ Running
    /\ Len(emitted) < Cardinality(Outbound \ DOMAIN happened)
    /\ emitted' = Append(emitted, now)
    /\ UNCHANGED <<setting, pc, now, live_start, interpreter, thread, happened, blamed>>

Next ==
    \/ Start \/ GetNextEvent \/ RefuseScript \/ AwaitIdle \/ AwaitTimeout
    \/ EventInTime \/ EventTooLate \/ PacketInTime \/ PacketOffTime
    \/ ScriptOver \/ ThreadIdleAtEnd \/ ThreadBusyAtEnd
    \/ CallReturns \/ ReturnInTime \/ ReturnOffTime
    \/ Tick \/ KernelSends

Spec == Init /\ [][Next]_vars

---------------------------------------------------------------------------
(* Properties *)

\* Every variable has its type; the end of a call is recorded only while the
\* thread has one (syscalls->live_end_usecs, asserted in end_syscall()).
TypeOK ==
    /\ script \in Scripts /\ non_fatal \in BOOLEAN
    /\ pc \in {"start", "next", "await", "wait", "sniff", "ending", "passed", "refused", "died"}
    /\ now \in 0 .. MaxTime /\ live_start \in Nat
    /\ event \in 0 .. Len(script) + 1 /\ num_events \in 0 .. Len(script)
    /\ Len(sched) = Len(reached) /\ DOMAIN happened \subseteq DOMAIN sched
    /\ busy \in DOMAIN happened \cup {0}
    /\ live_end \in -1 .. now /\ (busy = 0 => live_end = -1)
    /\ \A i \in DOMAIN emitted : emitted[i] <= now
    /\ blamed \subseteq DOMAIN happened /\ blamedEnds \subseteq DOMAIN returned

\* When an event was due, from the script and from the moment at which the
\* script came to it alone: a run of inbound packets follows its first one.
Due[i \in 1 .. Len(reached)] ==
    script[i].time + (IF Absolute(i) THEN live_start
                      ELSE IF i > 1 /\ Anchored(i) /\ Anchored(i - 1) THEN Due[i - 1]
                      ELSE reached[i])

\* The time error is reported of exactly those events that happened more than
\* the tolerance away from when, or between when, the script wanted them; the
\* first event is exempt unless it is an outbound packet.
TimesJudged ==
    \A i \in DOMAIN happened :
        LET e == script[i]
            last == IF e.time_end = NoEnd THEN Due[i] ELSE Due[i] + (e.time_end - e.time)
        IN  (i \in blamed) <=> /\ e.time_type # "ANY_TIME"
                               /\ i > 1 \/ e.type = "outbound"
                               /\ ~Near(happened[i], Due[i], last)

\* The end of a blocking call is judged by the time that its own event gives,
\* whatever event the interpreter is at when the thread comes to check it.
ReturnJudged ==
    \A i \in DOMAIN returned :
        LET e == script[i]
            due == e.end + (IF Absolute(i) THEN live_start ELSE reached[i])
        IN  (i \in blamedEnds) <=> ~Near(returned[i], due, due)

RelativeRun(i, j) == \A k \in i .. j : Anchored(k) /\ (k > i => ~Absolute(k))
TimeBetween(i, j) ==
    LET sum[k \in i .. j] == IF k = i THEN 0 ELSE sum[k - 1] + script[k].time IN sum[j]

\* Delays do not add up over consecutive inbound packets: however many there
\* are, each is at most the tolerance off the time that the script puts
\* between it and any earlier one of them (is_event_start_time_anchored()).
InboundOnSchedule ==
    \A i, j \in DOMAIN happened \ blamed :
        i < j /\ RelativeRun(i, j) =>
            LET late == happened[j] - happened[i] - TimeBetween(i, j)
            IN  late <= Tolerance /\ (i > 1 => late >= -Tolerance)
=============================================================================
