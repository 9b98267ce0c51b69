------------------------- MODULE EventTimingProofs -------------------------
(***************************************************************************)
(* Proofs about EventTiming, for scripts of any length, any tolerance and  *)
(* any clock.                                                              *)
(*                                                                         *)
(* The properties speak of the script and of what happened; the code       *)
(* compares with the times it has stored in the events.  IInv says what    *)
(* those stored times are, that the verdicts agree with them, and where    *)
(* the interpreter is when they are used.  Two of the properties sum up    *)
(* times over the events of a script, for which the induction over natural *)
(* numbers is needed, in the form of sets of numbers.                      *)
(***************************************************************************)
EXTENDS EventTiming, TLAPS, SequenceTheorems, WellFoundedInduction

\* Time for each leaf of a proof, in seconds
USE SMTT(20), ZenonT(40)

\* Where the time of an event counts from, as stored
Origin(i) ==
    IF Absolute(i) THEN 0
    ELSE IF i > 1 /\ Anchored(i - 1) /\ Anchored(i) THEN sched[i - 1].time
    ELSE reached[i] - live_start

\* What adjust_relative_event_times() has made of each event
Stored ==
    \A i \in 1 .. Len(sched) :
        /\ sched[i].time = script[i].time + Origin(i)
        /\ sched[i].time_end = script[i].time_end
                + (IF script[i].time_type = "RELATIVE_RANGE_TIME" THEN Origin(i) ELSE 0)
        /\ sched[i].end = script[i].end
                + (IF script[i].time_type = "RELATIVE_TIME" /\ Blocking(i) THEN Origin(i) ELSE 0)

Times == [time : Int, time_end : Int, end : Int]

Shapes ==
    /\ sched \in Seq(Times)
    /\ reached \in Seq(Int)
    /\ Len(sched) = IF event > Len(script) THEN Len(script) ELSE event
    /\ emitted \in Seq(Int)
    /\ happened \in [DOMAIN happened -> Int]
    /\ returned \in [DOMAIN returned -> Int]

\* The events that have happened, by the position of the interpreter
Positions ==
    /\ pc = "start" => event = 0 /\ num_events = 0 /\ DOMAIN happened = {}
    /\ pc \in {"await", "wait", "sniff"} =>
          /\ event \in 1 .. Len(script) /\ num_events = event - 1
          /\ DOMAIN happened = 1 .. event - 1
          /\ (pc = "sniff") <=> (script[event].type = "outbound")
    /\ pc = "next" => /\ event <= Len(script) /\ num_events = event
                      /\ DOMAIN happened = 1 .. event
    /\ pc = "ending" => event = Len(script) + 1

\* The time error is reported of the events that do not fit what is stored
Judged ==
    \A i \in DOMAIN happened :
        /\ (i \in blamed) <=>
              /\ i > 1 \/ script[i].type = "outbound"
              /\ ~VerifyTime(script[i].time_type, sched[i].time, sched[i].time_end, happened[i])
        /\ Anchored(i) => happened[i] >= live_start + sched[i].time

EndsJudged ==
    /\ DOMAIN returned \subseteq DOMAIN happened
    /\ \A i \in DOMAIN returned :
          /\ Blocking(i)
          /\ (i \in blamedEnds) <=> ~VerifyTime(script[i].time_type, sched[i].end, 0, returned[i])
    /\ busy # 0 => Blocking(busy)
    /\ Running /\ busy # 0 => busy \notin DOMAIN returned

IInv == TypeOK /\ Shapes /\ Positions /\ Stored /\ Judged /\ EndsJudged

-----------------------------------------------------------------------------
\* The grammar's promises, for the script that is run.
LEMMA ScriptIsSensible ==
  ASSUME script \in Scripts
  PROVE  /\ script \in Seq(EventType) /\ Len(script) \in Nat \ {0}
         /\ DOMAIN script = 1 .. Len(script)
         /\ \A i \in 1 .. Len(script) :
               /\ script[i] \in EventType /\ Sensible(script[i])
  <1>1. script \in Seq(EventType) /\ script # <<>>
    BY TimingAssumption
  <1>2. \A i \in DOMAIN script : Sensible(script[i])
    BY TimingAssumption
  <1>3. QED
    BY <1>1, <1>2

LEMMA InitIInv == Init => IInv
  <1> SUFFICES ASSUME Init PROVE IInv
    OBVIOUS
  <1>1. script \in Scripts /\ Len(script) \in Nat \ {0}
    BY ScriptIsSensible DEF Init
  <1>2. TypeOK
    BY <1>1, TimingAssumption DEF Init, TypeOK
  <1>3. Shapes /\ Positions /\ Stored /\ Judged /\ EndsJudged
    BY <1>1 DEF Init, Shapes, Positions, Stored, Judged, EndsJudged
  <1>4. QED
    BY <1>2, <1>3 DEF IInv

-----------------------------------------------------------------------------
(* Steps of the interpreter that judge nothing.                            *)

LEMMA StartStep == IInv /\ Start => IInv'
  <1> SUFFICES ASSUME IInv, Start PROVE IInv'
    OBVIOUS
  <1> USE ScriptIsSensible, TimingAssumption
      DEF IInv, Start, setting, interpreter, thread
  <1>1. TypeOK'
    BY DEF TypeOK
  <1>2. sched = <<>> /\ DOMAIN happened = {} /\ DOMAIN returned = {} /\ busy = 0
    <2>1. event = 0 /\ DOMAIN happened = {} /\ Len(script) \in Nat
      BY DEF Positions, TypeOK
    <2>2. Len(sched) = 0
      BY <2>1 DEF Shapes
    <2>3. sched = <<>>
      BY <2>2 DEF Shapes
    <2>4. QED
      BY <2>1, <2>3 DEF TypeOK, EndsJudged
  <1>3. Shapes' /\ Positions'
    BY DEF Shapes, Positions, TypeOK
  <1>4. Stored' /\ Judged' /\ EndsJudged'
    BY <1>2 DEF Stored, Judged, EndsJudged
  <1>5. QED
    BY <1>1, <1>3, <1>4

\* get_next_event(): the times of the event are counted from the event before
\* or from now, and those of earlier events stay.
LEMMA GetNextEventStep == IInv /\ GetNextEvent => IInv'
  <1> SUFFICES ASSUME IInv, GetNextEvent PROVE IInv'
    OBVIOUS
  <1>0. event \in Nat
    BY DEF IInv, TypeOK, Positions, GetNextEvent
  <1> PICK n \in Nat : n = event + 1
    BY <1>0
  <1>1. /\ event \in Nat /\ n = event + 1 /\ n \in 1 .. Len(script)
        /\ script[n] \in EventType /\ Sensible(script[n])
        /\ now \in Nat /\ live_start \in Nat
        /\ script \in Scripts /\ Len(script) \in Nat
        /\ num_events = event /\ DOMAIN happened = 1 .. event
    BY ScriptIsSensible DEF IInv, GetNextEvent, TypeOK, Positions
  <1>2. /\ sched \in Seq(Times) /\ Len(sched) = event
        /\ reached \in Seq(Int) /\ Len(reached) = event
    BY <1>1 DEF IInv, GetNextEvent, TypeOK, Shapes
  <1>3. Offset(n) \in Int
    <2>1. event > 0 => sched[event] \in Times
      BY <1>1, <1>2, ElementOfSeq
    <2>2. QED
      BY <1>1, <2>1 DEF Offset, Times
  <1>4. Adjusted(n) \in Times
    BY <1>1, <1>3 DEF Adjusted, EventType, NoEnd, Times
  <1>5. /\ sched' = Append(sched, Adjusted(n)) /\ reached' = Append(reached, now)
        /\ event' = n /\ pc' \in {"sniff", "await", "wait"}
        /\ UNCHANGED <<script, non_fatal, now, live_start, num_events, busy,
                       live_end, returned, blamedEnds, emitted, happened, blamed>>
    BY <1>1 DEF GetNextEvent, setting, thread
  <1>6. /\ sched' \in Seq(Times) /\ Len(sched') = n /\ sched'[n] = Adjusted(n)
        /\ \A i \in 1 .. event : sched'[i] = sched[i]
    BY <1>1, <1>2, <1>4, <1>5, AppendProperties
  <1>7. /\ reached' \in Seq(Int) /\ Len(reached') = n /\ reached'[n] = now
        /\ \A i \in 1 .. event : reached'[i] = reached[i]
    BY <1>1, <1>2, <1>5, AppendProperties
  <1>8. Shapes'
    BY <1>1, <1>5, <1>6, <1>7 DEF IInv, Shapes
  <1>9. TypeOK'
    <2>1. DOMAIN sched' = 1 .. n
      BY <1>1, <1>6
    <2>2. QED
      BY <1>1, <1>5, <1>6, <1>7, <2>1 DEF IInv, TypeOK
  <1>10. Positions'
    BY <1>1, <1>5, ScriptIsSensible DEF IInv, Positions, GetNextEvent, EventType
  <1>11. Stored'
    <2>1. ASSUME NEW i \in 1 .. event PROVE Origin(i)' = Origin(i)
      <3>1. i > 1 => sched'[i - 1] = sched[i - 1]
        BY <1>1, <1>6
      <3>2. QED
        BY <1>1, <1>5, <1>7, <3>1 DEF Origin, Absolute, Anchored
    <2>2. Origin(n)' = IF Absolute(n) THEN 0 ELSE Offset(n)
      <3>1. event > 0 => sched'[event] = sched[event]
        BY <1>1, <1>6
      <3>2. n - 1 = event /\ (n > 1 <=> event > 0)
        BY <1>1
      <3>3. QED
        BY <1>1, <1>5, <1>7, <3>1, <3>2 DEF Origin, Offset, Absolute, Anchored
    <2>3. Origin(n)' \in Int
      BY <1>3, <2>2
    <2>4. ASSUME NEW i \in 1 .. Len(sched')
          PROVE  /\ sched'[i].time = script[i].time + Origin(i)'
                 /\ sched'[i].time_end = script[i].time_end
                       + (IF script[i].time_type = "RELATIVE_RANGE_TIME" THEN Origin(i)' ELSE 0)
                 /\ sched'[i].end = script[i].end
                       + (IF script[i].time_type = "RELATIVE_TIME" /\ Blocking(i)
                          THEN Origin(i)' ELSE 0)
      <3>1. CASE i = n
        <4>1. sched'[i] = Adjusted(i) /\ Origin(i)' = IF Absolute(i) THEN 0 ELSE Offset(i)
          BY <1>6, <2>2, <3>1
        <4>2. script[i] \in EventType /\ Offset(i) \in Int
          BY <1>1, <1>3, <3>1
        <4>3. QED
          BY <4>1, <4>2 DEF Adjusted, Absolute, EventType, NoEnd, TimeTypes
      <3>2. CASE i \in 1 .. event
        BY <1>2, <1>6, <2>1, <3>2 DEF IInv, Stored
      <3>3. QED
        BY <1>1, <1>6, <3>1, <3>2
    <2>5. QED
      BY <1>5, <2>4 DEF Stored, Blocking
  <1>12. Judged'
    BY <1>1, <1>5, <1>6 DEF IInv, Judged, VerifyTime, Near, Anchored
  <1>13. EndsJudged'
    <2>1. \A i \in DOMAIN returned : sched'[i] = sched[i]
      BY <1>1, <1>6 DEF IInv, EndsJudged
    <2>2. Running
      BY DEF GetNextEvent, Running
    <2>3. QED
      BY <1>5, <2>1, <2>2 DEF IInv, EndsJudged, VerifyTime, Near, Blocking
  <1>14. QED
    BY <1>8, <1>9, <1>10, <1>11, <1>12, <1>13 DEF IInv

\* Nothing is recorded: what is stored and judged stays as it is.
LEMMA NothingRecorded ==
  ASSUME IInv, Running \/ ~Running',
         UNCHANGED <<script, live_start, sched, reached, happened, blamed,
                     returned, blamedEnds, busy>>
  PROVE  Stored' /\ Judged' /\ EndsJudged'
  <1>1. Stored'
    BY DEF IInv, Stored, Origin, Absolute, Anchored, Blocking
  <1>2. Judged'
    BY DEF IInv, Judged, VerifyTime, Near, Anchored
  <1>3. EndsJudged'
    BY DEF IInv, EndsJudged, VerifyTime, Near, Blocking
  <1>4. QED
    BY <1>1, <1>2, <1>3

LEMMA QuietStep ==
  ASSUME IInv, \/ RefuseScript \/ AwaitIdle \/ AwaitTimeout \/ ScriptOver
               \/ ThreadIdleAtEnd \/ ThreadBusyAtEnd
               \/ CallReturns \/ Tick \/ KernelSends
  PROVE  IInv'
  <1> USE TimingAssumption DEF setting, interpreter, thread
  <1>0. Len(script) \in Nat
    BY ScriptIsSensible DEF IInv, TypeOK
  <1>1. CASE RefuseScript
    BY <1>1, NothingRecorded DEF RefuseScript, IInv, TypeOK, Shapes, Positions, Running
  <1>2. CASE AwaitIdle
    BY <1>2, NothingRecorded DEF AwaitIdle, IInv, TypeOK, Shapes, Positions, Running
  <1>3. CASE AwaitTimeout
    BY <1>3, NothingRecorded DEF AwaitTimeout, IInv, TypeOK, Shapes, Positions, Running
  <1>4. CASE ScriptOver
    <2>1. TypeOK'
      <3>1. \A i \in DOMAIN emitted' : emitted'[i] <= now'
        BY <1>4 DEF ScriptOver, IInv, TypeOK, Shapes
      <3>2. pc' \in {"next", "await", "wait", "sniff", "ending"}
            /\ event' \in 0 .. Len(script') + 1 /\ now' \in 0 .. MaxTime
            /\ live_end' \in -1 .. now' /\ (busy' = 0 => live_end' = -1)
        BY <1>0, <1>4 DEF ScriptOver, IInv, TypeOK, Positions, Running
      <3>3. UNCHANGED <<script, non_fatal, live_start, num_events, sched, reached,
                        happened, busy, returned, blamed, blamedEnds>>
        BY <1>4 DEF ScriptOver
      <3>4. QED
        BY <3>1, <3>2, <3>3 DEF IInv, TypeOK
    <2>2. Shapes' /\ Positions'
      BY <1>0, <1>4 DEF ScriptOver, IInv, TypeOK, Shapes, Positions
    <2>3. QED
      BY <1>4, <2>1, <2>2, NothingRecorded DEF ScriptOver, IInv, Running
  <1>5. CASE ThreadIdleAtEnd
    BY <1>5, NothingRecorded DEF ThreadIdleAtEnd, IInv, TypeOK, Shapes, Positions, Running
  <1>6. CASE ThreadBusyAtEnd
    BY <1>6, NothingRecorded DEF ThreadBusyAtEnd, IInv, TypeOK, Shapes, Positions, Running
  <1>7. CASE CallReturns
    <2>1. TypeOK'
      <3>1. \A i \in DOMAIN emitted' : emitted'[i] <= now'
        BY <1>7 DEF CallReturns, IInv, TypeOK, Shapes
      <3>2. pc' \in {"next", "await", "wait", "sniff", "ending"}
            /\ event' \in 0 .. Len(script') + 1 /\ now' \in 0 .. MaxTime
            /\ live_end' \in -1 .. now' /\ (busy' = 0 => live_end' = -1)
        BY <1>0, <1>7 DEF CallReturns, IInv, TypeOK, Positions, Running
      <3>3. UNCHANGED <<script, non_fatal, live_start, num_events, sched, reached,
                        happened, busy, returned, blamed, blamedEnds>>
        BY <1>7 DEF CallReturns
      <3>4. QED
        BY <3>1, <3>2, <3>3 DEF IInv, TypeOK
    <2>2. Shapes' /\ Positions'
      BY <1>0, <1>7 DEF CallReturns, IInv, TypeOK, Shapes, Positions
    <2>3. QED
      BY <1>7, <2>1, <2>2, NothingRecorded DEF CallReturns, IInv, Running
  <1>8. CASE Tick
    <2>1. TypeOK'
      <3>1. \A i \in DOMAIN emitted' : emitted'[i] <= now'
        <4>1. emitted \in Seq(Int) /\ now \in Int /\ emitted' = emitted /\ now' = now + 1
          BY <1>8 DEF Tick, IInv, TypeOK, Shapes
        <4>2. \A i \in DOMAIN emitted : emitted[i] <= now /\ emitted[i] \in Int
          BY <4>1, LenProperties, ElementOfSeq DEF IInv, TypeOK
        <4>3. QED
          BY <4>1, <4>2
      <3>2. pc' \in {"next", "await", "wait", "sniff", "ending"}
            /\ event' \in 0 .. Len(script') + 1 /\ now' \in 0 .. MaxTime
            /\ live_end' \in -1 .. now' /\ (busy' = 0 => live_end' = -1)
        BY <1>0, <1>8 DEF Tick, IInv, TypeOK, Positions, Running
      <3>3. UNCHANGED <<script, non_fatal, live_start, num_events, sched, reached,
                        happened, busy, returned, blamed, blamedEnds>>
        BY <1>8 DEF Tick
      <3>4. QED
        BY <3>1, <3>2, <3>3 DEF IInv, TypeOK
    <2>2. Shapes' /\ Positions'
      BY <1>0, <1>8 DEF Tick, IInv, TypeOK, Shapes, Positions
    <2>3. QED
      BY <1>8, <2>1, <2>2, NothingRecorded DEF Tick, IInv, Running
  <1>9. CASE KernelSends
    <2>1. TypeOK'
      <3>1. \A i \in DOMAIN emitted' : emitted'[i] <= now'
        <4>1. emitted \in Seq(Int) /\ now \in Int /\ emitted' = Append(emitted, now) /\ now' = now
          BY <1>9 DEF KernelSends, IInv, TypeOK, Shapes
        <4>2. \A i \in DOMAIN emitted : emitted[i] <= now
          BY DEF IInv, TypeOK
        <4>3. QED
          BY <4>1, <4>2, AppendProperties
      <3>2. pc' \in {"next", "await", "wait", "sniff", "ending"}
            /\ event' \in 0 .. Len(script') + 1 /\ now' \in 0 .. MaxTime
            /\ live_end' \in -1 .. now' /\ (busy' = 0 => live_end' = -1)
        <4>1. UNCHANGED <<script, pc, event, now, live_end, busy>>
          BY <1>9 DEF KernelSends
        <4>2. pc \in {"next", "await", "wait", "sniff", "ending"}
          BY <1>9 DEF KernelSends, IInv, TypeOK, Running
        <4>3. QED
          BY <4>1, <4>2 DEF IInv, TypeOK
      <3>3. UNCHANGED <<script, non_fatal, live_start, num_events, sched, reached,
                        happened, busy, returned, blamed, blamedEnds>>
        BY <1>9 DEF KernelSends
      <3>4. QED
        BY <3>1, <3>2, <3>3 DEF IInv, TypeOK
    <2>2. Shapes' /\ Positions'
      <3>1. UNCHANGED <<script, pc, sched, reached, event, num_events, happened, returned>>
        BY <1>9 DEF KernelSends
      <3>2. emitted' \in Seq(Int)
        BY <1>9, AppendProperties DEF KernelSends, IInv, TypeOK, Shapes
      <3>3. QED
        BY <3>1, <3>2 DEF IInv, Shapes, Positions
    <2>3. QED
      BY <1>9, <2>1, <2>2, NothingRecorded DEF KernelSends, IInv, Running
  <1>10. QED
    BY <1>1, <1>2, <1>3, <1>4, <1>5, <1>6, <1>7, <1>8, <1>9

-----------------------------------------------------------------------------
(* Steps that judge an event or a return.                                  *)

\* The event of the interpreter happens at t, and is judged as code does.
LEMMA EventIsJudged ==
  ASSUME IInv, pc \in {"wait", "sniff"}, NEW t \in Int,
         happened' = Record(happened, event, t),
         Anchored(event) => t >= live_start + sched[event].time,
         blamed' = IF /\ event > 1 \/ script[event].type = "outbound"
                      /\ ~VerifyTime(script[event].time_type, sched[event].time,
                                     sched[event].time_end, t)
                   THEN blamed \cup {event} ELSE blamed,
         UNCHANGED <<script, live_start, sched>>
  PROVE  /\ Judged'
         /\ event \in 1 .. Len(script) /\ event \notin DOMAIN happened
         /\ DOMAIN happened' = 1 .. event
         /\ happened' \in [DOMAIN happened' -> Int]
  <1>1. /\ event \in 1 .. Len(script) /\ DOMAIN happened = 1 .. event - 1
        /\ event \notin DOMAIN happened
        /\ happened \in [DOMAIN happened -> Int]
        /\ blamed \subseteq DOMAIN happened
    <2>1. pc \in {"await", "wait", "sniff"}
      OBVIOUS
    <2>2. event \in 1 .. Len(script) /\ DOMAIN happened = 1 .. event - 1
      BY <2>1 DEF IInv, Positions
    <2>3. event \notin DOMAIN happened
      BY <2>2, ScriptIsSensible DEF IInv, TypeOK
    <2>4. QED
      BY <2>2, <2>3 DEF IInv, Shapes, TypeOK
  <1>2. happened' = [j \in DOMAIN happened \cup {event} |->
                        IF j = event THEN t ELSE happened[j]]
    BY DEF Record
  <1>3. DOMAIN happened' = 1 .. event /\ happened' \in [DOMAIN happened' -> Int]
    BY <1>1, <1>2
  <1>4. ASSUME NEW i \in DOMAIN happened'
        PROVE  /\ (i \in blamed') <=>
                      /\ i > 1 \/ script[i].type = "outbound"
                      /\ ~VerifyTime(script[i].time_type, sched[i].time,
                                     sched[i].time_end, happened'[i])
               /\ Anchored(i) => happened'[i] >= live_start + sched[i].time
    <2>1. CASE i = event
      BY <1>1, <1>2, <2>1
    <2>2. CASE i # event
      <3>1. i \in DOMAIN happened /\ happened'[i] = happened[i]
            /\ (i \in blamed' <=> i \in blamed)
        BY <1>2, <1>4, <2>2
      <3>2. QED
        BY <3>1 DEF IInv, Judged
    <2>3. QED
      BY <2>1, <2>2
  <1>5. Judged'
    BY <1>4 DEF Judged, VerifyTime, Near, Anchored
  <1>6. QED
    BY <1>1, <1>3, <1>5

\* The first event is the only one that is not checked when its wait is over.
LEMMA EventInTimeStep == IInv /\ EventInTime => IInv'
  <1> SUFFICES ASSUME IInv, EventInTime PROVE IInv'
    OBVIOUS
  <1>1. /\ pc = "wait" /\ pc' = "next" /\ num_events' = num_events + 1
        /\ now \in Int /\ happened' = Record(happened, event, now)
        /\ now >= live_start + sched[event].time
        /\ busy' = IF Blocking(event) THEN event ELSE busy
        /\ UNCHANGED <<script, non_fatal, now, live_start, event, sched, reached,
                       live_end, returned, blamedEnds, emitted, blamed>>
    BY DEF EventInTime, WaitOver, setting, IInv, TypeOK
  <1>2. /\ num_events = event - 1 /\ event \in 1 .. Len(script)
        /\ Len(script) \in Nat /\ script[event].type # "outbound"
    BY <1>1, ScriptIsSensible DEF IInv, Positions, TypeOK
  <1>3. event > 1 => VerifyTime(script[event].time_type, sched[event].time,
                                sched[event].time_end, now)
    BY <1>2 DEF EventInTime, Checked
  <1>4. /\ Judged' /\ event \notin DOMAIN happened
        /\ DOMAIN happened' = 1 .. event /\ happened' \in [DOMAIN happened' -> Int]
    BY <1>1, <1>2, <1>3, EventIsJudged
  <1>5. DOMAIN happened \subseteq DOMAIN happened'
    BY <1>1 DEF Record
  <1>6. Shapes' /\ Positions' /\ Stored'
    BY <1>1, <1>2, <1>4
       DEF IInv, Shapes, Positions, Stored, Origin, Absolute, Anchored, Blocking
  <1>7. TypeOK'
    <2>1. busy' \in DOMAIN happened' \cup {0} /\ (busy' = 0 => live_end' = -1)
      BY <1>1, <1>2, <1>4, <1>5 DEF IInv, TypeOK
    <2>2. DOMAIN happened' \subseteq DOMAIN sched'
      BY <1>1, <1>2, <1>4 DEF IInv, Shapes
    <2>3. QED
      BY <1>1, <1>2, <1>5, <2>1, <2>2 DEF IInv, TypeOK
  <1>8. EndsJudged'
    BY <1>1, <1>4, <1>5
       DEF IInv, EndsJudged, VerifyTime, Near, Blocking, Running
  <1>9. QED
    BY <1>4, <1>6, <1>7, <1>8 DEF IInv

LEMMA EventTooLateStep == IInv /\ EventTooLate => IInv'
  <1> SUFFICES ASSUME IInv, EventTooLate PROVE IInv'
    OBVIOUS
  <1>1. /\ pc = "wait" /\ pc' = "died"
        /\ now \in Int /\ happened' = Record(happened, event, now)
        /\ now >= live_start + sched[event].time
        /\ blamed' = blamed \cup {event}
        /\ UNCHANGED <<script, non_fatal, now, live_start, event, num_events,
                       sched, reached, busy, live_end, returned, blamedEnds, emitted>>
    BY DEF EventTooLate, WaitOver, setting, interpreter, thread, IInv, TypeOK
  <1>2. /\ num_events = event - 1 /\ event \in 1 .. Len(script)
        /\ Len(script) \in Nat
    BY <1>1, ScriptIsSensible DEF IInv, Positions, TypeOK
  <1>3. event > 1 /\ ~VerifyTime(script[event].time_type, sched[event].time,
                                 sched[event].time_end, now)
    BY <1>2 DEF EventTooLate, Checked
  <1>4. /\ Judged' /\ DOMAIN happened' = 1 .. event
        /\ happened' \in [DOMAIN happened' -> Int]
    BY <1>1, <1>2, <1>3, EventIsJudged
  <1>5. DOMAIN happened \subseteq DOMAIN happened'
    BY <1>1 DEF Record
  <1>6. Shapes' /\ Positions' /\ Stored'
    BY <1>1, <1>2, <1>4
       DEF IInv, Shapes, Positions, Stored, Origin, Absolute, Anchored, Blocking
  <1>7. TypeOK'
    <2>1. DOMAIN happened' \subseteq DOMAIN sched'
      BY <1>1, <1>2, <1>4 DEF IInv, Shapes
    <2>2. blamed' \subseteq DOMAIN happened'
      BY <1>1, <1>2, <1>4, <1>5 DEF IInv, TypeOK
    <2>3. QED
      BY <1>1, <1>2, <1>5, <2>1, <2>2 DEF IInv, TypeOK
  <1>8. EndsJudged'
    BY <1>1, <1>5 DEF IInv, EndsJudged, VerifyTime, Near, Blocking, Running
  <1>9. QED
    BY <1>4, <1>6, <1>7, <1>8 DEF IInv

\* A packet that was sniffed is judged by its time stamp, the first one too.
LEMMA PacketStep == IInv /\ (PacketInTime \/ PacketOffTime) => IInv'
  <1> SUFFICES ASSUME IInv, PacketInTime \/ PacketOffTime PROVE IInv'
    OBVIOUS
  <1>1. PICK t \in Int : /\ emitted # <<>> /\ t = Head(emitted)
                         /\ emitted' = Tail(emitted) /\ emitted' \in Seq(Int)
    <2>1. Sniffed
      BY DEF PacketInTime, PacketOffTime
    <2>2. emitted \in Seq(Int) /\ emitted # <<>> /\ emitted' = Tail(emitted)
      BY <2>1 DEF Sniffed, IInv, Shapes
    <2>3. Head(emitted) \in Int /\ Tail(emitted) \in Seq(Int)
      BY <2>2, HeadTailProperties
    <2>4. QED
      BY <2>2, <2>3
  <1>2. /\ pc = "sniff" /\ pc' \in {"next", "died"}
        /\ num_events' = IF pc' = "next" THEN num_events + 1 ELSE num_events
        /\ happened' = Record(happened, event, t)
        /\ UNCHANGED <<script, non_fatal, now, live_start, event, sched, reached,
                       busy, live_end, returned, blamedEnds>>
    BY <1>1 DEF PacketInTime, PacketOffTime, Sniffed, setting, thread
  <1>3. /\ num_events = event - 1 /\ event \in 1 .. Len(script)
        /\ Len(script) \in Nat /\ script[event].type = "outbound"
    BY <1>2, ScriptIsSensible DEF IInv, Positions, TypeOK
  <1>4. blamed' = IF ~VerifyTime(script[event].time_type, sched[event].time,
                                 sched[event].time_end, t)
                  THEN blamed \cup {event} ELSE blamed
    BY <1>1 DEF PacketInTime, PacketOffTime
  <1>5. /\ Judged' /\ DOMAIN happened' = 1 .. event
        /\ happened' \in [DOMAIN happened' -> Int]
    BY <1>2, <1>3, <1>4, EventIsJudged DEF Anchored
  <1>6. DOMAIN happened \subseteq DOMAIN happened'
    BY <1>2 DEF Record
  <1>7. Shapes' /\ Positions' /\ Stored'
    BY <1>1, <1>2, <1>3, <1>5
       DEF IInv, Shapes, Positions, Stored, Origin, Absolute, Anchored, Blocking
  <1>8. TypeOK'
    <2>1. DOMAIN happened' \subseteq DOMAIN sched'
      BY <1>2, <1>3, <1>5 DEF IInv, Shapes
    <2>2. blamed' \subseteq DOMAIN happened'
      BY <1>3, <1>4, <1>5, <1>6 DEF IInv, TypeOK
    <2>3. \A i \in DOMAIN emitted' : emitted'[i] <= now
      <3>1. ASSUME NEW i \in DOMAIN emitted'
            PROVE  i + 1 \in DOMAIN emitted /\ emitted'[i] = emitted[i + 1]
        BY <1>1, <3>1 DEF IInv, Shapes
      <3>2. QED
        BY <3>1 DEF IInv, TypeOK
    <2>4. QED
      BY <1>2, <1>3, <1>6, <2>1, <2>2, <2>3 DEF IInv, TypeOK
  <1>9. EndsJudged'
    BY <1>2, <1>6 DEF IInv, EndsJudged, VerifyTime, Near, Blocking, Running
  <1>10. QED
    BY <1>5, <1>7, <1>8, <1>9 DEF IInv

\* end_syscall(): by the event of the call, wherever the interpreter is.
LEMMA ReturnStep == IInv /\ (ReturnInTime \/ ReturnOffTime) => IInv'
  <1> SUFFICES ASSUME IInv, ReturnInTime \/ ReturnOffTime PROVE IInv'
    OBVIOUS
  <1>1. /\ Running /\ busy \in DOMAIN happened /\ Blocking(busy)
        /\ busy \notin DOMAIN returned /\ busy \notin blamedEnds
        /\ live_end \in Int
        /\ returned' = Record(returned, busy, live_end)
        /\ blamedEnds' = IF EndInTime THEN blamedEnds ELSE blamedEnds \cup {busy}
        /\ UNCHANGED <<script, non_fatal, now, live_start, event, num_events,
                       sched, reached, emitted, happened, blamed>>
    BY DEF ReturnInTime, ReturnOffTime, setting, interpreter, IInv, TypeOK, EndsJudged
  <1>2. \/ pc' = pc /\ busy' = 0 /\ live_end' = -1
        \/ pc' = "died" /\ busy' = busy /\ live_end' = live_end
    <2>1. CASE ReturnInTime
      BY <2>1 DEF ReturnInTime
    <2>2. CASE ReturnOffTime
      BY <2>2 DEF ReturnOffTime
    <2>3. QED
      BY <2>1, <2>2
  <1>3. returned' = [j \in DOMAIN returned \cup {busy} |->
                        IF j = busy THEN live_end ELSE returned[j]]
    BY <1>1 DEF Record
  <1>4. Shapes'
    <2>1. returned' \in [DOMAIN returned' -> Int]
      BY <1>1, <1>3 DEF IInv, Shapes
    <2>2. QED
      BY <1>1, <2>1 DEF IInv, Shapes
  <1>5. TypeOK'
    BY <1>1, <1>2, <1>3 DEF IInv, TypeOK
  <1>6. Positions' /\ Stored' /\ Judged'
    BY <1>1, <1>2 DEF IInv, Positions, Stored, Origin, Absolute, Anchored, Blocking,
                      Judged, VerifyTime, Near
  <1>7. EndsJudged'
    <2>1. ASSUME NEW i \in DOMAIN returned'
          PROVE  /\ Blocking(i)
                 /\ (i \in blamedEnds') <=> ~VerifyTime(script[i].time_type,
                                                sched[i].end, 0, returned'[i])
      <3>1. CASE i = busy
        BY <1>1, <1>3, <3>1 DEF EndInTime
      <3>2. CASE i # busy
        <4>1. i \in DOMAIN returned /\ returned'[i] = returned[i]
              /\ (i \in blamedEnds' <=> i \in blamedEnds)
          BY <1>1, <1>3, <2>1, <3>2
        <4>2. QED
          BY <4>1 DEF IInv, EndsJudged
      <3>3. QED
        BY <3>1, <3>2
    <2>2. DOMAIN returned' \subseteq DOMAIN happened'
      BY <1>1, <1>3 DEF IInv, EndsJudged
    <2>3. QED
      BY <1>1, <1>2, <2>1, <2>2 DEF EndsJudged, VerifyTime, Near, Blocking, Running
  <1>8. QED
    BY <1>4, <1>5, <1>6, <1>7 DEF IInv

LEMMA SpecIInv == Spec => []IInv
  <1>1. IInv /\ [Next]_vars => IInv'
    <2> SUFFICES ASSUME IInv, [Next]_vars PROVE IInv'
      OBVIOUS
    <2>1. CASE UNCHANGED vars
      <3> USE <2>1 DEF vars, setting, interpreter, thread
      <3>1. TypeOK' /\ Shapes' /\ Positions'
        BY DEF IInv, TypeOK, Shapes, Positions
      <3>2. Stored'
        BY DEF IInv, Stored, Origin, Absolute, Anchored, Blocking
      <3>3. Judged'
        BY DEF IInv, Judged, VerifyTime, Near, Anchored
      <3>4. EndsJudged'
        BY DEF IInv, EndsJudged, VerifyTime, Near, Running, Blocking
      <3>5. QED
        BY <3>1, <3>2, <3>3, <3>4 DEF IInv
    <2>2. QED
      BY <2>1, StartStep, GetNextEventStep, QuietStep, EventInTimeStep,
         EventTooLateStep, PacketStep, ReturnStep DEF Next
  <1>2. QED
    BY InitIInv, <1>1, PTL DEF Spec

-----------------------------------------------------------------------------
(* Induction over a set of numbers.  The library states induction for an   *)
(* operator; that the order of the numbers is well-founded gives it for a  *)
(* set, which the provers can instantiate.                                 *)

LEMMA LeastNumber ==
  ASSUME NEW S \in SUBSET Nat, S # {}
  PROVE  \E m \in S : \A k \in S : m <= k
  <1>1. \E m \in S : \A k \in S : <<k, m>> \notin OpToRel(<, Nat)
    BY NatLessThanWellFounded, WFMin, ZenonT(40)
  <1>2. PICK m \in S : \A k \in S : <<k, m>> \notin OpToRel(<, Nat)
    BY <1>1
  <1>3. \A k \in S : ~(k < m)
    BY <1>2 DEF OpToRel
  <1>4. QED
    BY <1>3

LEMMA SetInduction ==
  ASSUME NEW n \in Nat, NEW S \in SUBSET Nat, 0 \in S,
         \A k \in 0 .. n : k \in S /\ k + 1 <= n => k + 1 \in S
  PROVE  0 .. n \subseteq S
  <1> SUFFICES ASSUME (0 .. n) \ S # {} PROVE FALSE
    OBVIOUS
  <1>1. PICK m \in (0 .. n) \ S : \A k \in (0 .. n) \ S : m <= k
    <2>1. (0 .. n) \ S \in SUBSET Nat
      OBVIOUS
    <2>2. QED
      BY <2>1, LeastNumber
  <1>2. m - 1 \in 0 .. n /\ m - 1 \in S
    BY <1>1
  <1>3. QED
    BY <1>1, <1>2

\* When an event was due is what the code has stored in it, from the start.
LEMMA DueIsStored ==
  ASSUME IInv
  PROVE  \A i \in 1 .. Len(sched) : Due[i] = live_start + sched[i].time
  <1>0. /\ sched \in Seq(Times) /\ reached \in Seq(Int)
        /\ Len(sched) = Len(reached) /\ live_start \in Int
    BY DEF IInv, Shapes, TypeOK
  <1>1. PICK n \in Nat : n = Len(sched) /\ n = Len(reached)
    BY <1>0, LenProperties
  <1>2. \A i \in 1 .. n : reached[i] \in Int /\ sched[i].time \in Int
    <2>1. \A i \in 1 .. n : reached[i] \in Int /\ sched[i] \in Times
      BY <1>0, <1>1, ElementOfSeq
    <2>2. QED
      BY <2>1 DEF Times
  <1> DEFINE Rec(f) ==
        f = [i \in 1 .. Len(reached) |->
                script[i].time + (IF Absolute(i) THEN live_start
                                  ELSE IF i > 1 /\ Anchored(i) /\ Anchored(i - 1)
                                       THEN f[i - 1] ELSE reached[i])]
      Stores == [i \in 1 .. Len(reached) |-> live_start + sched[i].time]
  <1>3. Rec(Stores)
    <2>1. ASSUME NEW i \in 1 .. n
          PROVE  live_start + sched[i].time =
                    script[i].time + (IF Absolute(i) THEN live_start
                                      ELSE IF i > 1 /\ Anchored(i) /\ Anchored(i - 1)
                                           THEN live_start + sched[i - 1].time
                                           ELSE reached[i])
      <3>1. sched[i].time = script[i].time + Origin(i)
        BY <1>1 DEF IInv, Stored
      <3>2. script[i].time \in Int
        BY <1>1, ScriptIsSensible DEF IInv, TypeOK, Shapes, EventType
      <3>3. i > 1 => sched[i - 1].time \in Int
        BY <1>2
      <3>4. QED
        BY <1>0, <1>2, <3>1, <3>2, <3>3 DEF Origin
    <2>2. QED
      BY <1>1, <2>1
  <1>4. Due = CHOOSE f : Rec(f)
    BY DEF Due
  <1>5. Rec(Due)
    <2> HIDE DEF Rec, Stores
    <2>1. QED
      BY <1>3, <1>4, ZenonT(40)
  <1> DEFINE S == {m \in Nat : \A i \in 1 .. n : i <= m => Due[i] = live_start + sched[i].time}
  <1>6. 0 \in S
    OBVIOUS
  <1>7. ASSUME NEW k \in 0 .. n, k \in S, k + 1 <= n
        PROVE  k + 1 \in S
    <2>1. k > 0 => Due[k] = live_start + sched[k].time
      BY <1>7
    <2>2. Due[k + 1] = Stores[k + 1]
      <3>1. k + 1 \in 1 .. Len(reached) /\ (k + 1) - 1 = k /\ (k + 1 > 1 <=> k > 0)
        BY <1>1, <1>7
      <3>2. k > 0 => Stores[k] = Due[k]
        BY <1>1, <1>7, <2>1
      <3>3. \A f : Rec(f) =>
               f[k + 1] = script[k + 1].time
                            + (IF Absolute(k + 1) THEN live_start
                               ELSE IF k > 0 /\ Anchored(k + 1) /\ Anchored(k)
                                    THEN f[k] ELSE reached[k + 1])
        BY <3>1
      <3>4. QED
        <4> HIDE DEF Rec, Stores
        <4>1. QED
          BY <1>3, <1>5, <3>2, <3>3
    <2>3. Due[k + 1] = live_start + sched[k + 1].time
      BY <1>1, <1>7, <2>2
    <2>4. QED
      BY <1>7, <2>3
  <1>8. 0 .. n \subseteq S
    <2>1. S \in SUBSET Nat
      OBVIOUS
    <2> HIDE DEF S
    <2>2. QED
      BY <1>6, <1>7, <2>1, SetInduction
  <1>9. QED
    BY <1>1, <1>8

\* In a run of inbound packets the stored times are as far apart as the script
\* says, whenever the interpreter came to each.
LEMMA RunIsAnchored ==
  ASSUME IInv, NEW i \in 1 .. Len(sched), NEW j \in 1 .. Len(sched),
         i < j, RelativeRun(i, j)
  PROVE  TimeBetween(i, j) = sched[j].time - sched[i].time
  <1>0. /\ i \in Nat /\ j \in Nat /\ j - i \in Nat /\ Len(sched) \in Nat
        /\ sched \in Seq(Times) /\ script \in Scripts
        /\ \A k \in i .. j : k \in 1 .. Len(sched) /\ k \in 1 .. Len(script)
    BY ScriptIsSensible DEF IInv, Shapes, TypeOK
  <1>1. \A k \in i .. j : sched[k].time \in Int /\ script[k].time \in Int
    <2>1. \A k \in i .. j : sched[k] \in Times /\ script[k] \in EventType
      BY <1>0, ElementOfSeq, ScriptIsSensible
    <2>2. QED
      BY <2>1 DEF Times, EventType
  <1>2. ASSUME NEW k \in i + 1 .. j
        PROVE  sched[k].time = sched[k - 1].time + script[k].time
    <2>1. /\ k > 1 /\ k \in i .. j /\ k - 1 \in i .. j
          /\ ~Absolute(k) /\ Anchored(k) /\ Anchored(k - 1)
      BY <1>0 DEF RelativeRun
    <2>2. sched[k].time = script[k].time + Origin(k)
      BY <1>0, <2>1 DEF IInv, Stored
    <2>3. QED
      BY <1>1, <2>1, <2>2 DEF Origin
  <1> DEFINE Rec(f) == f = [k \in i .. j |-> IF k = i THEN 0 ELSE f[k - 1] + script[k].time]
             Gaps == [k \in i .. j |-> sched[k].time - sched[i].time]
             sum == CHOOSE f : Rec(f)
  <1>3. Rec(Gaps)
    <2>1. ASSUME NEW k \in i .. j
          PROVE  sched[k].time - sched[i].time
                    = IF k = i THEN 0 ELSE Gaps[k - 1] + script[k].time
      <3>1. CASE k = i
        BY <1>1, <3>1
      <3>2. CASE k # i
        <4>1. k \in i + 1 .. j /\ k - 1 \in i .. j /\ i \in i .. j
          BY <1>0, <3>2
        <4>2. Gaps[k - 1] = sched[k - 1].time - sched[i].time
          BY <4>1
        <4>3. /\ sched[k].time = sched[k - 1].time + script[k].time
              /\ sched[k - 1].time \in Int /\ script[k].time \in Int
              /\ sched[i].time \in Int
          BY <1>1, <1>2, <4>1
        <4> HIDE DEF Gaps
        <4>4. QED
          BY <3>2, <4>2, <4>3
      <3>3. QED
        BY <3>1, <3>2
    <2>2. QED
      BY <2>1
  <1>4. Rec(sum)
    <2> HIDE DEF Rec, Gaps
    <2>1. QED
      BY <1>3, ZenonT(40)
  <1>5. TimeBetween(i, j) = sum[j]
    BY DEF TimeBetween
  <1> DEFINE S == {m \in Nat : m <= j - i => sum[i + m] = Gaps[i + m]}
  <1>6. \A f : Rec(f) => f[i] = 0
    BY <1>0
  <1>7. ASSUME NEW m \in 0 .. j - i, m + 1 <= j - i
        PROVE  \A f : Rec(f) => f[i + (m + 1)] = f[i + m] + script[i + (m + 1)].time
    <2>1. i + (m + 1) \in i .. j /\ i + (m + 1) # i /\ (i + (m + 1)) - 1 = i + m
      BY <1>0, <1>7
    <2>2. QED
      BY <2>1
  <1>8. 0 .. (j - i) \subseteq S
    <2> HIDE DEF Rec, Gaps, sum
    <2>1. 0 \in S
      BY <1>0, <1>3, <1>4, <1>6
    <2>2. ASSUME NEW m \in 0 .. j - i, m \in S, m + 1 <= j - i
          PROVE  m + 1 \in S
      <3>1. sum[i + m] = Gaps[i + m] /\ m + 1 \in Nat
        BY <1>0, <2>2
      <3>2. sum[i + (m + 1)] = Gaps[i + (m + 1)]
        BY <1>3, <1>4, <1>7, <2>2, <3>1
      <3>3. QED
        BY <3>1, <3>2
    <2>3. S \in SUBSET Nat
      OBVIOUS
    <2> HIDE DEF S
    <2>4. QED
      BY <1>0, <2>1, <2>2, <2>3, SetInduction
  <1>9. sum[j] = Gaps[j]
    <2>1. j - i \in 0 .. (j - i) /\ i + (j - i) = j
      BY <1>0
    <2> HIDE DEF sum, Gaps
    <2>2. sum[i + (j - i)] = Gaps[i + (j - i)]
      BY <1>8, <2>1
    <2>3. QED
      BY <2>1, <2>2
  <1>10. QED
    BY <1>0, <1>5, <1>9

-----------------------------------------------------------------------------
\* Every variable keeps its type, and an end of a call is recorded only while
\* a call is with the thread.
THEOREM TimingTypes == Spec => []TypeOK
  <1>1. IInv => TypeOK
    BY DEF IInv
  <1>2. QED
    BY SpecIInv, <1>1, PTL

\* Facts about an event that has happened that the next theorems need.
LEMMA HappenedFacts ==
  ASSUME IInv, NEW i \in DOMAIN happened
  PROVE  /\ i \in 1 .. Len(sched) /\ i \in 1 .. Len(script)
         /\ script[i] \in EventType /\ Sensible(script[i])
         /\ happened[i] \in Int /\ live_start \in Int /\ Tolerance \in Int
         /\ sched[i].time \in Int /\ sched[i].time_end \in Int /\ sched[i].end \in Int
         /\ reached[i] \in Int /\ Origin(i) \in Int
  <1>1. /\ i \in 1 .. Len(sched) /\ sched \in Seq(Times) /\ reached \in Seq(Int)
        /\ Len(reached) = Len(sched) /\ script \in Scripts
        /\ live_start \in Int /\ happened[i] \in Int
    BY DEF IInv, TypeOK, Shapes
  <1>2. i \in 1 .. Len(script) /\ script[i] \in EventType /\ Sensible(script[i])
    <2>1. Len(sched) <= Len(script) /\ Len(script) \in Nat
      BY ScriptIsSensible DEF IInv, TypeOK, Shapes
    <2>2. QED
      BY <1>1, <2>1, ScriptIsSensible
  <1>3. sched[i] \in Times /\ reached[i] \in Int /\ (i > 1 => sched[i - 1] \in Times)
    BY <1>1, ElementOfSeq
  <1>4. /\ sched[i].time \in Int /\ sched[i].time_end \in Int /\ sched[i].end \in Int
        /\ i > 1 => sched[i - 1].time \in Int
    BY <1>3 DEF Times
  <1>5. Origin(i) \in Int
    BY <1>1, <1>3, <1>4 DEF Origin
  <1>6. QED
    BY <1>1, <1>2, <1>3, <1>4, <1>5, TimingAssumption

\* The time error is reported of the events that were off the time of the
\* script, and of no others: what the code adds to the times of an event does
\* not depend on how late the events before it were.
THEOREM TimesAreJudged == Spec => []TimesJudged
  <1>1. ASSUME IInv PROVE TimesJudged
    <2> SUFFICES ASSUME NEW i \in DOMAIN happened
                 PROVE  LET e == script[i]
                            last == IF e.time_end = NoEnd THEN Due[i]
                                    ELSE Due[i] + (e.time_end - e.time)
                        IN  (i \in blamed) <=> /\ e.time_type # "ANY_TIME"
                                               /\ i > 1 \/ e.type = "outbound"
                                               /\ ~Near(happened[i], Due[i], last)
      BY DEF TimesJudged
    <2>1. Due[i] = live_start + sched[i].time
      BY <1>1, DueIsStored, HappenedFacts
    <2>2. (i \in blamed) <=>
              /\ i > 1 \/ script[i].type = "outbound"
              /\ ~VerifyTime(script[i].time_type, sched[i].time, sched[i].time_end, happened[i])
      BY <1>1 DEF IInv, Judged
    <2>3. /\ sched[i].time = script[i].time + Origin(i)
          /\ sched[i].time_end = script[i].time_end
                + (IF script[i].time_type = "RELATIVE_RANGE_TIME" THEN Origin(i) ELSE 0)
          /\ script[i].time_type = "ABSOLUTE_RANGE_TIME" => Origin(i) = 0
      BY <1>1, HappenedFacts DEF IInv, Stored, Origin, Absolute
    <2>4. /\ script[i].time \in Int /\ script[i].time_end \in Int
          /\ (script[i].time_end # NoEnd) <=>
                script[i].time_type \in {"ABSOLUTE_RANGE_TIME", "RELATIVE_RANGE_TIME"}
      BY <1>1, HappenedFacts DEF EventType, NoEnd, Sensible
    <2>5. script[i].time_end # NoEnd =>
              sched[i].time_end = sched[i].time + (script[i].time_end - script[i].time)
      BY <1>1, <2>3, <2>4, HappenedFacts
    <2>6. /\ happened[i] \in Int /\ live_start \in Int /\ Tolerance \in Int
          /\ sched[i].time \in Int /\ sched[i].time_end \in Int
      BY <1>1, HappenedFacts
    <2>7. CASE script[i].time_end = NoEnd
      BY <2>1, <2>2, <2>4, <2>6, <2>7 DEF VerifyTime, Near
    <2>8. CASE script[i].time_end # NoEnd
      <3>1. script[i].time_type \in {"ABSOLUTE_RANGE_TIME", "RELATIVE_RANGE_TIME"}
        BY <2>4, <2>8
      <3>2. Due[i] + (script[i].time_end - script[i].time) = live_start + sched[i].time_end
        BY <2>1, <2>4, <2>5, <2>6, <2>8
      <3>3. QED
        BY <2>1, <2>2, <2>6, <2>8, <3>1, <3>2 DEF VerifyTime, Near
    <2>9. QED
      BY <2>7, <2>8
  <1>2. QED
    BY SpecIInv, <1>1, PTL

\* The end of a blocking call is judged by its own event.
THEOREM ReturnsAreJudged == Spec => []ReturnJudged
  <1>1. ASSUME IInv PROVE ReturnJudged
    <2> SUFFICES ASSUME NEW i \in DOMAIN returned
                 PROVE  LET e == script[i]
                            due == e.end + (IF Absolute(i) THEN live_start ELSE reached[i])
                        IN  (i \in blamedEnds) <=> ~Near(returned[i], due, due)
      BY DEF ReturnJudged
    <2>1. i \in DOMAIN happened /\ returned[i] \in Int /\ Blocking(i)
      BY <1>1 DEF IInv, EndsJudged, Shapes
    <2>2. (i \in blamedEnds) <=>
              ~VerifyTime(script[i].time_type, sched[i].end, 0, returned[i])
      BY <1>1 DEF IInv, EndsJudged
    <2>3. /\ script[i].type = "call" /\ script[i].end \in Int
          /\ script[i].time_type \in {"ABSOLUTE_TIME", "RELATIVE_TIME"}
      BY <1>1, <2>1, HappenedFacts DEF Sensible, Blocking, EventType, NoEnd
    <2>4. sched[i].end = script[i].end
              + (IF Absolute(i) THEN 0 ELSE reached[i] - live_start)
      <3>1. sched[i].end = script[i].end
              + (IF script[i].time_type = "RELATIVE_TIME" /\ Blocking(i) THEN Origin(i) ELSE 0)
        BY <1>1, <2>1, HappenedFacts DEF IInv, Stored
      <3>2. ~Anchored(i)
        BY <2>3 DEF Anchored
      <3>3. QED
        BY <2>1, <2>3, <3>1, <3>2 DEF Origin, Absolute
    <2>5. /\ live_start \in Int /\ Tolerance \in Int /\ reached[i] \in Int
      BY <1>1, <2>1, HappenedFacts
    <2>6. script[i].end + (IF Absolute(i) THEN live_start ELSE reached[i])
              = sched[i].end + live_start
      BY <2>3, <2>4, <2>5
    <2>7. sched[i].end \in Int
      BY <1>1, <2>1, HappenedFacts
    <2>8. QED
      BY <2>1, <2>2, <2>3, <2>5, <2>6, <2>7 DEF VerifyTime, Near
  <1>2. QED
    BY SpecIInv, <1>1, PTL

\* Delays do not add up in a run of inbound packets, however long it is.
THEOREM InboundIsOnSchedule == Spec => []InboundOnSchedule
  <1>1. ASSUME IInv PROVE InboundOnSchedule
    <2> SUFFICES ASSUME NEW i \in DOMAIN happened \ blamed, NEW j \in DOMAIN happened \ blamed,
                        i < j, RelativeRun(i, j)
                 PROVE  LET late == happened[j] - happened[i] - TimeBetween(i, j)
                        IN  late <= Tolerance /\ (i > 1 => late >= -Tolerance)
      BY DEF InboundOnSchedule
    <2>1. TimeBetween(i, j) = sched[j].time - sched[i].time
      BY <1>1, RunIsAnchored, HappenedFacts
    <2>2. ASSUME NEW k \in {i, j}
          PROVE  /\ happened[k] >= live_start + sched[k].time
                 /\ k > 1 => happened[k] <= live_start + sched[k].time + Tolerance
      <3>1. k \in DOMAIN happened /\ k \notin blamed
        OBVIOUS
      <3>2. Anchored(k)
        <4>1. i \in i .. j /\ j \in i .. j
          BY <1>1, HappenedFacts
        <4>2. QED
          BY <4>1 DEF RelativeRun
      <3>3. script[k].time_type \in {"ABSOLUTE_TIME", "RELATIVE_TIME"}
        BY <1>1, <3>1, <3>2, HappenedFacts DEF Sensible, Anchored
      <3>4. k > 1 => VerifyTime(script[k].time_type, sched[k].time, sched[k].time_end, happened[k])
        BY <1>1, <3>1 DEF IInv, Judged
      <3>5. happened[k] >= live_start + sched[k].time
        BY <1>1, <3>1, <3>2 DEF IInv, Judged
      <3>6. k > 1 => happened[k] <= live_start + sched[k].time + Tolerance
        <4>1. /\ happened[k] \in Int /\ live_start \in Int /\ Tolerance \in Int
              /\ sched[k].time \in Int
          BY <1>1, <3>1, HappenedFacts
        <4>2. QED
          BY <3>3, <3>4, <4>1 DEF VerifyTime, Near
      <3>7. QED
        BY <3>5, <3>6
    <2>3. j > 1
      BY <1>1, HappenedFacts
    <2>4. /\ happened[i] \in Int /\ happened[j] \in Int /\ live_start \in Int
          /\ Tolerance \in Int /\ sched[i].time \in Int /\ sched[j].time \in Int
      BY <1>1, HappenedFacts
    <2>5. QED
      BY <2>1, <2>2, <2>3, <2>4
  <1>2. QED
    BY SpecIInv, <1>1, PTL
=============================================================================
