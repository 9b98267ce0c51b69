--------------------------- MODULE SyscallThread ---------------------------
(***************************************************************************)
(* The interpreter thread and the system call thread of a packetdrill run. *)
(* run.c executes the script's events one after the other; a system call   *)
(* that the script expects to block is handed to a second thread, so that  *)
(* the events behind it can go on (run_system_call.c).  The two threads    *)
(* share struct state under one mutex, three condition variables and the   *)
(* field syscalls->state.                                                  *)
(*                                                                         *)
(* A step is what a thread does between two points where the other one can *)
(* observe it: an acquisition or a release of the mutex, or a change made  *)
(* while it holds it.  Times are not modelled: waiting until an event is   *)
(* due may take any number of sleeps, and a time check may fail.           *)
(***************************************************************************)
EXTENDS Integers

CONSTANTS
    NumScriptEvents,    \* length of script->event_list
    Kinds               \* the kinds of events that scripts are made of

\* An event is a system call with or without an end time, a blocking
\* splice(), whose handler differs from all the others, or anything else
\* that the interpreter runs itself: a packet, a command or a code snippet.
AllKinds == {"blocking", "blocking_splice", "nonblocking", "other"}

ASSUME EventsAssumption == NumScriptEvents \in Nat \ {0}
ASSUME KindsAssumption == Kinds \subseteq AllKinds /\ Kinds # {}

VARIABLES
    script,     \* the kind of each event
    process,    \* "running", "done", or how the process ended early
    lock,       \* the holder of state->mutex
    main,       \* where the interpreter thread is
    thread,     \* where the system call thread is
    event,      \* state->event: 0 before the first, NumScriptEvents+1 is NULL
    sstate,     \* syscalls->state
    sevent,     \* syscalls->event, 0 is NULL
    liveEnd,    \* syscalls->live_end_usecs >= 0
    threadId,   \* syscalls->thread_id has been set
    conds,      \* the three condition variables: "raw", "ready", "destroyed"
    tevent,     \* the local variable event of system_call_thread
    asleep,     \* what is_thread_sleeping() last said
    fdsOpen     \* close_all_fds() has not run yet

syscallVars == <<sstate, sevent, liveEnd, threadId, conds>>
vars == <<script, process, lock, main, thread, event, syscallVars, tevent,
          asleep, fdsOpen>>

Events == 1..NumScriptEvents
Blocking(e) == script[e] \in {"blocking", "blocking_splice"}
ScriptDone == event = NumScriptEvents + 1
NumEvents == event - 1      \* state->num_events while an event is executed

MainLocked == {"create", "cond_init", "next", "await", "enqueue", "enqueued",
               "yield", "wait_event", "call", "exit", "close_fds"}
MainUnlocked == {"timedwait", "woken_idle", "timed_out", "wait_dequeued",
                 "woken_dequeued", "check", "relock", "usleep", "join"}
ThreadLocked == {"loop", "wait_event", "begin", "ended"}
InKernel == {"in_call", "blocked", "returned"}
ThreadUnlocked == {"none", "start", "cond_wait", "woken", "usleep", "signal",
                   "exited"} \union InKernel

\* Where the threads are; nothing runs any more once the process has ended.
MainAt(pc) == process = "running" /\ main = pc
ThreadAt(pc) == process = "running" /\ thread = pc

-----------------------------------------------------------------------------
(* The mutex, the condition variables and the ends of the process.         *)

Acquire(p) == lock = "none" /\ lock' = p
Release == lock' = "none"

\* Seeded fault: the signal is forgotten
NoSignalDequeued == UNCHANGED main

\* pthread_cond_signal() with the only possible waiter of each variable
SignalEnqueued == thread' = IF thread = "cond_wait" THEN "woken" ELSE thread
SignalDequeued == main' = IF main = "wait_dequeued" THEN "woken_dequeued"
                                                    ELSE main
SignalIdle == main' = IF main = "timedwait" THEN "woken_idle" ELSE main

AssertHolds(P) == process' = IF P THEN process ELSE "assert"

-----------------------------------------------------------------------------
(* The interpreter thread: run_script(), state_new() and state_free().     *)

Init ==
    /\ script \in [Events -> Kinds]
    /\ process = "running"
    /\ lock = "main"
    /\ main = "create" /\ thread = "none"
    /\ event = 0 /\ tevent = 0
    /\ sstate = "IDLE" /\ sevent = 0 /\ liveEnd = FALSE
    /\ threadId = FALSE /\ conds = "raw"
    /\ asleep = FALSE /\ fdsOpen = TRUE

\* syscalls_new(): the thread exists before its condition variables do
CreateThread ==
    /\ MainAt("create")
    /\ main' = "cond_init" /\ thread' = "start"
    /\ UNCHANGED <<script, process, lock, event, syscallVars, tevent, asleep,
                   fdsOpen>>

InitConds ==
    /\ MainAt("cond_init")
    /\ main' = "next" /\ conds' = "ready"
    /\ UNCHANGED <<script, process, lock, thread, event, sstate, sevent,
                   liveEnd, threadId, tevent, asleep, fdsOpen>>

\* Seeded fault: an event is skipped
GetNextEventSkips ==
    /\ MainAt("next") /\ event \in 0..NumScriptEvents
    /\ event' = event + 2
    /\ main' = IF event' \in Events /\ script[event'] = "other"
               THEN "wait_event" ELSE "await"
    /\ UNCHANGED <<script, process, lock, thread, syscallVars, tevent, asleep,
                   fdsOpen>>

\* get_next_event() and the dispatch; past the last event, state_free()
GetNextEvent ==
    /\ MainAt("next") /\ event \in 0..NumScriptEvents
    /\ event' = event + 1
    /\ main' = IF event' \in Events /\ script[event'] = "other"
               THEN "wait_event" ELSE "await"
    /\ UNCHANGED <<script, process, lock, thread, syscallVars, tevent, asleep,
                   fdsOpen>>

\* wait_for_event(): the lock is given up while sleeping
WaitForEvent ==
    /\ MainAt("wait_event")
    /\ NumEvents > 0
    /\ main' = "usleep" /\ Release
    /\ UNCHANGED <<script, process, thread, event, syscallVars, tevent, asleep,
                   fdsOpen>>

WakeForEvent ==
    /\ MainAt("usleep") /\ Acquire("main")
    /\ main' = "wait_event"
    /\ UNCHANGED <<script, process, thread, event, syscallVars, tevent, asleep,
                   fdsOpen>>

EventTimeComes ==
    /\ MainAt("wait_event")
    /\ main' = "call"
    /\ UNCHANGED <<script, process, lock, thread, event, syscallVars, tevent,
                   asleep, fdsOpen>>

\* A packet, command, code or non-blocking call event runs to its end;
\* begin_syscall() and end_syscall() touch no shared state for it.
RunEvent ==
    /\ MainAt("call")
    /\ main' = "next"
    /\ UNCHANGED <<script, process, lock, thread, event, syscallVars, tevent,
                   asleep, fdsOpen>>

\* die(): a script error, a failed time check or a wrong result
MainDie ==
    /\ process = "running" /\ main \in {"next", "wait_event", "call", "check"}
    /\ process' = "failed"
    /\ UNCHANGED <<script, lock, main, thread, event, syscallVars, tevent,
                   asleep, fdsOpen>>

-----------------------------------------------------------------------------
(* await_idle_thread(), called before every system call and before exit.   *)

AfterAwait ==
    IF ScriptDone THEN "exit"
    ELSE IF Blocking(event) THEN "enqueue" ELSE "wait_event"

AwaitIdle ==
    /\ MainAt("await") /\ sstate = "IDLE"
    /\ main' = AfterAwait
    /\ UNCHANGED <<script, process, lock, thread, event, syscallVars, tevent,
                   asleep, fdsOpen>>

AwaitBusy ==
    /\ MainAt("await") /\ sstate # "IDLE"
    /\ main' = "timedwait" /\ Release
    /\ UNCHANGED <<script, process, thread, event, syscallVars, tevent, asleep,
                   fdsOpen>>

AwaitWake ==
    /\ MainAt("woken_idle") /\ Acquire("main")
    /\ main' = "await"
    /\ UNCHANGED <<script, process, thread, event, syscallVars, tevent, asleep,
                   fdsOpen>>

\* One second has passed; the mutex must be taken again before returning
AwaitTimeout ==
    /\ MainAt("timedwait")
    /\ main' = "timed_out"
    /\ UNCHANGED <<script, process, lock, thread, event, syscallVars, tevent,
                   asleep, fdsOpen>>

\* Seeded fault: the time-out is ignored before a blocking call
AwaitFailsIgnored ==
    /\ MainAt("timed_out") /\ Acquire("main")
    /\ IF ScriptDone
       THEN /\ process' = IF sevent = 0 THEN "segv" ELSE "failed"
            /\ UNCHANGED main
       ELSE IF Blocking(event)
       THEN main' = "enqueue" /\ UNCHANGED process
       ELSE main' = "wait_event" /\ UNCHANGED process
    /\ UNCHANGED <<script, thread, event, syscallVars, tevent, asleep, fdsOpen>>

\* STATUS_ERR: ignored before a non-blocking call, fatal for the others.
\* syscalls_free() reads syscalls->event->line_number for its message.
AwaitFails ==
    /\ MainAt("timed_out") /\ Acquire("main")
    /\ IF ScriptDone
       THEN /\ process' = IF sevent = 0 THEN "segv" ELSE "failed"
            /\ UNCHANGED main
       ELSE IF Blocking(event)
       THEN process' = "failed" /\ UNCHANGED main
       ELSE main' = "wait_event" /\ UNCHANGED process
    /\ UNCHANGED <<script, thread, event, syscallVars, tevent, asleep, fdsOpen>>

-----------------------------------------------------------------------------
(* enqueue_system_call()                                                   *)

EnqueueSyscall ==
    /\ MainAt("enqueue")
    /\ sstate' = "ENQUEUED"
    /\ SignalEnqueued
    /\ main' = "enqueued"
    /\ UNCHANGED <<script, process, lock, event, sevent, liveEnd, threadId,
                   conds, tevent, asleep, fdsOpen>>

WaitDequeued ==
    /\ MainAt("enqueued") /\ sstate = "ENQUEUED"
    /\ main' = "wait_dequeued" /\ Release
    /\ UNCHANGED <<script, process, thread, event, syscallVars, tevent, asleep,
                   fdsOpen>>

WakeDequeued ==
    /\ MainAt("woken_dequeued") /\ Acquire("main")
    /\ main' = "enqueued"
    /\ UNCHANGED <<script, process, thread, event, syscallVars, tevent, asleep,
                   fdsOpen>>

\* Seeded fault: the main thread does not wait for the dequeue
DequeuedUnchecked ==
    /\ MainAt("enqueued")
    /\ main' = "yield"
    /\ UNCHANGED <<script, process, lock, thread, event, syscallVars, tevent,
                   asleep, fdsOpen>>

Dequeued ==
    /\ MainAt("enqueued") /\ sstate # "ENQUEUED"
    /\ main' = "yield"
    /\ UNCHANGED <<script, process, lock, thread, event, syscallVars, tevent,
                   asleep, fdsOpen>>

UnlockAndYield ==
    /\ MainAt("yield")
    /\ main' = "check" /\ Release
    /\ UNCHANGED <<script, process, thread, event, syscallVars, tevent, asleep,
                   fdsOpen>>

\* What /proc/<pid>/task/<tid>/stat can say: a thread that waits for the
\* mutex or a signal may or may not have been put to sleep yet.
SleepStates ==
    CASE thread = "blocked" -> {TRUE}
      [] thread \in {"returned", "cond_wait", "woken"} -> {TRUE, FALSE}
      [] OTHER -> {FALSE}

CheckSleeping ==
    /\ MainAt("check")
    /\ asleep' \in SleepStates
    /\ main' = "relock"
    /\ UNCHANGED <<script, process, lock, thread, event, syscallVars, tevent,
                   fdsOpen>>

RelockAndRead ==
    /\ MainAt("relock") /\ Acquire("main")
    /\ main' = IF asleep \/ sstate = "IDLE" THEN "next" ELSE "yield"
    /\ asleep' = FALSE
    /\ UNCHANGED <<script, process, thread, event, syscallVars, tevent, fdsOpen>>

-----------------------------------------------------------------------------
(* syscalls_free() and the rest of state_free()                            *)

ExitThread ==
    /\ MainAt("exit")
    /\ sstate' = "EXITING"
    /\ SignalEnqueued
    /\ Release
    /\ main' = "join"
    /\ UNCHANGED <<script, process, event, sevent, liveEnd, threadId, conds,
                   tevent, asleep, fdsOpen>>

\* Seeded fault: the state is freed without pthread_join()
JoinThreadUnjoined ==
    /\ MainAt("join") /\ thread # "none" /\ Acquire("main")
    /\ main' = "close_fds" /\ conds' = "destroyed"
    /\ UNCHANGED <<script, process, thread, event, sstate, sevent, liveEnd,
                   threadId, tevent, asleep, fdsOpen>>

JoinThread ==
    /\ MainAt("join") /\ ThreadAt("exited") /\ Acquire("main")
    /\ main' = "close_fds" /\ conds' = "destroyed"
    /\ UNCHANGED <<script, process, thread, event, sstate, sevent, liveEnd,
                   threadId, tevent, asleep, fdsOpen>>

CloseFds ==
    /\ MainAt("close_fds")
    /\ fdsOpen' = FALSE /\ process' = "done"
    /\ Release
    /\ UNCHANGED <<script, main, thread, event, syscallVars, tevent, asleep>>

\* pthread_cond_wait() may return without a signal
SpuriousWakeup ==
    /\ process = "running"
    /\ \/ main = "timedwait" /\ main' = "woken_idle" /\ UNCHANGED thread
       \/ main = "wait_dequeued" /\ main' = "woken_dequeued" /\ UNCHANGED thread
       \/ thread = "cond_wait" /\ thread' = "woken" /\ UNCHANGED main
    /\ UNCHANGED <<script, process, lock, event, syscallVars, tevent, asleep,
                   fdsOpen>>

-----------------------------------------------------------------------------
(* The system call thread: system_call_thread()                            *)

ThreadStart ==
    /\ ThreadAt("start") /\ Acquire("thread")
    /\ thread' = "loop" /\ threadId' = TRUE
    /\ UNCHANGED <<script, process, main, event, sstate, sevent, liveEnd, conds,
                   tevent, asleep, fdsOpen>>

ThreadWait ==
    /\ ThreadAt("loop") /\ sstate = "IDLE"
    /\ thread' = "cond_wait" /\ Release
    /\ UNCHANGED <<script, process, main, event, syscallVars, tevent, asleep,
                   fdsOpen>>

ThreadWake ==
    /\ ThreadAt("woken") /\ Acquire("thread")
    /\ thread' = "loop"
    /\ UNCHANGED <<script, process, main, event, syscallVars, tevent, asleep,
                   fdsOpen>>

\* Seeded fault: syscalls->event is not set
DequeueForgetsEvent ==
    /\ ThreadAt("loop") /\ sstate \notin {"IDLE", "EXITING"}
    /\ AssertHolds(sstate = "ENQUEUED")
    /\ thread' = "wait_event"
    /\ tevent' = event /\ UNCHANGED sevent /\ liveEnd' = FALSE
    /\ UNCHANGED <<script, lock, main, event, sstate, threadId, conds, asleep,
                   fdsOpen>>

\* The event is remembered: the main thread will move on to later ones.
\* "should not be reached" is asserted for the states RUNNING and DONE.
Dequeue ==
    /\ ThreadAt("loop") /\ sstate \notin {"IDLE", "EXITING"}
    /\ AssertHolds(sstate = "ENQUEUED")
    /\ thread' = "wait_event"
    /\ tevent' = event /\ sevent' = event /\ liveEnd' = FALSE
    /\ UNCHANGED <<script, lock, main, event, sstate, threadId, conds, asleep,
                   fdsOpen>>

ThreadExit ==
    /\ ThreadAt("loop") /\ sstate = "EXITING"
    /\ thread' = "exited" /\ Release
    /\ UNCHANGED <<script, process, main, event, syscallVars, tevent, asleep,
                   fdsOpen>>

\* invoke_system_call() starts with wait_for_event(), as in the main thread
ThreadWaitForEvent ==
    /\ ThreadAt("wait_event")
    /\ NumEvents > 0
    /\ thread' = "usleep" /\ Release
    /\ UNCHANGED <<script, process, main, event, syscallVars, tevent, asleep,
                   fdsOpen>>

ThreadWakeForEvent ==
    /\ ThreadAt("usleep") /\ Acquire("thread")
    /\ thread' = "wait_event"
    /\ UNCHANGED <<script, process, main, event, syscallVars, tevent, asleep,
                   fdsOpen>>

ThreadEventTimeComes ==
    /\ ThreadAt("wait_event")
    /\ thread' = "begin"
    /\ UNCHANGED <<script, process, lock, main, event, syscallVars, tevent,
                   asleep, fdsOpen>>

\* begin_syscall(): the global lock is released before the call
BeginSyscall ==
    /\ ThreadAt("begin") /\ script[tevent] # "blocking_splice"
    /\ AssertHolds(sstate = "ENQUEUED")
    /\ sstate' = "RUNNING"
    /\ Release
    /\ thread' = "signal"
    /\ UNCHANGED <<script, main, event, sevent, liveEnd, threadId, conds,
                   tevent, asleep, fdsOpen>>

SignalTheDequeue ==
    /\ ThreadAt("signal")
    /\ SignalDequeued
    /\ thread' = "in_call"
    /\ UNCHANGED <<script, process, lock, event, syscallVars, tevent, asleep,
                   fdsOpen>>

\* syscall_splice() makes its call without begin_syscall()
SpliceWithoutBegin ==
    /\ ThreadAt("begin") /\ script[tevent] = "blocking_splice"
    /\ thread' = "in_call"
    /\ UNCHANGED <<script, process, lock, main, event, syscallVars, tevent,
                   asleep, fdsOpen>>

\* The kernel puts the thread to sleep in the call, or returns at once
CallBlocks ==
    /\ ThreadAt("in_call")
    /\ thread' = "blocked"
    /\ UNCHANGED <<script, process, lock, main, event, syscallVars, tevent,
                   asleep, fdsOpen>>

CallReturns ==
    /\ process = "running" /\ thread \in {"in_call", "blocked"}
    /\ thread' = "returned"
    /\ UNCHANGED <<script, process, lock, main, event, syscallVars, tevent,
                   asleep, fdsOpen>>

\* Seeded fault: the time of the return is not recorded
EndSyscallNoTime ==
    /\ ThreadAt("returned") /\ Acquire("thread")
    /\ AssertHolds(sstate = "RUNNING")
    /\ sstate' = "DONE" /\ UNCHANGED liveEnd
    /\ thread' = "ended"
    /\ UNCHANGED <<script, main, event, sevent, threadId, conds, tevent, asleep,
                   fdsOpen>>

\* Seeded fault: the lock is not taken again
EndSyscallUnlocked ==
    /\ ThreadAt("returned") /\ UNCHANGED lock
    /\ AssertHolds(sstate = "RUNNING")
    /\ sstate' = "DONE" /\ liveEnd' = TRUE
    /\ thread' = "ended"
    /\ UNCHANGED <<script, main, event, sevent, threadId, conds, tevent, asleep,
                   fdsOpen>>

EndSyscall ==
    /\ ThreadAt("returned") /\ Acquire("thread")
    /\ AssertHolds(sstate = "RUNNING")
    /\ sstate' = "DONE" /\ liveEnd' = TRUE
    /\ thread' = "ended"
    /\ UNCHANGED <<script, main, event, sevent, threadId, conds, tevent, asleep,
                   fdsOpen>>

MarkIdle ==
    /\ ThreadAt("ended")
    /\ AssertHolds(liveEnd /\ sstate = "DONE")
    /\ sstate' = "IDLE" /\ sevent' = 0 /\ liveEnd' = FALSE
    /\ SignalIdle
    /\ thread' = "loop"
    /\ UNCHANGED <<script, lock, event, threadId, conds, tevent, asleep, fdsOpen>>

\* die(): a failed time check, bad arguments or an unexpected result
ThreadDie ==
    /\ process = "running" /\ thread \in {"wait_event", "begin", "ended"}
    /\ process' = "failed"
    /\ UNCHANGED <<script, lock, main, thread, event, syscallVars, tevent,
                   asleep, fdsOpen>>

-----------------------------------------------------------------------------

MainNext ==
    \/ CreateThread \/ InitConds \/ GetNextEvent \/ WaitForEvent \/ WakeForEvent
    \/ EventTimeComes \/ RunEvent \/ MainDie \/ AwaitIdle \/ AwaitBusy
    \/ AwaitWake \/ AwaitTimeout \/ AwaitFails \/ EnqueueSyscall \/ WaitDequeued
    \/ WakeDequeued \/ Dequeued \/ UnlockAndYield \/ CheckSleeping
    \/ RelockAndRead \/ ExitThread \/ JoinThread \/ CloseFds

ThreadNext ==
    \/ ThreadStart \/ ThreadWait \/ ThreadWake \/ Dequeue \/ ThreadExit
    \/ ThreadWaitForEvent \/ ThreadWakeForEvent \/ ThreadEventTimeComes
    \/ BeginSyscall \/ SignalTheDequeue \/ SpliceWithoutBegin \/ CallBlocks
    \/ CallReturns \/ EndSyscall \/ MarkIdle \/ ThreadDie

Ended == process # "running" /\ UNCHANGED vars

Next == MainNext \/ ThreadNext \/ SpuriousWakeup \/ Ended

Spec == Init /\ [][Next]_vars

(***************************************************************************)
(* Fairness.  Each thread keeps taking steps (set_scheduling_priority()    *)
(* asks for SCHED_RR).  Acquiring the mutex is strongly fair: the holder   *)
(* of the moment always gives it up again and yields.  Time passes, so an  *)
(* event becomes due and the one-second timeout expires however often the  *)
(* waiting thread is woken before.  Nothing makes the kernel return from a *)
(* call that has put the thread to sleep.                                  *)
(***************************************************************************)
MainAcquires == \/ WakeForEvent \/ AwaitWake \/ AwaitFails \/ WakeDequeued
                \/ RelockAndRead \/ JoinThread
ThreadAcquires == ThreadStart \/ ThreadWake \/ ThreadWakeForEvent \/ EndSyscall
KernelActs == thread = "in_call" /\ (CallBlocks \/ CallReturns)
ThreadProceeds == \/ ThreadWait \/ Dequeue \/ ThreadExit \/ BeginSyscall
                  \/ SignalTheDequeue \/ SpliceWithoutBegin \/ MarkIdle

Fairness ==
    /\ WF_vars(MainNext)
    /\ SF_vars(MainAcquires)
    /\ SF_vars(EventTimeComes)
    /\ SF_vars(AwaitTimeout)
    /\ WF_vars(ThreadProceeds)
    /\ SF_vars(ThreadAcquires)
    /\ SF_vars(ThreadEventTimeComes)
    /\ WF_vars(KernelActs)

FairSpec == Spec /\ Fairness

-----------------------------------------------------------------------------
(* Properties                                                              *)

\* Every variable keeps to the values its C declaration and use allow.
TypeOK ==
    /\ script \in [Events -> Kinds]
    /\ process \in {"running", "failed", "done", "segv", "assert"}
    /\ lock \in {"main", "thread", "none"}
    /\ main \in MainLocked \union MainUnlocked
    /\ thread \in ThreadLocked \union ThreadUnlocked
    /\ event \in 0..NumScriptEvents + 1
    /\ sstate \in {"IDLE", "ENQUEUED", "RUNNING", "DONE", "EXITING"}
    /\ sevent \in 0..NumScriptEvents + 1 /\ tevent \in 0..NumScriptEvents + 1
    /\ liveEnd \in BOOLEAN /\ threadId \in BOOLEAN
    /\ conds \in {"raw", "ready", "destroyed"}
    /\ asleep \in BOOLEAN /\ fdsOpen \in BOOLEAN

\* No assert() of begin_syscall(), end_syscall() or system_call_thread()
\* fails: syscalls->state is what each of them expects, although both
\* threads write it and the lock is given up in between.
AssertionsHold == process # "assert"

\* "The main thread will move on to other, later events" (Dequeue), but not
\* before the system call thread has begun the call: until then the thread
\* still reads the global state->event, in wait_for_event() and
\* check_event_time(), and must find the event it was given.
EventStaysUntilBegun ==
    process = "running" /\ thread \in {"wait_event", "usleep", "begin"} =>
        /\ event = tevent /\ sevent = tevent
        /\ event \in Events /\ Blocking(event)

\* The call the thread is making is the one recorded in syscalls->event,
\* and the interpreter has not gone back before it.
CallInProgressRecorded ==
    process = "running" /\ thread \in InKernel \union {"signal", "ended"} =>
        sevent = tevent /\ tevent \in Events /\ tevent <= event

\* The sockets are closed and the condition variables destroyed only when
\* the system call thread, which uses both, is gone; nobody waits on a
\* condition variable before syscalls_new() has initialised it, or looks
\* whether the thread sleeps before it has said which thread it is.
ThreadOutlivedByState ==
    /\ ~fdsOpen \/ conds = "destroyed" => thread = "exited"
    /\ main = "check" => threadId
    /\ thread \in {"cond_wait", "woken"}
       \/ main \in {"timedwait", "woken_idle", "wait_dequeued"} => conds = "ready"

\* begin_syscall() is called "in order to release the global lock
\* immediately before a system call that the script expects to block".
BlockedWithoutLock == thread = "blocked" => lock # "thread"

\* run_lock() is there "to grab the global lock for all global state": the
\* interpreter's position is written by the main thread under the lock, the
\* record of the call by the system call thread under the lock, and the
\* state of the hand-over, which both write, by one that holds it.
WritesUnderLock ==
    [][/\ event' # event => lock = "main"
       /\ <<sevent, liveEnd>>' # <<sevent, liveEnd>> => "thread" \in {lock, lock'}
       /\ sstate' # sstate => lock # "none" \/ lock' # "none"]_vars

\* Whatever the kernel does with the calls, the run ends: nothing waits for
\* a blocked call longer than the second await_idle_thread() allows, no
\* wake-up is lost, and every call that was enqueued is begun.  (A blocking
\* splice() keeps the lock that it waits for: see BlockedWithoutLock.)
Termination ==
    (\A e \in Events : script[e] # "blocking_splice") => <>(process # "running")

-----------------------------------------------------------------------------
(* The two threads implement the slot of SyscallSlot.                      *)

\* The event has been enqueued: enqueue_system_call() is past its first half
EventPosted ==
    /\ event \in Events /\ Blocking(event)
    /\ main \in {"enqueued", "wait_dequeued", "woken_dequeued", "yield",
                 "check", "relock", "next"}

SlotPhase ==
    CASE sstate = "IDLE" -> "idle"
      [] sstate = "ENQUEUED" -> "posted"
      [] sstate \in {"RUNNING", "DONE"} -> "running"
      [] sstate = "EXITING" -> "closed"

Slot == INSTANCE SyscallSlot WITH
    cursor <- event, posted <- EventPosted, phase <- SlotPhase,
    call <- IF sstate = "ENQUEUED" THEN event ELSE sevent

\* Whatever the interleaving, the threads behave as the one-slot hand-over
\* that the comment above run_system_call_event() describes.
ImplementsSlot == Slot!Spec
=============================================================================
