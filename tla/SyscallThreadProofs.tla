------------------------ MODULE SyscallThreadProofs ------------------------
(***************************************************************************)
(* Proofs about SyscallThread, for scripts of any length and any mixture   *)
(* of event kinds.                                                         *)
(*                                                                         *)
(* None of the safety properties is inductive: each depends on how the     *)
(* positions of the two threads and syscalls->state go together.  IInv     *)
(* says so position by position; it is preserved by every step, and the    *)
(* properties follow from it.                                              *)
(***************************************************************************)
EXTENDS SyscallThread, TLAPS

\* Time for each leaf of a proof, in seconds
USE SMTT(20), ZenonT(40)

\* The main thread is between posting a call and seeing it dequeued
Enqueueing == {"enqueued", "wait_dequeued", "woken_dequeued"}
\* ... or is waiting for the call it posted to block or finish
Posting == Enqueueing \union {"yield", "check", "relock"}
Awaiting == {"await", "timedwait", "woken_idle", "timed_out"}

Splicing == thread \in InKernel /\ script[tevent] = "blocking_splice"

\* The positions of the threads tell who has the lock.  The main thread can
\* end the process at a place where it would have gone on without the lock.
LockInv ==
    /\ process = "running" => ((lock = "main") <=> (main \in MainLocked))
    /\ (lock = "thread") <=> (thread \in ThreadLocked \/ Splicing)

\* What the position of the main thread says about the shared state
MainInv ==
    /\ main \in {"create", "cond_init"} => event = 0 /\ sstate = "IDLE"
    /\ main = "next" => event \in 0..NumScriptEvents
    /\ main \in {"wait_event", "usleep", "call"} =>
           event \in Events /\ ~Blocking(event)
    /\ main \in Awaiting => event \in 1..NumScriptEvents + 1
    /\ main \in Posting \union {"enqueue"} => event \in Events /\ Blocking(event)
    /\ main \in {"enqueue", "exit"} => sstate = "IDLE"
    /\ main \in {"exit", "join", "close_fds"} => ScriptDone
    /\ sstate = "ENQUEUED" => main \in Enqueueing
    /\ (sstate = "EXITING") <=> (main \in {"join", "close_fds"})
    /\ (thread = "none") <=> (main = "create")
    /\ main = "cond_init" => thread = "start"
    /\ main = "close_fds" => thread = "exited"
    /\ conds = CASE main \in {"create", "cond_init"} -> "raw"
                 [] main = "close_fds" -> "destroyed"
                 [] OTHER -> "ready"
    /\ main \in Posting /\ sstate # "ENQUEUED" => threadId
    /\ main \in {"yield", "check", "relock"} => sstate # "ENQUEUED"

\* What the position of the system call thread says about it
ThreadInv ==
    /\ thread \in {"none", "start", "cond_wait", "woken", "loop", "exited"} =>
           sstate \in {"IDLE", "ENQUEUED", "EXITING"} /\ sevent = 0
    /\ thread \in {"wait_event", "usleep", "begin"} \/ Splicing =>
           sstate = "ENQUEUED" /\ event = tevent
    /\ thread \in InKernel \union {"signal"} /\ script[tevent] # "blocking_splice"
           => sstate = "RUNNING"
    /\ thread = "signal" => script[tevent] # "blocking_splice"
    /\ thread = "ended" => sstate = "DONE" /\ liveEnd
    /\ thread \in {"wait_event", "usleep", "begin", "signal", "ended"}
           \union InKernel =>
           /\ sevent = tevent /\ tevent \in Events /\ tevent <= event
           /\ Blocking(tevent)
    /\ thread = "exited" => sstate = "EXITING"
    /\ thread \notin {"none", "start"} => threadId

EndInv ==
    /\ process # "assert"
    /\ ~fdsOpen => thread = "exited" /\ process # "running"

IInv == TypeOK /\ LockInv /\ MainInv /\ ThreadInv /\ EndInv

-----------------------------------------------------------------------------

\* The invariant holds when state_new() starts: one thread, holding the lock.
LEMMA InitIInv == Init => IInv
  <1> SUFFICES ASSUME Init PROVE IInv
    OBVIOUS
  <1> USE EventsAssumption, KindsAssumption
  DEF Init, IInv, TypeOK, LockInv, MainInv, ThreadInv, EndInv, Splicing,
      MainLocked, MainUnlocked, ThreadLocked, ThreadUnlocked, InKernel,
      Enqueueing, Posting, Awaiting, Events
  <1>1. TypeOK
    <2>1. 0 \in 0..NumScriptEvents + 1
      OBVIOUS
    <2>2. QED
      BY <2>1, ZenonT(40)
  <1>2. LockInv
    OBVIOUS
  <1>3. MainInv
    OBVIOUS
  <1>4. ThreadInv
    OBVIOUS
  <1>5. QED
    BY <1>1, <1>2, <1>3, <1>4

\* Every step of the interpreter thread preserves it.
LEMMA MainStep == IInv /\ MainNext => IInv'
  <1> SUFFICES ASSUME IInv, MainNext PROVE IInv'
    OBVIOUS
  <1> USE EventsAssumption DEF IInv, TypeOK, LockInv, MainInv, ThreadInv,
      EndInv, Splicing, MainLocked, MainUnlocked, ThreadLocked,
      ThreadUnlocked, InKernel, Enqueueing, Posting, Awaiting, Events,
      ScriptDone, Blocking, MainAt, ThreadAt, syscallVars
  <1>1. CASE CreateThread
    BY <1>1 DEF CreateThread
  <1>2. CASE InitConds
    BY <1>2 DEF InitConds
  <1>3. CASE GetNextEvent
    BY <1>3 DEF GetNextEvent
  <1>4. CASE WaitForEvent
    BY <1>4 DEF WaitForEvent, Release, NumEvents
  <1>5. CASE WakeForEvent
    BY <1>5 DEF WakeForEvent, Acquire
  <1>6. CASE EventTimeComes
    BY <1>6 DEF EventTimeComes
  <1>7. CASE RunEvent
    BY <1>7 DEF RunEvent
  <1>8. CASE MainDie
    BY <1>8 DEF MainDie
  <1>9. CASE AwaitIdle
    BY <1>9 DEF AwaitIdle, AfterAwait
  <1>10. CASE AwaitBusy
    BY <1>10 DEF AwaitBusy, Release
  <1>11. CASE AwaitWake
    BY <1>11 DEF AwaitWake, Acquire
  <1>12. CASE AwaitTimeout
    BY <1>12 DEF AwaitTimeout
  <1>13. CASE AwaitFails
    BY <1>13 DEF AwaitFails, Acquire
  <1>14. CASE EnqueueSyscall
    BY <1>14 DEF EnqueueSyscall, SignalEnqueued
  <1>15. CASE WaitDequeued
    BY <1>15 DEF WaitDequeued, Release
  <1>16. CASE WakeDequeued
    BY <1>16 DEF WakeDequeued, Acquire
  <1>17. CASE Dequeued
    BY <1>17 DEF Dequeued
  <1>18. CASE UnlockAndYield
    BY <1>18 DEF UnlockAndYield, Release
  <1>19. CASE CheckSleeping
    <2>1. TypeOK'
      BY <1>19 DEF CheckSleeping, SleepStates
    <2>2. LockInv'
      BY <1>19 DEF CheckSleeping, SleepStates
    <2>3. MainInv'
      BY <1>19 DEF CheckSleeping, SleepStates
    <2>4. ThreadInv'
      BY <1>19 DEF CheckSleeping, SleepStates
    <2>5. EndInv'
      BY <1>19 DEF CheckSleeping, SleepStates
    <2>6. QED
      BY <2>1, <2>2, <2>3, <2>4, <2>5
  <1>20. CASE RelockAndRead
    <2>1. TypeOK'
      BY <1>20 DEF RelockAndRead, Acquire
    <2>2. LockInv'
      BY <1>20 DEF RelockAndRead, Acquire
    <2>3. MainInv'
      BY <1>20 DEF RelockAndRead, Acquire
    <2>4. ThreadInv'
      BY <1>20 DEF RelockAndRead, Acquire
    <2>5. EndInv'
      BY <1>20 DEF RelockAndRead, Acquire
    <2>6. QED
      BY <2>1, <2>2, <2>3, <2>4, <2>5 DEF IInv
  <1>21. CASE ExitThread
    BY <1>21 DEF ExitThread, Release, SignalEnqueued
  <1>22. CASE JoinThread
    BY <1>22 DEF JoinThread, Acquire
  <1>23. CASE CloseFds
    <2>1. TypeOK'
      BY <1>23 DEF CloseFds, Release
    <2>2. LockInv'
      BY <1>23 DEF CloseFds, Release
    <2>3. MainInv'
      BY <1>23 DEF CloseFds, Release
    <2>4. ThreadInv'
      BY <1>23 DEF CloseFds, Release
    <2>5. EndInv'
      BY <1>23 DEF CloseFds, Release
    <2>6. QED
      BY <2>1, <2>2, <2>3, <2>4, <2>5
  <1>24. QED
    BY <1>1, <1>2, <1>3, <1>4, <1>5, <1>6, <1>7, <1>8, <1>9, <1>10, <1>11,
       <1>12, <1>13, <1>14, <1>15, <1>16, <1>17, <1>18, <1>19, <1>20, <1>21,
       <1>22, <1>23 DEF MainNext

\* Every step of the system call thread preserves it.
LEMMA ThreadStep == IInv /\ ThreadNext => IInv'
  <1> SUFFICES ASSUME IInv, ThreadNext PROVE IInv'
    OBVIOUS
  <1> USE EventsAssumption DEF IInv, TypeOK, LockInv, MainInv, ThreadInv,
      EndInv, Splicing, MainLocked, MainUnlocked, ThreadLocked,
      ThreadUnlocked, InKernel, Enqueueing, Posting, Awaiting, Events,
      ScriptDone, Blocking, MainAt, ThreadAt, syscallVars
  <1>1. CASE ThreadStart
    BY <1>1 DEF ThreadStart, Acquire
  <1>2. CASE ThreadWait
    BY <1>2 DEF ThreadWait, Release
  <1>3. CASE ThreadWake
    BY <1>3 DEF ThreadWake, Acquire
  <1>4. CASE Dequeue
    <2>1. TypeOK'
      BY <1>4 DEF Dequeue, AssertHolds
    <2>2. LockInv'
      BY <1>4 DEF Dequeue, AssertHolds
    <2>3. MainInv'
      BY <1>4 DEF Dequeue, AssertHolds
    <2>4. ThreadInv'
      BY <1>4 DEF Dequeue, AssertHolds
    <2>5. EndInv'
      BY <1>4 DEF Dequeue, AssertHolds
    <2>6. QED
      BY <2>1, <2>2, <2>3, <2>4, <2>5 DEF IInv
  <1>5. CASE ThreadExit
    BY <1>5 DEF ThreadExit, Release
  <1>6. CASE ThreadWaitForEvent
    BY <1>6 DEF ThreadWaitForEvent, Release, NumEvents
  <1>7. CASE ThreadWakeForEvent
    BY <1>7 DEF ThreadWakeForEvent, Acquire
  <1>8. CASE ThreadEventTimeComes
    BY <1>8 DEF ThreadEventTimeComes
  <1>9. CASE BeginSyscall
    BY <1>9 DEF BeginSyscall, Release, AssertHolds
  <1>10. CASE SignalTheDequeue
    BY <1>10 DEF SignalTheDequeue, SignalDequeued
  <1>11. CASE SpliceWithoutBegin
    BY <1>11 DEF SpliceWithoutBegin
  <1>12. CASE CallBlocks
    BY <1>12 DEF CallBlocks
  <1>13. CASE CallReturns
    BY <1>13 DEF CallReturns
  <1>14. CASE EndSyscall
    BY <1>14 DEF EndSyscall, Acquire, AssertHolds
  <1>15. CASE MarkIdle
    <2>1. TypeOK'
      <3>1. 0 \in 0..NumScriptEvents + 1
        OBVIOUS
      <3>2. main' \in MainLocked \union MainUnlocked
        BY <1>15 DEF MarkIdle, SignalIdle, AssertHolds
      <3>3. QED
        BY <1>15, <3>1, <3>2, ZenonT(40) DEF MarkIdle, SignalIdle, AssertHolds
    <2>2. LockInv'
      BY <1>15 DEF MarkIdle, SignalIdle, AssertHolds
    <2>3. MainInv'
      BY <1>15 DEF MarkIdle, SignalIdle, AssertHolds
    <2>4. ThreadInv'
      BY <1>15 DEF MarkIdle, SignalIdle, AssertHolds
    <2>5. EndInv'
      BY <1>15 DEF MarkIdle, SignalIdle, AssertHolds
    <2>6. QED
      BY <2>1, <2>2, <2>3, <2>4, <2>5 DEF IInv
  <1>16. CASE ThreadDie
    BY <1>16 DEF ThreadDie
  <1>17. QED
    BY <1>1, <1>2, <1>3, <1>4, <1>5, <1>6, <1>7, <1>8, <1>9, <1>10, <1>11,
       <1>12, <1>13, <1>14, <1>15, <1>16 DEF ThreadNext

-----------------------------------------------------------------------------

LEMMA SpecIInv == Spec => []IInv
  <1>1. ASSUME IInv, [Next]_vars PROVE IInv'
    <2> USE <1>1, EventsAssumption
    <2>1. CASE SpuriousWakeup
      BY <2>1 DEF SpuriousWakeup, syscallVars, IInv, TypeOK, LockInv, MainInv,
         ThreadInv, EndInv, Splicing, MainLocked, MainUnlocked, ThreadLocked,
         ThreadUnlocked, InKernel, Enqueueing, Posting, Awaiting, Events,
         ScriptDone, Blocking
    <2>2. CASE UNCHANGED vars
      BY <2>2 DEF vars, syscallVars, IInv, TypeOK, LockInv, MainInv, ThreadInv,
         EndInv, Splicing, Events, ScriptDone, Blocking
    <2>3. QED
      BY <2>1, <2>2, MainStep, ThreadStep DEF Next, Ended
  <1>2. QED
    BY InitIInv, <1>1, PTL DEF Spec

\* Every field keeps to its type, in scripts of any length.
THEOREM TypeCorrect == Spec => []TypeOK
  <1>1. IInv => TypeOK
    BY DEF IInv
  <1>2. QED
    BY SpecIInv, <1>1, PTL

\* The assert()s of begin_syscall(), end_syscall() and system_call_thread()
\* can never fail.
THEOREM AssertionsNeverFail == Spec => []AssertionsHold
  <1>1. IInv => AssertionsHold
    BY DEF IInv, EndInv, AssertionsHold
  <1>2. QED
    BY SpecIInv, <1>1, PTL

\* state->event does not move between the dequeue and begin_syscall().
THEOREM EventStable == Spec => []EventStaysUntilBegun
  <1>1. IInv => EventStaysUntilBegun
    BY DEF IInv, TypeOK, MainInv, ThreadInv, EventStaysUntilBegun, Enqueueing,
           Posting, InKernel
  <1>2. QED
    BY SpecIInv, <1>1, PTL

\* syscalls->event is the call that the thread is making.
THEOREM CallRecorded == Spec => []CallInProgressRecorded
  <1>1. IInv => CallInProgressRecorded
    BY DEF IInv, ThreadInv, CallInProgressRecorded, InKernel
  <1>2. QED
    BY SpecIInv, <1>1, PTL

\* state_free() closes and destroys only what the joined thread has left.
THEOREM StateOutlivesThread == Spec => []ThreadOutlivedByState
  <1>1. IInv => ThreadOutlivedByState
    BY DEF IInv, TypeOK, MainInv, ThreadInv, EndInv, ThreadOutlivedByState,
           Posting
  <1>2. QED
    BY SpecIInv, <1>1, PTL

\* With handlers that call begin_syscall(), a thread asleep in a blocking
\* system call never holds the lock.
THEOREM BlockedCallsReleaseLock ==
    ASSUME "blocking_splice" \notin Kinds
    PROVE  Spec => []BlockedWithoutLock
  <1>1. IInv => BlockedWithoutLock
    BY DEF IInv, TypeOK, LockInv, ThreadInv, BlockedWithoutLock, Splicing,
           InKernel, ThreadLocked, Events
  <1>2. QED
    BY SpecIInv, <1>1, PTL

\* The shared state is only written by a thread that holds the lock.
THEOREM WritesProtected == Spec => WritesUnderLock
  <1> DEFINE Writes ==
        /\ event' # event => lock = "main"
        /\ <<sevent, liveEnd>>' # <<sevent, liveEnd>> =>
               "thread" \in {lock, lock'}
        /\ sstate' # sstate => lock # "none" \/ lock' # "none"
  <1>1. ASSUME IInv, MainNext PROVE Writes
    BY <1>1 DEF MainNext, IInv, LockInv, MainLocked, MainAt, ThreadAt,
       syscallVars, Acquire, Release, CreateThread, InitConds,
       GetNextEvent, WaitForEvent, WakeForEvent,
       EventTimeComes, RunEvent, MainDie, AwaitIdle, AwaitBusy, AwaitWake,
       AwaitTimeout, AwaitFails, EnqueueSyscall, WaitDequeued,
       WakeDequeued, Dequeued, UnlockAndYield, CheckSleeping,
       RelockAndRead, ExitThread, JoinThread, CloseFds
  <1>2. ASSUME IInv, ThreadNext PROVE Writes
    BY <1>2 DEF ThreadNext, IInv, LockInv, ThreadLocked, MainAt, ThreadAt,
       syscallVars, Acquire, Release, ThreadStart, ThreadWait, ThreadWake,
       Dequeue, ThreadExit,
       ThreadWaitForEvent, ThreadWakeForEvent, ThreadEventTimeComes,
       BeginSyscall, SignalTheDequeue, SpliceWithoutBegin, CallBlocks,
       CallReturns, EndSyscall, MarkIdle, ThreadDie
  <1>3. ASSUME IInv, [Next]_vars PROVE [Writes]_vars
    BY <1>1, <1>2, <1>3 DEF Next, Ended, SpuriousWakeup, syscallVars, vars
  <1>4. QED
    BY SpecIInv, <1>3, PTL DEF Spec, WritesUnderLock

-----------------------------------------------------------------------------
(* The refinement.  Five actions are visible in the slot: GetNextEvent,    *)
(* EnqueueSyscall and ExitThread of the interpreter, BeginSyscall and      *)
(* MarkIdle of the system call thread; all others leave it unchanged.      *)

LEMMA SlotInit == Init => Slot!Init
  BY EventsAssumption DEF Init, Slot!Init, SlotPhase, EventPosted, Events

LEMMA SlotMainStep == IInv /\ MainNext => [Slot!Next]_Slot!vars
  <1> SUFFICES ASSUME IInv, MainNext PROVE [Slot!Next]_Slot!vars
    OBVIOUS
  <1> USE EventsAssumption DEF IInv, TypeOK, MainInv, ThreadInv, MainLocked,
      MainUnlocked, ThreadLocked, ThreadUnlocked, InKernel, Enqueueing, Posting,
      Awaiting, Events, ScriptDone, Blocking, MainAt, ThreadAt, syscallVars,
      EventPosted, SlotPhase, Slot!vars
  <1>1. CASE CreateThread
    BY <1>1 DEF CreateThread
  <1>2. CASE InitConds
    BY <1>2 DEF InitConds
  <1>3. CASE GetNextEvent
    BY <1>3 DEF GetNextEvent, Slot!Next, Slot!Advance
  <1>4. CASE WaitForEvent
    BY <1>4 DEF WaitForEvent, Release, NumEvents
  <1>5. CASE WakeForEvent
    BY <1>5 DEF WakeForEvent, Acquire
  <1>6. CASE EventTimeComes
    BY <1>6 DEF EventTimeComes
  <1>7. CASE RunEvent
    BY <1>7 DEF RunEvent
  <1>8. CASE MainDie
    BY <1>8 DEF MainDie
  <1>9. CASE AwaitIdle
    BY <1>9 DEF AwaitIdle, AfterAwait
  <1>10. CASE AwaitBusy
    BY <1>10 DEF AwaitBusy, Release
  <1>11. CASE AwaitWake
    BY <1>11 DEF AwaitWake, Acquire
  <1>12. CASE AwaitTimeout
    BY <1>12 DEF AwaitTimeout
  <1>13. CASE AwaitFails
    BY <1>13 DEF AwaitFails, Acquire
  <1>14. CASE EnqueueSyscall
    BY <1>14 DEF EnqueueSyscall, SignalEnqueued, Slot!Next, Slot!Post
  <1>15. CASE WaitDequeued
    BY <1>15 DEF WaitDequeued, Release
  <1>16. CASE WakeDequeued
    BY <1>16 DEF WakeDequeued, Acquire
  <1>17. CASE Dequeued
    BY <1>17 DEF Dequeued
  <1>18. CASE UnlockAndYield
    BY <1>18 DEF UnlockAndYield, Release
  <1>19. CASE CheckSleeping
    BY <1>19 DEF CheckSleeping, SleepStates
  <1>20. CASE RelockAndRead
    BY <1>20 DEF RelockAndRead, Acquire
  <1>21. CASE ExitThread
    BY <1>21 DEF ExitThread, Release, SignalEnqueued, Slot!Next, Slot!Close
  <1>22. CASE JoinThread
    BY <1>22 DEF JoinThread, Acquire
  <1>23. CASE CloseFds
    BY <1>23 DEF CloseFds, Release
  <1>24. QED
    BY <1>1, <1>2, <1>3, <1>4, <1>5, <1>6, <1>7, <1>8, <1>9, <1>10,
       <1>11, <1>12, <1>13, <1>14, <1>15, <1>16, <1>17, <1>18, <1>19,
       <1>20, <1>21, <1>22, <1>23 DEF MainNext

LEMMA SlotThreadStep == IInv /\ ThreadNext => [Slot!Next]_Slot!vars
  <1> SUFFICES ASSUME IInv, ThreadNext PROVE [Slot!Next]_Slot!vars
    OBVIOUS
  <1> USE EventsAssumption DEF IInv, TypeOK, LockInv, Splicing, MainInv,
      ThreadInv, EndInv, MainLocked, MainUnlocked, ThreadLocked, ThreadUnlocked,
      InKernel, Enqueueing,
      Posting, Awaiting, Events, ScriptDone, Blocking, MainAt, ThreadAt,
      syscallVars, EventPosted, SlotPhase, Slot!vars
  <1>1. CASE ThreadStart
    BY <1>1 DEF ThreadStart, Acquire
  <1>2. CASE ThreadWait
    BY <1>2 DEF ThreadWait, Release
  <1>3. CASE ThreadWake
    BY <1>3 DEF ThreadWake, Acquire
  <1>4. CASE Dequeue
    BY <1>4 DEF Dequeue, AssertHolds
  <1>5. CASE ThreadExit
    BY <1>5 DEF ThreadExit, Release
  <1>6. CASE ThreadWaitForEvent
    BY <1>6 DEF ThreadWaitForEvent, Release, NumEvents
  <1>7. CASE ThreadWakeForEvent
    BY <1>7 DEF ThreadWakeForEvent, Acquire
  <1>8. CASE ThreadEventTimeComes
    BY <1>8 DEF ThreadEventTimeComes
  <1>9. CASE BeginSyscall
    BY <1>9 DEF BeginSyscall, Release, AssertHolds, Slot!Next, Slot!Begin
  <1>10. CASE SignalTheDequeue
    BY <1>10 DEF SignalTheDequeue, SignalDequeued
  <1>11. CASE SpliceWithoutBegin
    BY <1>11 DEF SpliceWithoutBegin
  <1>12. CASE CallBlocks
    BY <1>12 DEF CallBlocks
  <1>13. CASE CallReturns
    BY <1>13 DEF CallReturns
  <1>14. CASE EndSyscall
    BY <1>14 DEF EndSyscall, Acquire, AssertHolds
  <1>15. CASE MarkIdle
    BY <1>15 DEF MarkIdle, SignalIdle, AssertHolds, Slot!Next, Slot!Finish
  <1>16. CASE ThreadDie
    BY <1>16 DEF ThreadDie
  <1>17. QED
    BY <1>1, <1>2, <1>3, <1>4, <1>5, <1>6, <1>7, <1>8, <1>9, <1>10,
       <1>11, <1>12, <1>13, <1>14, <1>15, <1>16 DEF ThreadNext

\* The two threads implement the one-slot hand-over, for every script.
THEOREM ThreadsImplementSlot == Spec => ImplementsSlot
  <1>1. ASSUME IInv, [Next]_vars PROVE [Slot!Next]_Slot!vars
    <2>1. CASE SpuriousWakeup
      BY <1>1, <2>1 DEF SpuriousWakeup, syscallVars, IInv, TypeOK, EventPosted,
         SlotPhase, Slot!vars, Events, Blocking
    <2>2. CASE UNCHANGED vars
      BY <2>2 DEF vars, syscallVars, EventPosted, SlotPhase, Slot!vars, Blocking
    <2>3. QED
      BY <1>1, <2>1, <2>2, SlotMainStep, SlotThreadStep DEF Next, Ended
  <1>2. QED
    BY SlotInit, SpecIInv, <1>1, PTL DEF Spec, ImplementsSlot, Slot!Spec

=============================================================================
