---------------------------- MODULE SyscallSlot ----------------------------
(***************************************************************************)
(* What run_system_call.h promises of the pair of threads: a script is     *)
(* executed event by event, a blocking call is handed over through a slot  *)
(* for one call, and the script does not move on before the call has been  *)
(* begun.  "We only support at most one blocking system call at a time."   *)
(* Locks, condition variables and the ways a run can fail are not visible  *)
(* here: a run that fails simply takes no further step.                    *)
(***************************************************************************)
EXTENDS Integers

CONSTANT NumScriptEvents    \* number of events in the script

VARIABLES
    cursor,     \* the event being executed, 0 before the first one
    posted,     \* the event has been handed over already
    phase,      \* of the slot: "idle", "posted", "running" or "closed"
    call        \* the event in the slot, 0 if none

vars == <<cursor, posted, phase, call>>

Init == cursor = 0 /\ posted = FALSE /\ phase = "idle" /\ call = 0

\* The script moves on to its next event, or past the last one
Advance ==
    /\ phase # "posted" /\ cursor <= NumScriptEvents
    /\ cursor' = cursor + 1 /\ posted' = FALSE
    /\ UNCHANGED <<phase, call>>

\* The event is a blocking call, and it is handed over once
Post ==
    /\ phase = "idle" /\ cursor \in 1..NumScriptEvents /\ ~posted
    /\ phase' = "posted" /\ call' = cursor /\ posted' = TRUE
    /\ UNCHANGED cursor

\* The call that was handed over is the one that is begun
Begin ==
    /\ phase = "posted"
    /\ phase' = "running"
    /\ UNCHANGED <<cursor, posted, call>>

Finish ==
    /\ phase = "running"
    /\ phase' = "idle" /\ call' = 0
    /\ UNCHANGED <<cursor, posted>>

\* After the last event, and with no call in progress
Close ==
    /\ phase = "idle" /\ cursor = NumScriptEvents + 1
    /\ phase' = "closed"
    /\ UNCHANGED <<cursor, posted, call>>

Next == Advance \/ Post \/ Begin \/ Finish \/ Close

Spec == Init /\ [][Next]_vars
=============================================================================
