---------------------------- MODULE RemoteScript ----------------------------
(***************************************************************************)
(* What a remote test promises: though two machines execute the events of  *)
(* a script between them, the events of each session happen one after the  *)
(* other in the order of the script, as in a stand-alone run, and the test *)
(* passes only when all of them have happened.                             *)
(***************************************************************************)
EXTENDS Integers

CONSTANT Sessions

VARIABLES
    length,     \* the number of events in each session's script
    executed,   \* the events that have been executed
    verdict     \* "none" while the client runs, "pass" or "fail"

vars == <<length, executed, verdict>>

Init ==
    /\ length \in [Sessions -> Nat \ {0}]
    /\ executed = [s \in Sessions |-> {}]
    /\ verdict = [s \in Sessions |-> "none"]

\* The next event in order.  When the client has failed, the server may
\* still be busy with the packets that it was asked to handle.
Execute(s) ==
    /\ verdict[s] # "pass"
    /\ \E e \in 1..length[s] :
          /\ executed[s] = 1..(e - 1)
          /\ executed' = [executed EXCEPT ![s] = 1..e]
    /\ UNCHANGED <<length, verdict>>

Pass(s) ==
    /\ verdict[s] = "none" /\ executed[s] = 1..length[s]
    /\ verdict' = [verdict EXCEPT ![s] = "pass"]
    /\ UNCHANGED <<length, executed>>

Fail(s) ==
    /\ verdict[s] = "none"
    /\ verdict' = [verdict EXCEPT ![s] = "fail"]
    /\ UNCHANGED <<length, executed>>

Next == \E s \in Sessions : Execute(s) \/ Pass(s) \/ Fail(s)

Spec == Init /\ [][Next]_vars
=============================================================================
